---------------------------- MODULE BridgeAccess ----------------------------
(***************************************************************************)
(* A request at the WebDAV bridge from its password to the user it is      *)
(* carried out for: BridgeDomainController (auth.py) asks UserAccess who   *)
(* is calling, AgentApiClient signs a token for that user or takes the one *)
(* in _TokenCache, which the threads of the server share without a lock,   *)
(* and the Agent-MD-API judges the token when it arrives.  The commands    *)
(* of UserAccess run beside it.                                            *)
(*                                                                         *)
(* The clock is the same for bridge and API and finer than a second: the   *)
(* cache reckons with all of it, a token with whole seconds only.          *)
(***************************************************************************)
EXTENDS UserAccess

CONSTANTS
    Threads,
    Attempts,   \* [name, pat] pairs that requests present
    Second,     \* ticks of the clock in a second
    TTL,        \* life of a token, user_token_ttl_seconds
    Buffer,     \* what must be left of a cached token's life, 60 s in the code
    Travel,     \* bound: time from the look at the clock to the API's verdict
    MaxTime,    \* bound: the clock
    MaxRequests \* bound: requests begun in one behaviour

(* A call gives up a second before the buffer is used up, the second that a *)
(* token may lose to the rounding of its times, and a token outlives the    *)
(* call it was signed for.                                                  *)
ASSUME TimesFit == /\ {TTL, Buffer, Travel, MaxTime, MaxRequests} \subseteq Nat
                   /\ Second \in Nat \ {0} /\ TTL % Second = 0
                   /\ Travel + Second <= Buffer /\ Buffer < TTL
ASSUME AttemptsTyped == Attempts \subseteq [name: Names, pat: Nat] /\ None \notin Attempts

VARIABLES
    clock,
    cache,      \* _tokens: per user the last token and its end, or None
    where,      \* where each request is
    ask,        \* name and PAT presented
    who,        \* environ["webdav_bridge.agent_api_user_id"]
    seen,       \* time at which _TokenCache.get looked at the clock
    token,      \* the token in hand
    requests,   \* requests begun so far
    endedBefore \* ghost: `ended` when the request began

threadVars == <<where, ask, who, seen, token, endedBefore>>
bridgeVars == <<clock, cache, threadVars, requests>>
vars == <<shellVars, bridgeVars>>

Tokens  == [sub: Users, exp: Nat]
Entries == [token: Tokens, until: Nat]
ASSUME NoneIsNoToken == None \notin Tokens \cup Entries

Init ==
    /\ ShellInit
    /\ clock = 0
    /\ cache = [u \in Users |-> None]
    /\ where = [t \in Threads |-> "idle"]
    /\ ask = [t \in Threads |-> None]
    /\ who = [t \in Threads |-> None]
    /\ seen = [t \in Threads |-> 0]
    /\ token = [t \in Threads |-> None]
    /\ requests = 0
    /\ endedBefore = [t \in Threads |-> {}]

Arrive(t, q) ==
    /\ where[t] = "idle"
    /\ requests < MaxRequests
    /\ q.pat <= drawn
    /\ where' = [where EXCEPT ![t] = "auth"]
    /\ ask' = [ask EXCEPT ![t] = q]
    /\ endedBefore' = [endedBefore EXCEPT ![t] = ended]
    /\ requests' = requests + 1
    /\ UNCHANGED <<who, seen, token, clock, cache>>

End(t) ==
    /\ where' = [where EXCEPT ![t] = "idle"]
    /\ ask' = [ask EXCEPT ![t] = None]
    /\ who' = [who EXCEPT ![t] = None]
    /\ seen' = [seen EXCEPT ![t] = 0]
    /\ token' = [token EXCEPT ![t] = None]
    /\ endedBefore' = [endedBefore EXCEPT ![t] = {}]

(* basic_auth_user; json.loads raises on a file that is being written.      *)
Authenticate(t) ==
    /\ where[t] = "auth"
    /\ \/ file \in Unreadable /\ End(t)
       \/ /\ file \notin Unreadable
          /\ ~Verifies(ask[t].name, ask[t].pat)
          /\ End(t)
       \/ /\ file \notin Unreadable
          /\ Verifies(ask[t].name, ask[t].pat)
          /\ where' = [where EXCEPT ![t] = "token"]
          /\ who' = [who EXCEPT ![t] = file[ask[t].name].user]
          /\ UNCHANGED <<ask, seen, token, endedBefore>>
    /\ UNCHANGED <<clock, cache, requests>>

(* Mutants: any token that is still valid will do; the cache is one token.  *)
CachedToTheEnd(u) == IF cache[u] # None /\ cache[u].until > clock THEN cache[u].token ELSE None

CachedForAnyone(u) ==
    LET fresh == {v \in Users : cache[v] # None /\ cache[v].until > clock + Buffer}
    IN  IF fresh = {} THEN None ELSE cache[CHOOSE v \in fresh : TRUE].token

(* The user's token, if by the cache's own reckoning enough of its life is  *)
(* left.                                                                    *)
Cached(u) ==
    IF cache[u] # None /\ cache[u].until > clock + Buffer THEN cache[u].token ELSE None

(* _TokenCache.get: the cache and the clock.                                *)
LookUp(t) ==
    /\ where[t] = "token"
    /\ seen' = [seen EXCEPT ![t] = clock]
    /\ token' = [token EXCEPT ![t] = Cached(who[t])]
    /\ where' = [where EXCEPT ![t] = IF Cached(who[t]) = None THEN "sign" ELSE "sent"]
    /\ UNCHANGED <<ask, who, endedBefore, clock, cache, requests>>

(* int(now): the last full second.                                          *)
WholeSeconds(n) == n - (n % Second)

(* _TokenCache.get: a new token, from the time that was looked up; its end  *)
(* is counted from the full second, the cache's from the fraction.          *)
Sign(t) ==
    LET new == [sub |-> who[t], exp |-> WholeSeconds(seen[t]) + TTL]
    IN  /\ where[t] = "sign"
        /\ token' = [token EXCEPT ![t] = new]
        /\ cache' = [cache EXCEPT ![who[t]] = [token |-> new, until |-> seen[t] + TTL]]
        /\ where' = [where EXCEPT ![t] = "sent"]
        /\ UNCHANGED <<ask, who, seen, endedBefore, clock, requests>>

(* jwt.decode at the API (verify_user_token).                               *)
Expired(tk) == tk.exp <= clock

(* The call arrives and is carried out, or refused for an expired token.    *)
Judge(t) ==
    /\ where[t] = "sent"
    /\ End(t)
    /\ UNCHANGED <<clock, cache, requests>>

Tick ==
    /\ clock < MaxTime
    /\ \A t \in Threads : where[t] \in {"sign", "sent"} => clock < seen[t] + Travel
    /\ clock' = clock + 1
    /\ UNCHANGED <<cache, threadVars, requests>>

(* The server dies and is started again; the cache is in its memory.        *)
Restart ==
    /\ "crash" \in Faults
    /\ where' = [t \in Threads |-> "idle"]
    /\ ask' = [t \in Threads |-> None]
    /\ who' = [t \in Threads |-> None]
    /\ seen' = [t \in Threads |-> 0]
    /\ token' = [t \in Threads |-> None]
    /\ endedBefore' = [t \in Threads |-> {}]
    /\ cache' = [u \in Users |-> None]
    /\ UNCHANGED <<clock, requests>>

Serve(t) == Authenticate(t) \/ LookUp(t) \/ Sign(t) \/ Judge(t)

Next ==
    \/ /\ \/ \E t \in Threads : Serve(t) \/ \E q \in Attempts : Arrive(t, q)
          \/ Tick
          \/ Restart
       /\ UNCHANGED shellVars
    \/ /\ \E s \in Shells : Command(s)
       /\ UNCHANGED bridgeVars

Spec == Init /\ [][Next]_vars
-----------------------------------------------------------------------------
(* Properties                                                               *)

(* Type invariant.                                                          *)
TypeOK ==
    /\ file \in Tables \cup Unreadable
    /\ at \in [Shells -> {"idle", "load", "save", "write"}]
    /\ cmd \in [Shells -> Menu \cup {None}]
    /\ mem \in [Shells -> Tables \cup {None}]
    /\ cache \in [Users -> Entries \cup {None}]
    /\ where \in [Threads -> {"idle", "auth", "token", "sign", "sent"}]
    /\ ask \in [Threads -> Attempts \cup {None}]
    /\ who \in [Threads -> Users \cup {None}]
    /\ token \in [Threads -> Tokens \cup {None}]

CommandsFit ==
    \A s \in Shells :
       /\ at[s] = "idle" <=> cmd[s] = None
       /\ at[s] \in {"save", "write"} <=> mem[s] # None

RequestsFit ==
    \A t \in Threads :
       /\ where[t] = "idle" <=> ask[t] = None
       /\ where[t] \in {"idle", "auth"} <=> who[t] = None
       /\ where[t] = "sent" <=> token[t] # None

(* A cached token is the token of the user it is filed under, and ends less *)
(* than a second before the cache takes it to end.                          *)
CacheFits ==
    \A u \in Users : cache[u] # None =>
       /\ cache[u].token.sub = u
       /\ cache[u].until < cache[u].token.exp + Second

(* No call is refused because its token, taken from the cache or signed by  *)
(* a slow thread, has expired when it arrives, although the cache takes     *)
(* tokens to live up to a second longer than the API does: a way of one     *)
(* second less than the buffer is short enough (_TokenCache.get).           *)
TokensArriveFresh == \A t \in Threads : where[t] = "sent" => ~Expired(token[t])

(* What commands and requests carry fits where they are: no command keeps a *)
(* copy of the table from one access to the next (_reload), no request goes *)
(* on without a user, the cache files every token under its own, and the    *)
(* tokens on their way arrive before they expire.                           *)
AccessInv == TypeOK /\ CommandsFit /\ RequestsFit /\ CacheFits /\ TokensArriveFresh

(* Claim: "mind. 60s Puffer vor Ablauf": a token is taken from the cache    *)
(* only if it is valid for longer than the buffer (agent_api_client.py:95). *)
CachedTokensHaveTheBuffer ==
    [][\A t \in Threads : where[t] = "token" /\ where'[t] = "sent" =>
          token'[t].exp > clock + Buffer]_vars

GrantedTo(t) == where[t] = "sent" /\ where'[t] = "idle" /\ ~Expired(token[t])
Denied(t)    == Authenticate(t) /\ where'[t] = "idle" /\ file \notin Unreadable

(* A call is carried out for the user the PAT was issued for, whatever      *)
(* other users' tokens pass through the shared cache and whatever commands  *)
(* changed the table since.                                                 *)
CallsSpeakForTheirUser ==
    [][\A t \in Threads : GrantedTo(t) =>
          /\ issued[ask[t].pat].name = ask[t].name
          /\ issued[ask[t].pat].user = token[t].sub]_vars

(* Once a command confirmed that an access was revoked, or its PAT replaced *)
(* by a rotation or a new create, no request that begins later is carried   *)
(* out with the old PAT, although tokens signed for it are still cached.    *)
EndedPatsOpenNothing ==
    [][\A t \in Threads : GrantedTo(t) => ask[t].pat \notin endedBefore[t]]_vars

(* The PAT a command printed works in the running server at once and until  *)
(* the next command for that name (the docstring of UserAccessRegistry), no *)
(* matter what commands for other names do or how they fail: a request may  *)
(* meet a file it cannot read, but never one that denies it.                *)
PrintedPatsWork ==
    [][\A t \in Threads : Denied(t) =>
          printed[ask[t].name] # ask[t].pat]_vars
=============================================================================
