------------------------------ MODULE Sessions ------------------------------
(***************************************************************************)
(* Console sessions: tokens that any service process sharing the secret    *)
(* checks by itself (internal/platform/session/session.go), the login,     *)
(* logout and OAuth handlers of control-api (internal/control/auth.go,     *)
(* oauth.go), and the check in front of the other requests (authenticate   *)
(* in internal/platform/access/access.go).                                 *)
(*                                                                         *)
(* A token carries its own expiry. What a process adds to that is in its   *)
(* memory only: the tokens it revoked, and the OAuth states it handed out  *)
(* and has not seen back. A restart forgets both. The check reads the      *)
(* clock, and later the map of revoked tokens, while another request may   *)
(* clean that map.                                                         *)
(***************************************************************************)
EXTENDS Naturals, FiniteSets

CONSTANTS
    Processes,     \* service processes
    Tokens,        \* tokens, by their random ids
    States,        \* OAuth states, random too
    Requests,      \* requests that may be in flight at once
    TTL,           \* lifetime of a token (12 h)
    StateTTL,      \* lifetime of an OAuth state (10 min)
    MaxNow,        \* bound: the last tick of the clock
    MaxRestarts    \* bound: restarts of processes

ASSUME TTLAssumption == TTL \in Nat \ {0} /\ StateTTL \in Nat \ {0}
ASSUME BoundsAssumption == MaxNow \in Nat /\ MaxRestarts \in Nat

VARIABLES
    now,           \* the clock the processes share
    expires,       \* expiry of each token; Never: not made
    revoked,       \* revoked[p]: token -> its expiry, in the memory of p
    offered,       \* offered[p]: state -> its expiry, in the memory of p
    request,       \* the requests in flight
    restarts,
    told,          \* history: tokens p has answered it revoked, since its start
    issued,        \* history: who offered a state, until when
    spent,         \* history: states that were consumed
    madeFor        \* history: the state a token was made for

sessionVars == <<now, expires, revoked, offered, request, restarts, told, issued, spent, madeFor>>
history == <<told, issued, spent, madeFor>>

Never == 0
NotIssued == [by |-> "nobody", until |-> Never]
Idle == [at |-> "idle"]

Checks ==
    [at : {"look", "accepted"}, process : Processes, token : Tokens,
     why : {"request", "logout", "revoke"}, clock : Nat, late : BOOLEAN]
Callbacks == [at : {"callback"}, process : Processes, state : States, clock : Nat]

SessionInit ==
    /\ now = 1
    /\ expires = [t \in Tokens |-> Never]
    /\ revoked = [p \in Processes |-> [t \in Tokens |-> Never]]
    /\ offered = [p \in Processes |-> [s \in States |-> Never]]
    /\ request = [r \in Requests |-> Idle]
    /\ restarts = 0
    /\ told = [p \in Processes |-> {}]
    /\ issued = [s \in States |-> NotIssued]
    /\ spent = {}
    /\ madeFor = [t \in Tokens |-> {}]

-----------------------------------------------------------------------------
\* cleanupLocked, of the revoked tokens and of the states alike.
Cleaned_Fresh(map) == [x \in DOMAIN map |-> IF map[x] > now THEN Never ELSE map[x]]
Cleaned(map) == [x \in DOMAIN map |-> IF map[x] > now THEN map[x] ELSE Never]

\* A token nobody has is made, with its expiry in it.
MakeToken(t, for) ==
    /\ expires[t] = Never
    /\ expires' = [expires EXCEPT ![t] = now + TTL]
    /\ madeFor' = [madeFor EXCEPT ![t] = for]

Login(t) ==
    /\ MakeToken(t, {})
    /\ UNCHANGED <<now, revoked, offered, request, restarts, told, issued, spent>>

\* parse reads the clock. An expired token is refused here.
CheckExpiry(r, p, t, why) ==
    /\ now < expires[t]
    /\ request' = [request EXCEPT ![r] =
          [at |-> "look", process |-> p, token |-> t, why |-> why, clock |-> now,
           late |-> t \in told[p]]]
    /\ UNCHANGED <<now, expires, revoked, offered, restarts, history>>

Arrive(r, p, t) ==
    /\ request[r] = Idle
    /\ \E why \in {"request", "logout"} : CheckExpiry(r, p, t, why)

\* parse then reads the map, and compares what it finds with the clock it read.
LookUp(r) ==
    LET q == request[r]
    IN  /\ q.at = "look"
        /\ request' = [request EXCEPT ![r] =
              IF revoked[q.process][q.token] > q.clock
              THEN Idle
              ELSE [q EXCEPT !.at = "accepted", !.clock = now]]
        /\ UNCHANGED <<now, expires, revoked, offered, restarts, history>>

\* The request behind the check is served.
Serve(r) ==
    /\ request[r].at = "accepted" /\ request[r].why = "request"
    /\ request' = [request EXCEPT ![r] = Idle]
    /\ UNCHANGED <<now, expires, revoked, offered, restarts, history>>

\* The logout handler: Revoke parses the token once more ...
LogOut(r) ==
    LET q == request[r]
    IN  /\ q.at = "accepted" /\ q.why = "logout"
        /\ IF now < expires[q.token]
           THEN CheckExpiry(r, q.process, q.token, "revoke")
           ELSE /\ request' = [request EXCEPT ![r] = Idle]
                /\ UNCHANGED <<now, expires, revoked, offered, restarts, history>>

\* ... and then takes the lock, cleans the map, adds the token and answers.
Revoke(r) ==
    LET q == request[r]
    IN  /\ q.at = "accepted" /\ q.why = "revoke"
        /\ revoked' = [revoked EXCEPT ![q.process] =
              [Cleaned(@) EXCEPT ![q.token] = expires[q.token]]]
        /\ told' = [told EXCEPT ![q.process] = @ \cup {q.token}]
        /\ request' = [request EXCEPT ![r] = Idle]
        /\ UNCHANGED <<now, expires, offered, restarts, issued, spent, madeFor>>

-----------------------------------------------------------------------------
\* The start of an OAuth login puts a new state into the memory of p.
StateExpiry_OfSession == now + TTL
StateExpiry == now + StateTTL

StartOAuth(p, s) ==
    /\ issued[s] = NotIssued
    /\ offered' = [offered EXCEPT ![p] = [Cleaned(@) EXCEPT ![s] = StateExpiry]]
    /\ issued' = [issued EXCEPT ![s] = [by |-> p, until |-> now + StateTTL]]
    /\ UNCHANGED <<now, expires, revoked, request, restarts, told, spent, madeFor>>

\* Consume, under the lock: the state goes whether it was still good or not.
\* A callback to a process that does not hold the state is refused.
Consume_Keeps(r, p, s) ==
    /\ request[r] = Idle
    /\ offered[p][s] > now
    /\ offered' = [offered EXCEPT ![p] = Cleaned(@)]
    /\ request' = [request EXCEPT ![r] =
          [at |-> "callback", process |-> p, state |-> s, clock |-> now]]
    /\ spent' = spent \cup {s}
    /\ UNCHANGED <<now, expires, revoked, restarts, told, issued, madeFor>>

Consume(r, p, s) ==
    /\ request[r] = Idle
    /\ offered[p][s] > now
    /\ offered' = [offered EXCEPT ![p] = [Cleaned(@) EXCEPT ![s] = Never]]
    /\ request' = [request EXCEPT ![r] =
          [at |-> "callback", process |-> p, state |-> s, clock |-> now]]
    /\ spent' = spent \cup {s}
    /\ UNCHANGED <<now, expires, revoked, restarts, told, issued, madeFor>>

\* The code is exchanged with the provider, the user looked up, and the
\* session made ...
FinishCallback(r, t) ==
    /\ request[r].at = "callback"
    /\ MakeToken(t, {request[r].state})
    /\ request' = [request EXCEPT ![r] = Idle]
    /\ UNCHANGED <<now, revoked, offered, restarts, told, issued, spent>>

\* ... or one of these fails, and the state is gone all the same.
FailCallback(r) ==
    /\ request[r].at = "callback"
    /\ request' = [request EXCEPT ![r] = Idle]
    /\ UNCHANGED <<now, expires, revoked, offered, restarts, history>>

-----------------------------------------------------------------------------
Restart(p) ==
    /\ restarts < MaxRestarts
    /\ restarts' = restarts + 1
    /\ revoked' = [revoked EXCEPT ![p] = [t \in Tokens |-> Never]]
    /\ offered' = [offered EXCEPT ![p] = [s \in States |-> Never]]
    /\ told' = [told EXCEPT ![p] = {}]
    /\ request' = [r \in Requests |->
          IF request[r] # Idle /\ request[r].process = p THEN Idle ELSE request[r]]
    /\ UNCHANGED <<now, expires, issued, spent, madeFor>>

Tick ==
    /\ now < MaxNow
    /\ now' = now + 1
    /\ UNCHANGED <<expires, revoked, offered, request, restarts, history>>

SessionNext ==
    \/ \E t \in Tokens : Login(t)
    \/ \E r \in Requests, p \in Processes, t \in Tokens : Arrive(r, p, t)
    \/ \E r \in Requests : LookUp(r)
    \/ \E r \in Requests : Serve(r)
    \/ \E r \in Requests : LogOut(r)
    \/ \E r \in Requests : Revoke(r)
    \/ \E p \in Processes, s \in States : StartOAuth(p, s)
    \/ \E r \in Requests, p \in Processes, s \in States : Consume(r, p, s)
    \/ \E r \in Requests, t \in Tokens : FinishCallback(r, t)
    \/ \E r \in Requests : FailCallback(r)
    \/ \E p \in Processes : Restart(p)
    \/ Tick

SessionSpec == SessionInit /\ [][SessionNext]_sessionVars

-----------------------------------------------------------------------------
SessionTypeOK ==
    /\ now \in Nat
    /\ expires \in [Tokens -> Nat]
    /\ revoked \in [Processes -> [Tokens -> Nat]]
    /\ offered \in [Processes -> [States -> Nat]]
    /\ \A p \in Processes, s \in States : offered[p][s] \in {Never, issued[s].until}
    /\ request \in [Requests -> {Idle} \cup Checks \cup Callbacks]
    /\ restarts \in 0 .. MaxRestarts
    /\ told \in [Processes -> SUBSET Tokens]
    /\ issued \in [States -> [by : Processes \cup {"nobody"}, until : Nat]]
    /\ spent \subseteq States
    /\ madeFor \in [Tokens -> SUBSET States]

\* A process that has answered a logout refuses the token in every request it
\* checks from then on, until it restarts; only a request that read the clock
\* before the token expired, and the map after, may still slip through, when
\* another logout has cleaned the map in between.
RevokedRefused ==
    \A r \in Requests :
        request[r].at = "accepted" /\ request[r].late =>
            request[r].clock >= expires[request[r].token]

\* An OAuth state serves one callback: a second one, concurrent or later, one
\* that reaches another process, or one after its ten minutes finds nothing,
\* whether the first one ended in a session or failed.
StateOnce ==
    \A s \in States :
        LET callbacks == {r \in Requests : request[r].at = "callback" /\ request[r].state = s}
            made == {t \in Tokens : s \in madeFor[t]}
        IN  /\ Cardinality(callbacks) + Cardinality(made) <= 1
            /\ \A r \in callbacks :
                  request[r].process = issued[s].by /\ request[r].clock < issued[s].until
            /\ s \in spent => \A p \in Processes : offered[p][s] = Never

-----------------------------------------------------------------------------
(* The parts that make the two properties above inductive.                 *)

\* A process keeps what it answered in its map until the token has expired.
Remembered ==
    \A p \in Processes : \A t \in told[p] :
        /\ expires[t] # Never
        /\ revoked[p][t] = expires[t] \/ expires[t] <= now

\* A check under way found its token not expired, and knows of each logout
\* its process answered before.
ChecksBegun ==
    \A r \in Requests :
        LET q == request[r]
        IN  /\ q.at = "look" => /\ q.clock < expires[q.token]
                                /\ q.late => q.token \in told[q.process]
            /\ q.at = "accepted" => expires[q.token] # Never

\* A state is offered by the process that made it until it is consumed.
OffersKept ==
    /\ \A p \in Processes, s \in States :
          offered[p][s] # Never => p = issued[s].by /\ s \notin spent
    /\ \A s \in spent : issued[s] # NotIssued

\* What a state was consumed for, a callback or a token, is the only such.
SpentOnce ==
    /\ \A r \in Requests : request[r].at = "callback" =>
          /\ request[r].state \in spent
          /\ request[r].process = issued[request[r].state].by
          /\ request[r].clock < issued[request[r].state].until
          /\ \A o \in Requests :
                request[o].at = "callback" /\ request[o].state = request[r].state => o = r
          /\ \A t \in Tokens : request[r].state \notin madeFor[t]
    /\ \A t \in Tokens : madeFor[t] \subseteq spent
    /\ \A t, o \in Tokens : \A s \in madeFor[t] : s \in madeFor[o] => o = t

SessionInv ==
    /\ SessionTypeOK
    /\ Remembered
    /\ ChecksBegun
    /\ RevokedRefused
    /\ OffersKept
    /\ SpentOnce
=============================================================================
