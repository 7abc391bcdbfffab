--------------------------- MODULE AgentRegistry ---------------------------
(***************************************************************************)
(* The agents table of acb-go: registration and heartbeats                 *)
(* (internal/api/agent_handler.go over internal/db/agent_repo.go), the     *)
(* authentication of agents by the token in their row (auth.go,            *)
(* token_hash.go), and the rate limiter in front of both (limiter.go).     *)
(*                                                                         *)
(* Abstractions.  Time is a number of ticks since something happened,      *)
(* which saturates where no comparison can tell more.  A stored token is   *)
(* the one its agent presents, or the hash of the empty string; hashes are *)
(* correct and tokens of different agents differ.  The module has no Next  *)
(* of its own: Watchdog composes its actions with the sweep.               *)
(***************************************************************************)
EXTENDS Integers

CONSTANTS
    Agents,      \* names in the agents table
    Admin,       \* the caller that holds the admin token
    Register,    \* the limiter's key for registrations
    Steady,      \* agents that send heartbeats for as long as they live
    BeatEvery,   \* at least one heartbeat per BeatEvery ticks from those
    Window,      \* ticks after which the limiter grants a key again (6 s)
    StaleLimit   \* ticks without heartbeat after which an agent is stale

ASSUME CallersDiffer == Admin \notin Agents /\ Register \notin Agents
ASSUME SteadyType == Steady \subseteq Agents
ASSUME PeriodsType == BeatEvery \in Nat \ {0} /\ Window \in Nat \ {0} /\ StaleLimit \in Nat
\* The period of the heartbeats and one refusal by the limiter fit into the limit.
ASSUME BeatsInTime == BeatEvery + Window <= StaleLimit + 1

VARIABLES
    token,   \* token[a]: what the row of a authenticates
    beat,    \* beat[a]: age of a's last_heartbeat
    grant,   \* grant[k]: ticks since the limiter granted key k, up to Window
    sent     \* sent[a]: ticks since a in Steady last sent a heartbeat (history)

regVars == <<token, beat, grant, sent>>

Keys == Agents \cup {Register}

\* No row; the hash of the token that the agent presents; the hash of "".
TokenHash == {"none", "own", "empty"}

\* An age that was never set (SQL NULL); ages above the limit look alike.
Never == -1
Ages(limit) == {Never} \cup 0..(limit + 1)

Older(age, limit) == IF age = Never \/ age = limit + 1 THEN age ELSE age + 1

RegInit ==
    /\ token = [a \in Agents |-> IF a \in Steady THEN "own" ELSE "none"]
    /\ beat = [a \in Agents |-> IF a \in Steady THEN 0 ELSE Never]
    /\ grant = [k \in Keys |-> Window]
    /\ sent = [a \in Steady |-> 0]

-----------------------------------------------------------------------------
(* Authentication and rate limiter *)

Registered(a) == token[a] # "none"

\* GetByToken: a row whose prefix and hash match the token the caller presents;
\* tokens shorter than 8 characters, the empty one among them, match nothing.
Authenticated(c) == c = Admin \/ (c \in Agents /\ token[c] = "own")

\* RateLimiter.Allow with burst 1: at most one call of a key per Window.
Allowed(k) == grant[k] = Window
Allow(k) == grant' = [grant EXCEPT ![k] = 0]

-----------------------------------------------------------------------------
(* Handlers *)

\* INSERT ... ON CONFLICT DO UPDATE, with the heartbeat the handler leaves nil.
UpsertAgent(a, hash) ==
    /\ token' = [token EXCEPT ![a] = hash]
    /\ beat' = [beat EXCEPT ![a] = Never]

\* RegisterAgent, by the agent itself or the administrator.  A request that names
\* no token falls back on a header that AuthMiddleware does not set: "" is hashed.
RegisterAgent(c, a) ==
    /\ Authenticated(c)
    /\ Allowed(Register) /\ Allow(Register)
    /\ c \in {Admin, a}
    /\ \E hash \in {"own", "empty"} : UpsertAgent(a, hash)
    /\ UNCHANGED sent

\* RegisterAgent that fails a check or whose statement fails: the limiter has counted it.
RegisterRefused(c) ==
    /\ Authenticated(c)
    /\ Allowed(Register) /\ Allow(Register)
    /\ UNCHANGED <<token, beat, sent>>

\* Fault: only a heartbeat that was never set is set.
UpdateHeartbeatOnce(a) ==
    beat' = IF Registered(a) /\ beat[a] = Never THEN [beat EXCEPT ![a] = 0] ELSE beat

\* UPDATE agents SET last_heartbeat: a name without row is answered with 404.
UpdateHeartbeat(a) ==
    beat' = IF Registered(a) THEN [beat EXCEPT ![a] = 0] ELSE beat

\* Heartbeat of caller c in the name of agent a, which need not be the caller.  A
\* call the limiter refuses is answered with 429; the agent has done its duty.
Heartbeat(c, a) ==
    /\ Authenticated(c)
    /\ sent' = IF c = a /\ a \in Steady THEN [sent EXCEPT ![a] = 0] ELSE sent
    /\ IF Allowed(a) THEN Allow(a) /\ UpdateHeartbeat(a)
                     ELSE UNCHANGED <<grant, beat>>
    /\ UNCHANGED token

\* The UPDATE fails after the limiter has counted the call.
HeartbeatFails(c, a) ==
    /\ Authenticated(c)
    /\ Allowed(a) /\ Allow(a)
    /\ UNCHANGED <<token, beat, sent>>

-----------------------------------------------------------------------------
(* Time, and the limiter's memory *)

\* The agents in Steady send their next heartbeat before they owe one.
BeatsAreSent == \A a \in Steady : sent[a] < BeatEvery

RegTick ==
    /\ BeatsAreSent
    /\ beat' = [a \in Agents |-> Older(beat[a], StaleLimit)]
    /\ grant' = [k \in Keys |-> IF grant[k] = Window THEN Window ELSE grant[k] + 1]
    /\ sent' = [a \in Steady |-> IF sent[a] = BeatEvery THEN BeatEvery ELSE sent[a] + 1]
    /\ UNCHANGED token

\* The limiter lives in the process, the table does not.
RegRestart ==
    /\ grant' = [k \in Keys |-> Window]
    /\ UNCHANGED <<token, beat, sent>>

\* What callers may do.  The heartbeats of an agent in Steady reach the table, and
\* it is not registered again.
RegStep ==
    \E c \in Agents \cup {Admin} :
        \/ RegisterRefused(c)
        \/ \E a \in Agents : Heartbeat(c, a)
        \/ \E a \in Agents \ Steady : RegisterAgent(c, a) \/ HeartbeatFails(c, a)

\* Fault: an agent is stale as soon as its heartbeat has reached the limit.
ListStaleEarly == {a \in Agents : Registered(a) /\ (beat[a] = Never \/ beat[a] >= StaleLimit)}

ListStale == {a \in Agents : Registered(a) /\ (beat[a] = Never \/ beat[a] > StaleLimit)}

-----------------------------------------------------------------------------
(* Correctness *)

RegTypeOK ==
    /\ token \in [Agents -> TokenHash]
    /\ beat \in [Agents -> Ages(StaleLimit)]
    /\ grant \in [Keys -> 0..Window]
    /\ sent \in [Steady -> 0..BeatEvery]

\* What the limiter has to do with the table: while it refuses an agent's
\* heartbeats the row is as fresh as the last one it granted, so a refusal never
\* makes a live agent older than one period and one window.
RefusedIsFresh ==
    \A a \in Steady :
        /\ token[a] = "own"
        /\ beat[a] # Never
        /\ grant[a] < Window => beat[a] = grant[a]
        /\ beat[a] < sent[a] + Window

\* An agent that keeps sending heartbeats is never taken for stale, although the
\* limiter refuses some of them and other callers may use up its grants.
LiveIsNotStale == ListStale \cap Steady = {}
=============================================================================
