---------------------------- MODULE RateLimiter ----------------------------
(***************************************************************************)
(* The rate limiter (internal/middleware/ratelimit.go over AllowRequest of *)
(* internal/platform/cache): one counter in Redis for each source address, *)
(* incremented and given a new lifetime by every request.  The limiter     *)
(* runs before the authentication, so that no request has a user yet.      *)
(*                                                                         *)
(* Time is counted in ticks; a lifetime and the history of what was let    *)
(* through are ages, so that no clock grows.                               *)
(***************************************************************************)
EXTENDS Integers, Functions

CONSTANTS
    Sources,    \* the addresses requests come from
    Limit,      \* RATE_LIMIT_REQUESTS
    Window,     \* RATE_LIMIT_WINDOW_SEC, in ticks
    MaxCount    \* no request is counted beyond this: a client that goes on
                \* although it is refused raises the counter without end

Ages == 0 .. Window - 1

ASSUME WindowAssumption ==
    Limit \in Nat /\ Window \in Nat \ {0} /\ MaxCount \in Nat /\ MaxCount > Limit

VARIABLES
    count,      \* the counter under "rl:ip:"+address, 0 when there is none
    ttl,        \* the ticks it has left to live
    admitted,   \* how many requests were let through at each age, Redis answering
    quiet       \* ticks since the last request of the address, Window for longer

limiterVars == <<count, ttl, admitted, quiet>>

LimiterInit ==
    /\ count = [c \in Sources |-> 0]
    /\ ttl = [c \in Sources |-> 0]
    /\ admitted = [c \in Sources |-> [i \in Ages |-> 0]]
    /\ quiet = [c \in Sources |-> Window]

\* Slips: the lifetime is given to a new counter only; the lifetime is a tick longer.
CountInFixedWindow(c) ==
    /\ count[c] < MaxCount
    /\ count' = [count EXCEPT ![c] = @ + 1]
    /\ ttl' = [ttl EXCEPT ![c] = IF count[c] = 0 THEN Window ELSE @]
    /\ quiet' = [quiet EXCEPT ![c] = 0]

CountLonger(c) ==
    /\ count[c] < MaxCount
    /\ count' = [count EXCEPT ![c] = @ + 1]
    /\ ttl' = [ttl EXCEPT ![c] = Window + 1]
    /\ quiet' = [quiet EXCEPT ![c] = 0]

\* INCR and EXPIRE, one pipeline.
CountRequest(c) ==
    /\ count[c] < MaxCount
    /\ count' = [count EXCEPT ![c] = @ + 1]
    /\ ttl' = [ttl EXCEPT ![c] = Window]
    /\ quiet' = [quiet EXCEPT ![c] = 0]

\* A slip: the limit is compared with the counter before it was raised.
AllowOneMore(c) ==
    /\ CountRequest(c)
    /\ count[c] <= Limit
    /\ admitted' = [admitted EXCEPT ![c][0] = @ + 1]

\* The request is within the limit and goes on.
Allow(c) ==
    /\ CountRequest(c)
    /\ count'[c] <= Limit
    /\ admitted' = [admitted EXCEPT ![c][0] = @ + 1]

\* 429: the refused request has been counted, and has renewed the lifetime.
Refuse(c) ==
    /\ CountRequest(c)
    /\ count'[c] > Limit
    /\ UNCHANGED admitted

\* Redis gives an error, after it has counted the request or before: the request goes on.
AllowUnanswered(c) == CountRequest(c) /\ UNCHANGED admitted

AllowUncounted(c) ==
    /\ quiet' = [quiet EXCEPT ![c] = 0]
    /\ UNCHANGED <<count, ttl, admitted>>

\* A counter whose lifetime is over is gone.
Tick ==
    /\ ttl' = [c \in Sources |-> IF ttl[c] > 0 THEN ttl[c] - 1 ELSE 0]
    /\ count' = [c \in Sources |-> IF ttl'[c] = 0 THEN 0 ELSE count[c]]
    /\ admitted' = [c \in Sources |->
                        [i \in Ages |-> IF i = 0 THEN 0 ELSE admitted[c][i - 1]]]
    /\ quiet' = [c \in Sources |-> IF quiet[c] < Window THEN quiet[c] + 1 ELSE Window]

----------------------------------------------------------------------------
LimiterTypeOK ==
    /\ count \in [Sources -> 0 .. MaxCount]
    /\ ttl \in [Sources -> 0 .. Window]
    /\ admitted \in [Sources -> [Ages -> Nat]]
    /\ quiet \in [Sources -> 0 .. Window]

\* No more than Limit requests of an address are let through in any stretch of Window
\* ticks, wherever it begins (redis.go:76 "implements a sliding-window rate limiter").
SlidingWindow ==
    \A c \in Sources : SumFunctionOnSet(admitted[c], Ages) <= Limit

\* A client is refused only if somebody used its address less than Window ticks before:
\* waiting for the time in Retry-After is enough (ratelimit.go:38).
WaitingIsEnough == [][\A c \in Sources : Refuse(c) => quiet[c] < Window]_limiterVars
============================================================================
