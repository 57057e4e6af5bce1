---------------------------- MODULE RateLimiter ----------------------------
(***************************************************************************)
(* InMemoryRateLimiter.allow, called by the threads of ThreadingHTTPServer *)
(* before they serve a request: one deque of times per caller, no lock.    *)
(*                                                                         *)
(* A step is a reading of the deque or a change of it; between any two     *)
(* another thread may come.                                                *)
(***************************************************************************)
EXTENDS Integers, Sequences, FiniteSets

CONSTANTS
  Threads,        \* threads that serve a request
  Callers,        \* client addresses
  NoCaller,       \* an idle thread serves nobody
  Limit,          \* RATE_LIMIT_COUNT
  WindowSeconds,  \* RATE_LIMIT_WINDOW_SECONDS
  MaxTime         \* bound: the horizon of the clock

ASSUME LimiterAssumption ==
  /\ Limit \in Nat \ {0} /\ WindowSeconds \in Nat \ {0} /\ MaxTime \in Nat
  /\ NoCaller \notin Callers /\ IsFiniteSet(Threads)

VARIABLES
  clock,       \* time.time()
  bucket,      \* _requests: the times of the requests that were let in
  handler,     \* the request each thread is in
  admitted,    \* history: the times of all requests let in, in their order
  overlapped   \* history: callers who had two requests in allow at once

limiterVars == <<clock, bucket, handler, admitted, overlapped>>

Idle == [pc |-> "idle", ip |-> NoCaller, now |-> 0]

LimiterInit ==
  /\ clock = 1
  /\ bucket = [c \in Callers |-> <<>>]
  /\ handler = [t \in Threads |-> Idle]
  /\ admitted = [c \in Callers |-> <<>>]
  /\ overlapped = {}

-----------------------------------------------------------------------------
At(t, pc) == handler[t].pc = pc

\* The thread is between the first and the last statement of allow.
InAllow(t) == handler[t].pc \in {"trim", "pop", "count", "append"}

Bucket(t) == bucket[handler[t].ip]

\* A fault: the bound of the window belongs to it.
ExpiredLater(t, time) == time < handler[t].now - WindowSeconds

\* Before window_start, or at it.
Expired(t, time) == time <= handler[t].now - WindowSeconds

Goto(t, pc) == handler' = [handler EXCEPT ![t].pc = pc]
End(t) == handler' = [handler EXCEPT ![t] = Idle]

Tick == /\ clock < MaxTime
        /\ clock' = clock + 1
        /\ UNCHANGED <<bucket, handler, admitted, overlapped>>

\* A request arrives; allow reads the clock.
Arrive(t, c) ==
  /\ At(t, "idle")
  /\ handler' = [handler EXCEPT ![t] = [pc |-> "trim", ip |-> c, now |-> clock]]
  /\ overlapped' = IF \E u \in Threads : InAllow(u) /\ handler[u].ip = c
                   THEN overlapped \cup {c} ELSE overlapped
  /\ UNCHANGED <<clock, bucket, admitted>>

\* while bucket and bucket[0] <= window_start
Trim(t) ==
  /\ At(t, "trim")
  /\ Goto(t, IF Bucket(t) # <<>> /\ Expired(t, Head(Bucket(t))) THEN "pop" ELSE "count")
  /\ UNCHANGED <<clock, bucket, admitted, overlapped>>

\* popleft takes what is first by now; of an empty deque it raises, and the
\* request ends without an answer.
Pop(t) ==
  /\ At(t, "pop")
  /\ IF Bucket(t) = <<>>
     THEN End(t) /\ UNCHANGED bucket
     ELSE Goto(t, "trim") /\ bucket' = [bucket EXCEPT ![handler[t].ip] = Tail(@)]
  /\ UNCHANGED <<clock, admitted, overlapped>>

\* A fault: one request more is let in.
FullOneLate(t) == Len(Bucket(t)) > Limit

\* len(bucket) >= limit
Full(t) == Len(Bucket(t)) >= Limit

Refuse(t) ==
  /\ At(t, "count") /\ Full(t)
  /\ End(t)
  /\ UNCHANGED <<clock, bucket, admitted, overlapped>>

Count(t) ==
  /\ At(t, "count") /\ ~Full(t)
  /\ Goto(t, "append")
  /\ UNCHANGED <<clock, bucket, admitted, overlapped>>

AppendNow(t) ==
  /\ At(t, "append")
  /\ bucket' = [bucket EXCEPT ![handler[t].ip] = Append(@, handler[t].now)]
  /\ admitted' = [admitted EXCEPT ![handler[t].ip] = Append(@, handler[t].now)]
  /\ Goto(t, "admitted")
  /\ UNCHANGED <<clock, overlapped>>

Allow(t) == Trim(t) \/ Pop(t) \/ Refuse(t) \/ Count(t) \/ AppendNow(t)

\* The request that was let in is served.
Served(t) == /\ At(t, "admitted")
             /\ End(t)
             /\ UNCHANGED <<clock, bucket, admitted, overlapped>>

LimiterNext ==
  Tick \/ \E t \in Threads : Allow(t) \/ Served(t) \/ \E c \in Callers : Arrive(t, c)

LimiterSpec == LimiterInit /\ [][LimiterNext]_limiterVars

-----------------------------------------------------------------------------
\* The type of the state.
LimiterTypeOK ==
  /\ clock \in Nat
  /\ bucket \in [Callers -> Seq(Nat)]
  /\ admitted \in [Callers -> Seq(Nat)]
  /\ handler \in [Threads -> [pc : {"idle", "trim", "pop", "count", "append", "admitted"},
                              ip : Callers \cup {NoCaller}, now : Nat]]
  /\ overlapped \in SUBSET Callers
  /\ \A t \in Threads : ~At(t, "idle") => handler[t].ip \in Callers

\* At most Limit requests in a window: the Limit-th request after one that was
\* let in is let in a window later at the earliest (rate_limit.py:13-22;
\* docs/rate-limiting-abuse-protection.md:17), whatever threads serve other
\* callers at the same time, as long as the caller's own requests do not overlap.
WindowLimit ==
  \A c \in Callers \ overlapped : \A i, j \in 1..Len(admitted[c]) :
    j = i + Limit => admitted[c][i] + WindowSeconds <= admitted[c][j]

\* Threads may pass the check of the length together, but each only once: the
\* deque never holds more than the limit and one request of each other thread,
\* those about to be appended included (rate_limit.py:19-21).
Appending(c) == {t \in Threads : At(t, "append") /\ handler[t].ip = c}
BurstIsBounded ==
  \A c \in Callers :
    Len(bucket[c]) + Cardinality(Appending(c)) <= Limit + Cardinality(Threads) - 1

\* A refusal is deserved (rate_limit.py:17-20): the last Limit requests of the
\* caller that were let in are all of the current window.
RefusalIsDeserved ==
  [][\A t \in Threads : Refuse(t) /\ handler[t].ip \notin overlapped =>
       LET past == admitted[handler[t].ip]
       IN /\ Len(past) >= Limit
          /\ past[Len(past) - Limit + 1] + WindowSeconds > handler[t].now]_limiterVars
=============================================================================
