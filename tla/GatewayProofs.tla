---------------------------- MODULE GatewayProofs ----------------------------
(***************************************************************************)
(* The properties of RateLimiter and Gateway, for every limit and window,  *)
(* every set of threads and callers, and every set of key ids.             *)
(***************************************************************************)
EXTENDS Gateway, FiniteSetTheorems, WellFoundedInduction, TLAPS

-----------------------------------------------------------------------------
(* The rate limiter.                                                       *)

HandlerStates ==
  [pc : {"idle", "trim", "pop", "count", "append", "admitted"},
   ip : Callers \cup {NoCaller}, now : Nat]

Dropped(c) == Len(admitted[c]) - Len(bucket[c])

\* What a thread knows in allow of a caller nobody else is in allow for: where it
\* is in the trimming, and that nothing was let in after its reading of the clock.
InAllowOK(c, t) ==
  /\ \A i \in 1..Len(admitted[c]) : admitted[c][i] <= handler[t].now
  /\ \A i \in 1..Dropped(c) : admitted[c][i] + WindowSeconds <= handler[t].now
  /\ At(t, "pop") => bucket[c] # <<>> /\ Expired(t, bucket[c][1])
  /\ At(t, "count") \/ At(t, "append") => bucket[c] = <<>> \/ ~Expired(t, bucket[c][1])
  /\ At(t, "append") => Len(bucket[c]) < Limit

\* The bucket of a caller whose requests have not overlapped holds the last of the
\* times let in, and what was dropped of them is out of the window.
BucketOK(c) ==
  /\ Len(bucket[c]) <= Len(admitted[c])
  /\ \A i \in 1..Len(bucket[c]) : bucket[c][i] = admitted[c][Dropped(c) + i]
  /\ \A i, j \in 1..Len(admitted[c]) : i <= j => admitted[c][i] <= admitted[c][j]
  /\ \A i \in 1..Len(admitted[c]) : admitted[c][i] <= clock
  /\ \A i \in 1..Dropped(c) : admitted[c][i] + WindowSeconds <= clock

AloneOK(c) == \A t, u \in Threads :
  InAllow(t) /\ InAllow(u) /\ handler[t].ip = c /\ handler[u].ip = c => t = u

SpacedOK(c) == \A i, j \in 1..Len(admitted[c]) :
  j = i + Limit => admitted[c][i] + WindowSeconds <= admitted[c][j]

CallerOK(c) ==
  /\ AloneOK(c) /\ BucketOK(c) /\ SpacedOK(c)
  /\ \A t \in Threads : InAllow(t) /\ handler[t].ip = c => InAllowOK(c, t)

LimiterInv ==
  /\ LimiterTypeOK
  /\ \A t \in Threads : handler[t].now <= clock
  /\ \A c \in Callers \ overlapped : CallerOK(c)

LEMMA LimiterInitInv == LimiterInit => LimiterInv
<1> SUFFICES ASSUME LimiterInit PROVE LimiterInv
  OBVIOUS
<1>1. Idle \in HandlerStates
  BY DEF Idle, HandlerStates
<1>2. handler \in [Threads -> HandlerStates]
  BY <1>1 DEF LimiterInit
<1>3. LimiterTypeOK
  BY <1>2 DEF LimiterInit, LimiterTypeOK, HandlerStates, At, Idle
<1>4. \A t \in Threads : handler[t] = Idle
  BY DEF LimiterInit
<1>5. ASSUME NEW c \in Callers PROVE CallerOK(c)
  <2>1. bucket[c] = <<>> /\ admitted[c] = <<>> /\ \A t \in Threads : ~InAllow(t)
    BY <1>4 DEF LimiterInit, InAllow, Idle
  <2> QED
    BY <2>1 DEF CallerOK, AloneOK, BucketOK, SpacedOK, Dropped
<1> QED
  BY <1>3, <1>4, <1>5 DEF LimiterInv, LimiterInit, Idle

\* Whatever concerns one caller leaves the others as they are.
LEMMA OtherCaller ==
  ASSUME LimiterInv, NEW c \in Callers \ overlapped, clock' = clock,
         bucket'[c] = bucket[c], admitted'[c] = admitted[c],
         \A t \in Threads : InAllow(t)' /\ handler'[t].ip = c
                              => handler'[t] = handler[t]
  PROVE  CallerOK(c)'
<1>1. CallerOK(c)
  BY DEF LimiterInv
<1>2. Dropped(c)' = Dropped(c)
  BY DEF Dropped
<1>3. BucketOK(c)' /\ SpacedOK(c)'
  BY <1>1, <1>2 DEF CallerOK, BucketOK, SpacedOK
<1>4. AloneOK(c)'
  BY <1>1 DEF CallerOK, AloneOK, InAllow
<1>5. ASSUME NEW t \in Threads, InAllow(t)', handler'[t].ip = c PROVE InAllowOK(c, t)'
  <2>1. handler'[t] = handler[t] /\ InAllow(t)
    BY <1>5 DEF InAllow
  <2>2. InAllowOK(c, t)
    BY <1>1, <1>5, <2>1 DEF CallerOK
  <2> QED
    BY <1>2, <2>1, <2>2 DEF InAllowOK, At, Expired
<1> QED
  BY <1>3, <1>4, <1>5 DEF CallerOK

LEMMA CurrentHandler ==
  ASSUME LimiterInv, NEW t \in Threads
  PROVE  /\ handler[t] \in HandlerStates
         /\ handler[t].now <= clock
         /\ ~At(t, "idle") => handler[t].ip \in Callers
  BY DEF LimiterInv, LimiterTypeOK, HandlerStates

\* The types, after a step of one thread.
LEMMA TypeStep ==
  ASSUME LimiterInv, NEW t \in Threads, NEW s \in HandlerStates,
         s.pc # "idle" => s.ip \in Callers, s.now <= clock, clock' = clock,
         handler' = [handler EXCEPT ![t] = s],
         bucket' \in [Callers -> Seq(Nat)], admitted' \in [Callers -> Seq(Nat)],
         overlapped' \in SUBSET Callers
  PROVE  /\ LimiterTypeOK'
         /\ \A u \in Threads : handler'[u] = IF u = t THEN s ELSE handler[u]
         /\ (\A u \in Threads : handler[u].now <= clock)'
<1>1. \A u \in Threads : handler'[u] = IF u = t THEN s ELSE handler[u]
  BY DEF LimiterInv, LimiterTypeOK
<1>2. handler' \in [Threads -> HandlerStates]
  BY DEF LimiterInv, LimiterTypeOK, HandlerStates
<1>3. LimiterTypeOK'
  BY <1>1, <1>2 DEF LimiterInv, LimiterTypeOK, HandlerStates, At
<1> QED
  BY <1>1, <1>3 DEF LimiterInv

\* A step that only moves a thread.
LEMMA HandlerStep ==
  ASSUME LimiterInv, NEW t \in Threads, NEW s \in HandlerStates,
         UNCHANGED <<clock, bucket, admitted, overlapped>>,
         handler' = [handler EXCEPT ![t] = s],
         s.pc # "idle" => s.ip \in Callers, s.now <= clock,
         s.pc \in {"trim", "pop", "count", "append"}
           => InAllow(t) /\ s.ip = handler[t].ip /\ s.now = handler[t].now,
         \A c \in Callers \ overlapped :
           s.ip = c /\ s.pc \in {"trim", "pop", "count", "append"} => InAllowOK(c, t)'
  PROVE  LimiterInv'
<1>1. /\ LimiterTypeOK'
      /\ \A u \in Threads : handler'[u] = IF u = t THEN s ELSE handler[u]
      /\ (\A u \in Threads : handler[u].now <= clock)'
  BY TypeStep DEF LimiterInv, LimiterTypeOK
<1>2. ASSUME NEW c \in Callers \ overlapped PROVE CallerOK(c)'
  <2>1. CallerOK(c)
    BY DEF LimiterInv
  <2>2. BucketOK(c)' /\ SpacedOK(c)'
    BY <2>1 DEF CallerOK, BucketOK, SpacedOK, Dropped
  <2>3. AloneOK(c)'
    BY <2>1, <1>1 DEF CallerOK, AloneOK, InAllow
  <2>4. ASSUME NEW u \in Threads, InAllow(u)', handler'[u].ip = c PROVE InAllowOK(c, u)'
    <3>1. CASE u = t
      BY <3>1, <2>4, <1>1 DEF InAllow
    <3>2. CASE u # t
      <4>1. handler'[u] = handler[u] /\ InAllow(u)
        BY <3>2, <2>4, <1>1 DEF InAllow
      <4>2. InAllowOK(c, u)
        BY <4>1, <2>1, <2>4 DEF CallerOK
      <4> QED
        BY <4>1, <4>2 DEF InAllowOK, Dropped, At, Expired
    <3> QED
      BY <3>1, <3>2
  <2> QED
    BY <2>2, <2>3, <2>4 DEF CallerOK
<1> QED
  BY <1>1, <1>2 DEF LimiterInv

LEMMA EndKeeps ==
  ASSUME LimiterInv, NEW t \in Threads, End(t),
         UNCHANGED <<clock, bucket, admitted, overlapped>>
  PROVE  LimiterInv'
<1>1. Idle \in HandlerStates /\ Idle.pc = "idle" /\ Idle.now = 0
  BY DEF Idle, HandlerStates
<1>2. 0 <= clock
  BY DEF LimiterInv, LimiterTypeOK
<1> QED
  BY <1>1, <1>2, HandlerStep DEF End

\* A step inside allow: it is enough to look at the place it leads to.
LEMMA MoveKeeps ==
  ASSUME LimiterInv, NEW t \in Threads, NEW pc \in {"pop", "count", "append"},
         InAllow(t), Goto(t, pc),
         UNCHANGED <<clock, bucket, admitted, overlapped>>,
         pc = "pop" => Bucket(t) # <<>> /\ Expired(t, Head(Bucket(t))),
         pc = "count" => Bucket(t) = <<>> \/ ~Expired(t, Head(Bucket(t))),
         pc = "append" => At(t, "count") /\ ~Full(t)
  PROVE  LimiterInv'
<1> DEFINE s == [handler[t] EXCEPT !.pc = pc]
<1>1. /\ handler[t] \in HandlerStates /\ handler[t].now <= clock
      /\ handler[t].ip \in Callers
  BY CurrentHandler DEF InAllow, At
<1>2. s \in HandlerStates /\ s.pc = pc /\ s.ip = handler[t].ip /\ s.now = handler[t].now
  BY <1>1 DEF HandlerStates
<1>3. handler' = [handler EXCEPT ![t] = s]
  BY DEF Goto
<1>4. handler'[t] = s
  BY <1>3 DEF LimiterInv, LimiterTypeOK
<1> HIDE DEF s
<1>5. ASSUME NEW c \in Callers \ overlapped, s.ip = c PROVE InAllowOK(c, t)'
  <2>1. InAllowOK(c, t)
    BY <1>2, <1>5 DEF LimiterInv, CallerOK
  <2>2. bucket[c] \in Seq(Nat) /\ Bucket(t) = bucket[c] /\ Limit \in Nat
    BY <1>2, <1>5, LimiterAssumption DEF LimiterInv, LimiterTypeOK, Bucket
  <2>3. bucket[c] # <<>> => Head(Bucket(t)) = bucket[c][1]
    BY <2>2
  <2>4. /\ \A i \in 1..Len(admitted[c]) : admitted[c][i] <= handler'[t].now
        /\ \A i \in 1..Dropped(c) : admitted[c][i] + WindowSeconds <= handler'[t].now
    BY <2>1, <1>2, <1>4 DEF InAllowOK
  <2>5. (At(t, "pop") => bucket[c] # <<>> /\ Expired(t, bucket[c][1]))'
    BY <2>2, <2>3, <1>2, <1>4 DEF At, Expired
  <2>6. (At(t, "count") \/ At(t, "append") => bucket[c] = <<>> \/ ~Expired(t, bucket[c][1]))'
    BY <2>1, <2>2, <2>3, <1>2, <1>4 DEF At, Expired, InAllowOK
  <2>7. (At(t, "append") => Len(bucket[c]) < Limit)'
    BY <2>2, <1>2, <1>4 DEF At, Full
  <2> QED
    BY <2>4, <2>5, <2>6, <2>7 DEF InAllowOK, Dropped
<1> QED
  BY <1>1, <1>2, <1>3, <1>5, HandlerStep

LEMMA DroppedType ==
  ASSUME NEW c, bucket[c] \in Seq(Nat), admitted[c] \in Seq(Nat)
  PROVE  Dropped(c) \in Int /\ Dropped(c) <= Len(admitted[c])
<1> DEFINE b == Len(bucket[c])
           n == Len(admitted[c])
<1>1. b \in Nat /\ n \in Nat
  OBVIOUS
<1>2. Dropped(c) = n - b
  BY DEF Dropped
<1> HIDE DEF b, n
<1>3. n - b \in Int /\ n - b <= n
  BY <1>1
<1> QED
  BY <1>2, <1>3 DEF n

LEMMA TickKeeps ==
  ASSUME LimiterInv, Tick
  PROVE  LimiterInv'
<1>1. LimiterTypeOK' /\ (\A u \in Threads : handler[u].now <= clock)'
  <2>1. \A u \in Threads : handler[u].now \in Nat
    BY CurrentHandler DEF HandlerStates
  <2> QED
    BY <2>1 DEF LimiterInv, LimiterTypeOK, Tick, At
<1>2. ASSUME NEW c \in Callers \ overlapped PROVE CallerOK(c)'
  <2>1. CallerOK(c) /\ clock \in Nat /\ admitted[c] \in Seq(Nat) /\ bucket[c] \in Seq(Nat)
    BY DEF LimiterInv, LimiterTypeOK
  <2>2. AloneOK(c)' /\ SpacedOK(c)'
    BY <2>1 DEF CallerOK, AloneOK, SpacedOK, InAllow, Tick
  <2>3. BucketOK(c)'
    <3>1. clock' = clock + 1 /\ UNCHANGED <<bucket, admitted>> /\ Dropped(c)' = Dropped(c)
      BY DEF Tick, Dropped
    <3>2. BucketOK(c)
      BY <2>1 DEF CallerOK
    <3>3. Dropped(c) \in Int /\ WindowSeconds \in Nat
      BY <2>1, LimiterAssumption, DroppedType
    <3>4. Dropped(c) <= Len(admitted[c])
      BY <2>1, DroppedType
    <3>5. \A i \in 1..Len(admitted[c]) : admitted[c][i] <= clock + 1
      BY <3>2, <2>1 DEF BucketOK
    <3>6. \A i \in 1..Dropped(c) : admitted[c][i] + WindowSeconds <= clock + 1
      <4> SUFFICES ASSUME NEW i \in 1..Dropped(c)
                   PROVE  admitted[c][i] + WindowSeconds <= clock + 1
        OBVIOUS
      <4>1. i \in 1..Len(admitted[c])
        BY <2>1, <3>3, <3>4
      <4>2. admitted[c][i] \in Nat /\ admitted[c][i] + WindowSeconds <= clock
        BY <2>1, <3>2, <4>1 DEF BucketOK
      <4> QED
        BY <4>2, <3>3, <2>1
    <3> QED
      BY <3>1, <3>2, <3>5, <3>6 DEF BucketOK
  <2>4. ASSUME NEW u \in Threads, InAllow(u)', handler'[u].ip = c PROVE InAllowOK(c, u)'
    <3>1. InAllowOK(c, u)
      BY <2>1, <2>4 DEF CallerOK, Tick, InAllow
    <3> QED
      BY <3>1 DEF InAllowOK, Dropped, At, Expired, Tick
  <2> QED
    BY <2>2, <2>3, <2>4 DEF CallerOK
<1> QED
  BY <1>1, <1>2 DEF LimiterInv, Tick

LEMMA ArriveKeeps ==
  ASSUME LimiterInv, NEW t \in Threads, NEW d \in Callers, Arrive(t, d)
  PROVE  LimiterInv'
<1> DEFINE s == [pc |-> "trim", ip |-> d, now |-> clock]
<1>1. clock \in Nat /\ s \in HandlerStates /\ clock <= clock
  BY DEF LimiterInv, LimiterTypeOK, HandlerStates
<1>2. handler' = [handler EXCEPT ![t] = s] /\ UNCHANGED <<clock, bucket, admitted>>
      /\ overlapped \subseteq overlapped' /\ overlapped' \in SUBSET Callers
  BY DEF Arrive, LimiterInv, LimiterTypeOK
<1>3. /\ LimiterTypeOK'
      /\ \A u \in Threads : handler'[u] = IF u = t THEN s ELSE handler[u]
      /\ (\A u \in Threads : handler[u].now <= clock)'
  <2>1. s.pc = "trim" /\ s.ip = d /\ s.now = clock
    OBVIOUS
  <2> HIDE DEF s
  <2> QED
    BY <1>1, <1>2, <2>1, TypeStep DEF LimiterInv, LimiterTypeOK
<1>4. ASSUME NEW c \in Callers \ overlapped' PROVE CallerOK(c)'
  <2>1. CallerOK(c) /\ c \notin overlapped
    BY <1>2, <1>4 DEF LimiterInv
  <2>2. BucketOK(c)' /\ SpacedOK(c)'
    BY <2>1, <1>2 DEF CallerOK, BucketOK, SpacedOK, Dropped
  <2>3. c = d => \A u \in Threads : InAllow(u) => handler[u].ip # c
    BY <2>1, <1>4 DEF Arrive
  <2>4. AloneOK(c)'
    BY <2>1, <2>3, <1>3 DEF CallerOK, AloneOK, InAllow
  <2>5. ASSUME NEW u \in Threads, InAllow(u)', handler'[u].ip = c PROVE InAllowOK(c, u)'
    <3>1. CASE u = t
      BY <3>1, <2>1, <2>5, <1>2, <1>3 DEF CallerOK, BucketOK, InAllowOK, Dropped, At
    <3>2. CASE u # t
      <4>1. handler'[u] = handler[u] /\ InAllow(u)
        BY <3>2, <2>5, <1>3 DEF InAllow
      <4>2. InAllowOK(c, u)
        BY <4>1, <2>1, <2>5 DEF CallerOK
      <4> QED
        BY <4>1, <4>2, <1>2 DEF InAllowOK, Dropped, At, Expired
    <3> QED
      BY <3>1, <3>2
  <2> QED
    BY <2>2, <2>4, <2>5 DEF CallerOK
<1> QED
  BY <1>3, <1>4 DEF LimiterInv

\* The first of a suffix is dropped, and it was out of the window.
LEMMA DropFirst ==
  ASSUME NEW a \in Seq(Nat), NEW b \in Seq(Nat), b # <<>>, Len(b) <= Len(a),
         \A i \in 1..Len(b) : b[i] = a[Len(a) - Len(b) + i],
         NEW w \in Nat, NEW time \in Nat, b[1] + w <= time,
         \A i \in 1..(Len(a) - Len(b)) : a[i] + w <= time
  PROVE  /\ Tail(b) \in Seq(Nat) /\ Len(Tail(b)) <= Len(a)
         /\ \A i \in 1..Len(Tail(b)) : Tail(b)[i] = a[Len(a) - Len(Tail(b)) + i]
         /\ \A i \in 1..(Len(a) - Len(Tail(b))) : a[i] + w <= time
<1>1. Tail(b) \in Seq(Nat) /\ Len(Tail(b)) = Len(b) - 1 /\ Len(b) \in Nat /\ Len(b) >= 1
      /\ Len(a) \in Nat
  OBVIOUS
<1>2. \A i \in 1..Len(Tail(b)) : Tail(b)[i] = b[i + 1]
  OBVIOUS
<1>3. \A i \in 1..Len(Tail(b)) : Tail(b)[i] = a[Len(a) - Len(Tail(b)) + i]
  <2> SUFFICES ASSUME NEW i \in 1..Len(Tail(b))
               PROVE  Tail(b)[i] = a[Len(a) - Len(Tail(b)) + i]
    OBVIOUS
  <2>1. i + 1 \in 1..Len(b) /\ Len(a) - Len(Tail(b)) + i = Len(a) - Len(b) + (i + 1)
    BY <1>1
  <2> QED
    BY <2>1, <1>2
<1>4. \A i \in 1..(Len(a) - Len(Tail(b))) : a[i] + w <= time
  <2> SUFFICES ASSUME NEW i \in 1..(Len(a) - Len(Tail(b)))
               PROVE  a[i] + w <= time
    OBVIOUS
  <2>1. i \in 1..(Len(a) - Len(b)) \/ (i = Len(a) - Len(b) + 1 /\ 1 \in 1..Len(b))
    <3> DEFINE m == Len(a)
               n == Len(b)
    <3>1. i \in 1..(m - (n - 1)) /\ m \in Nat /\ n \in Nat /\ n >= 1
      BY <1>1
    <3> HIDE DEF m, n
    <3>2. i \in 1..(m - n) \/ (i = m - n + 1 /\ 1 \in 1..n)
      BY <3>1
    <3> QED
      BY <3>2 DEF m, n
  <2>2. 1 \in 1..Len(b) => b[1] = a[Len(a) - Len(b) + 1]
    OBVIOUS
  <2> QED
    BY <2>1, <2>2
<1> QED
  BY <1>1, <1>3, <1>4

LEMMA AtMostLater ==
  ASSUME NEW x \in Nat, NEW y \in Nat, NEW z \in Nat, NEW w \in Nat, x + w <= y, y <= z
  PROVE  x + w <= z
OBVIOUS

LEMMA PopKeeps ==
  ASSUME LimiterInv, NEW t \in Threads, Pop(t)
  PROVE  LimiterInv'
<1> DEFINE s == [handler[t] EXCEPT !.pc = "trim"]
<1>. PICK d \in Callers : d = handler[t].ip
  BY CurrentHandler DEF Pop, At
<1>1. CASE Bucket(t) = <<>>
  BY <1>1, EndKeeps DEF Pop
<1>2. CASE Bucket(t) # <<>>
  <2>1. /\ handler[t] \in HandlerStates /\ handler[t].now <= clock /\ d \in Callers
        /\ handler[t].pc = "pop"
    BY CurrentHandler DEF Pop, At
  <2>2. s \in HandlerStates /\ s.pc = "trim" /\ s.ip = d /\ s.now = handler[t].now
    BY <2>1 DEF HandlerStates
  <2>3. handler' = [handler EXCEPT ![t] = s] /\ UNCHANGED <<clock, admitted, overlapped>>
        /\ bucket' = [bucket EXCEPT ![d] = Tail(@)]
    BY <1>2 DEF Pop, Goto
  <2> HIDE DEF s
  <2>4. /\ bucket[d] \in Seq(Nat) /\ admitted[d] \in Seq(Nat) /\ bucket[d] # <<>>
        /\ bucket'[d] = Tail(bucket[d]) /\ clock \in Nat
    BY <1>2, <2>1, <2>3 DEF LimiterInv, LimiterTypeOK, Bucket
  <2>5. /\ LimiterTypeOK'
        /\ \A u \in Threads : handler'[u] = IF u = t THEN s ELSE handler[u]
        /\ (\A u \in Threads : handler[u].now <= clock)'
    <3>1. bucket' \in [Callers -> Seq(Nat)]
      <4>1. Tail(bucket[d]) \in Seq(Nat)
        BY <2>4
      <4> QED
        BY <4>1, <2>3 DEF LimiterInv, LimiterTypeOK
    <3> QED
      BY <3>1, <2>1, <2>2, <2>3, TypeStep DEF LimiterInv, LimiterTypeOK
  <2>6. ASSUME NEW c \in Callers \ overlapped, c # d PROVE CallerOK(c)'
    <3>1. bucket'[c] = bucket[c] /\ admitted'[c] = admitted[c]
      BY <2>3, <2>6 DEF LimiterInv, LimiterTypeOK
    <3>2. \A u \in Threads : InAllow(u)' /\ handler'[u].ip = c => handler'[u] = handler[u]
      BY <2>2, <2>5, <2>6
    <3> QED
      BY <3>1, <3>2, <2>3, OtherCaller
  <2>7. ASSUME d \notin overlapped PROVE CallerOK(d)'
    <3>1. CallerOK(d) /\ InAllowOK(d, t) /\ BucketOK(d)
      BY <2>1, <2>7 DEF LimiterInv, CallerOK, InAllow
    <3>2. bucket[d][1] \in Nat /\ handler[t].now \in Nat /\ WindowSeconds \in Nat
      <4>1. Len(bucket[d]) >= 1
        BY <2>4
      <4> QED
        BY <4>1, <2>1, <2>4, LimiterAssumption DEF HandlerStates
    <3>3. bucket[d][1] + WindowSeconds <= handler[t].now
      BY <3>1, <3>2, <2>1 DEF InAllowOK, At, Expired
    <3>4. /\ Len(bucket'[d]) <= Len(admitted[d])
          /\ \A i \in 1..Len(bucket'[d]) :
                bucket'[d][i] = admitted[d][Len(admitted[d]) - Len(bucket'[d]) + i]
          /\ \A i \in 1..(Len(admitted[d]) - Len(bucket'[d])) :
                admitted[d][i] + WindowSeconds <= handler[t].now
      <4>1. /\ Len(bucket[d]) <= Len(admitted[d])
            /\ \A i \in 1..Len(bucket[d]) :
                  bucket[d][i] = admitted[d][Len(admitted[d]) - Len(bucket[d]) + i]
        BY <3>1 DEF BucketOK, Dropped
      <4>2. \A i \in 1..(Len(admitted[d]) - Len(bucket[d])) :
              admitted[d][i] + WindowSeconds <= handler[t].now
        BY <3>1 DEF InAllowOK, Dropped
      <4>3. PICK a \in Seq(Nat), b \in Seq(Nat), time \in Nat :
              a = admitted[d] /\ b = bucket[d] /\ time = handler[t].now
        BY <3>2, <2>4
      <4>4. /\ b # <<>> /\ Len(b) <= Len(a) /\ b[1] + WindowSeconds <= time
            /\ \A i \in 1..Len(b) : b[i] = a[Len(a) - Len(b) + i]
            /\ \A i \in 1..(Len(a) - Len(b)) : a[i] + WindowSeconds <= time
        BY <4>1, <4>2, <4>3, <3>3, <2>4
      <4>5. /\ Len(Tail(b)) <= Len(a)
            /\ \A i \in 1..Len(Tail(b)) : Tail(b)[i] = a[Len(a) - Len(Tail(b)) + i]
            /\ \A i \in 1..(Len(a) - Len(Tail(b))) : a[i] + WindowSeconds <= time
        BY <4>4, <3>2, DropFirst
      <4>6. bucket'[d] = Tail(b)
        BY <4>3, <2>4
      <4> QED
        BY <4>3, <4>5, <4>6, Zenon
    <3>5. \A i \in 1..(Len(admitted[d]) - Len(bucket'[d])) :
                admitted[d][i] + WindowSeconds <= clock
      <4> SUFFICES ASSUME NEW i \in 1..(Len(admitted[d]) - Len(bucket'[d]))
                   PROVE  admitted[d][i] + WindowSeconds <= clock
        OBVIOUS
      <4>1. bucket'[d] \in Seq(Nat)
        BY <2>4
      <4>2. Len(bucket'[d]) \in Nat /\ Len(admitted[d]) \in Nat
        BY <4>1, <2>4
      <4>3. i \in 1..Len(admitted[d])
        BY <4>2
      <4>4. admitted[d][i] \in Nat
        BY <4>3, <2>4
      <4>5. admitted[d][i] + WindowSeconds <= handler[t].now
        BY <3>4
      <4>6. handler[t].now <= clock /\ clock \in Nat
        BY <2>1, <2>4
      <4>7. WindowSeconds \in Nat /\ handler[t].now \in Nat
        BY <4>6, <3>2
      <4> QED
        BY <4>4, <4>5, <4>6, <4>7, AtMostLater
    <3>6. BucketOK(d)'
      BY <3>1, <3>4, <3>5, <2>3 DEF BucketOK, Dropped
    <3>7. AloneOK(d)' /\ SpacedOK(d)'
      BY <3>1, <2>1, <2>2, <2>3, <2>5 DEF CallerOK, AloneOK, SpacedOK, InAllow
    <3>8. ASSUME NEW u \in Threads, InAllow(u)', handler'[u].ip = d PROVE InAllowOK(d, u)'
      <4>1. u = t
        BY <3>1, <3>8, <2>1, <2>5 DEF CallerOK, AloneOK, InAllow
      <4> QED
        BY <4>1, <3>1, <3>4, <2>2, <2>3, <2>5 DEF InAllowOK, Dropped, At
    <3> QED
      BY <3>6, <3>7, <3>8 DEF CallerOK
  <2> QED
    BY <2>3, <2>5, <2>6, <2>7 DEF LimiterInv
<1> QED
  BY <1>1, <1>2

\* Times in their order, Limit of them at most in a window, none later than a time,
\* the first k out of its window.
Sorted(a) == \A i, j \in 1..Len(a) : i <= j => a[i] <= a[j]
Spaced(a) == \A i, j \in 1..Len(a) : j = i + Limit => a[i] + WindowSeconds <= a[j]
UpTo(a, time) == \A i \in 1..Len(a) : a[i] <= time
Outside(a, k, time) == \A i \in 1..k : a[i] + WindowSeconds <= time

\* The time that is appended is the last one, and so far from the one Limit before.
LEMMA AppendLast ==
  ASSUME NEW a \in Seq(Nat), NEW k \in Int, k <= Len(a), NEW time \in Nat,
         Len(a) - k < Limit, Sorted(a), Spaced(a), UpTo(a, time), Outside(a, k, time),
         NEW e, e = Append(a, time)
  PROVE  Sorted(e) /\ Spaced(e) /\ UpTo(e, time) /\ Outside(e, k, time)
<1> DEFINE w == WindowSeconds
           n == Len(a)
<1>1. n \in Nat /\ Len(e) = n + 1 /\ e[n + 1] = time
  OBVIOUS
<1>2. \A i \in 1..n : e[i] = a[i] /\ a[i] \in Nat
  OBVIOUS
<1>3. Limit \in Nat /\ Limit >= 1 /\ w \in Nat
  BY LimiterAssumption
<1> HIDE DEF n
<1>4. \A i \in 1..(n + 1) : i \in 1..n \/ i = n + 1
  BY <1>1
<1>5. \A i \in 1..n : a[i] <= time
  BY DEF n, UpTo
<1>6. \A i \in 1..k : i \in 1..n /\ a[i] + w <= time
  BY <1>1 DEF n, Outside
<1>7. \A i \in 1..(n + 1) : e[i] <= time
  BY <1>1, <1>2, <1>4, <1>5
<1>8. ASSUME NEW i \in 1..(n + 1), NEW j \in 1..(n + 1), i <= j PROVE e[i] <= e[j]
  <2>1. CASE j = n + 1
    BY <2>1, <1>1, <1>7
  <2>2. CASE j \in 1..n
    <3>1. i \in 1..n
      BY <2>2, <1>8, <1>1
    <3> QED
      BY <3>1, <2>2, <1>2, <1>8 DEF n, Sorted
  <2> QED
    BY <2>1, <2>2, <1>4
<1>9. ASSUME NEW i \in 1..(n + 1), NEW j \in 1..(n + 1), j = i + Limit PROVE e[i] + w <= e[j]
  <2>1. CASE j = n + 1
    <3>1. i \in 1..k
      BY <2>1, <1>9, <1>1, <1>3 DEF n
    <3> QED
      BY <3>1, <2>1, <1>1, <1>2, <1>6
  <2>2. CASE j \in 1..n
    <3>1. i \in 1..n
      BY <2>2, <1>9, <1>1, <1>3
    <3> QED
      BY <3>1, <2>2, <1>2, <1>9 DEF n, Spaced
  <2> QED
    BY <2>1, <2>2, <1>4
<1>10. \A i \in 1..k : e[i] + w <= time
  BY <1>2, <1>6
<1> QED
  BY <1>1, <1>7, <1>8, <1>9, <1>10 DEF Sorted, Spaced, UpTo, Outside

LEMMA AppendKeeps ==
  ASSUME LimiterInv, NEW t \in Threads, AppendNow(t)
  PROVE  LimiterInv'
<1> DEFINE s == [handler[t] EXCEPT !.pc = "admitted"]
<1>. PICK d \in Callers : d = handler[t].ip
  BY CurrentHandler DEF AppendNow, At
<1>. PICK time \in Nat : time = handler[t].now
  BY CurrentHandler DEF HandlerStates
<1>1. handler[t] \in HandlerStates /\ time <= clock /\ handler[t].pc = "append"
  BY CurrentHandler DEF AppendNow, At
<1>2. s \in HandlerStates /\ s.pc = "admitted" /\ s.ip = d /\ s.now = time
  BY <1>1 DEF HandlerStates
<1>3. handler' = [handler EXCEPT ![t] = s] /\ UNCHANGED <<clock, overlapped>>
      /\ bucket' = [bucket EXCEPT ![d] = Append(@, time)]
      /\ admitted' = [admitted EXCEPT ![d] = Append(@, time)]
  BY DEF AppendNow, Goto
<1> HIDE DEF s
<1>4. /\ bucket[d] \in Seq(Nat) /\ admitted[d] \in Seq(Nat) /\ clock \in Nat
      /\ bucket'[d] = Append(bucket[d], time) /\ admitted'[d] = Append(admitted[d], time)
  BY <1>3 DEF LimiterInv, LimiterTypeOK
<1>5. /\ LimiterTypeOK'
      /\ \A u \in Threads : handler'[u] = IF u = t THEN s ELSE handler[u]
      /\ (\A u \in Threads : handler[u].now <= clock)'
  <2>1. Append(bucket[d], time) \in Seq(Nat) /\ Append(admitted[d], time) \in Seq(Nat)
    BY <1>4
  <2>2. bucket' \in [Callers -> Seq(Nat)] /\ admitted' \in [Callers -> Seq(Nat)]
    BY <2>1, <1>3 DEF LimiterInv, LimiterTypeOK
  <2> QED
    BY <2>2, <1>1, <1>2, <1>3, TypeStep DEF LimiterInv, LimiterTypeOK
<1>6. ASSUME NEW c \in Callers \ overlapped, c # d PROVE CallerOK(c)'
  <2>1. bucket'[c] = bucket[c] /\ admitted'[c] = admitted[c]
    BY <1>3, <1>6 DEF LimiterInv, LimiterTypeOK
  <2>2. \A u \in Threads : InAllow(u)' /\ handler'[u].ip = c => handler'[u] = handler[u]
    BY <1>2, <1>5, <1>6
  <2> QED
    BY <2>1, <2>2, <1>3, OtherCaller
<1>7. ASSUME d \notin overlapped PROVE CallerOK(d)'
  <2>1. CallerOK(d) /\ InAllowOK(d, t) /\ BucketOK(d)
    BY <1>1, <1>7 DEF LimiterInv, CallerOK, InAllow
  <2>2. PICK a \in Seq(Nat), b \in Seq(Nat) : a = admitted[d] /\ b = bucket[d]
    BY <1>4
  <2>3. PICK n \in Nat, m \in Nat : n = Len(a) /\ m = Len(b)
    OBVIOUS
  <2>4. /\ m <= n /\ m < Limit
        /\ \A i \in 1..m : b[i] = a[n - m + i]
        /\ \A i, j \in 1..n : i <= j => a[i] <= a[j]
        /\ \A i, j \in 1..n : j = i + Limit => a[i] + WindowSeconds <= a[j]
        /\ \A i \in 1..n : a[i] <= time
        /\ \A i \in 1..(n - m) : a[i] + WindowSeconds <= time
    BY <2>1, <2>2, <2>3, <1>1 DEF BucketOK, CallerOK, SpacedOK, InAllowOK, Dropped, At
  <2>a. PICK e, f : e = Append(a, time) /\ f = Append(b, time)
    OBVIOUS
  <2>5. PICK k \in Int : k = n - m /\ k <= Len(a) /\ Len(a) - k < Limit
    <3>1. PICK k \in Int : k = n - m
      OBVIOUS
    <3>2. k <= n /\ n - k < Limit
      BY <3>1, <2>4, LimiterAssumption
    <3> QED
      BY <3>1, <3>2, <2>3
  <2>6. Sorted(e) /\ Spaced(e) /\ UpTo(e, time) /\ Outside(e, k, time)
    <3>1. Sorted(a) /\ Spaced(a) /\ UpTo(a, time) /\ Outside(a, k, time)
      BY <2>3, <2>4, <2>5 DEF Sorted, Spaced, UpTo, Outside
    <3> QED
      BY <3>1, <2>5, <2>a, AppendLast
  <2>7. Len(e) = n + 1 /\ Len(f) = m + 1 /\ e \in Seq(Nat) /\ f \in Seq(Nat)
    BY <2>a, <2>3
  <2>8. \A i \in 1..(m + 1) : f[i] = e[k + i]
    <3>1. \A i \in 1..n : e[i] = a[i]
      BY <2>a, <2>3
    <3>2. \A i \in 1..m : f[i] = b[i]
      BY <2>a, <2>3
    <3>3. e[n + 1] = time /\ f[m + 1] = time
      BY <2>a, <2>3
    <3> SUFFICES ASSUME NEW i \in 1..(m + 1) PROVE f[i] = e[k + i]
      OBVIOUS
    <3>4. CASE i = m + 1
      <4>1. k + i = n + 1
        BY <3>4, <2>5
      <4> QED
        BY <4>1, <3>3, <3>4
    <3>5. CASE i \in 1..m
      <4>1. k + i \in 1..n /\ k + i = n - m + i
        BY <3>5, <2>4, <2>5
      <4> QED
        BY <4>1, <3>1, <3>2, <3>5, <2>4
    <3> QED
      BY <3>4, <3>5
  <2>9. admitted'[d] = e /\ bucket'[d] = f /\ clock' = clock
    BY <2>a, <2>2, <1>3, <1>4
  <2>10. Dropped(d)' = k
    <3>1. (n + 1) - (m + 1) = k
      BY <2>5
    <3> QED
      BY <3>1, <2>7, <2>9 DEF Dropped
  <2>11. /\ \A i \in 1..(n + 1) : e[i] <= clock
         /\ \A i \in 1..k : e[i] + WindowSeconds <= clock
    <3>1. \A i \in 1..(n + 1) : e[i] \in Nat
      BY <2>7
    <3>2. \A i \in 1..k : i \in 1..(n + 1)
      BY <2>3, <2>5
    <3>3. \A i \in 1..(n + 1) : e[i] <= clock
      <4> SUFFICES ASSUME NEW i \in 1..(n + 1) PROVE e[i] <= clock
        OBVIOUS
      <4>1. e[i] <= time
        BY <2>6, <2>7 DEF UpTo
      <4>2. e[i] \in Nat /\ time <= clock /\ clock \in Nat
        BY <3>1, <1>1, <1>4
      <4> QED
        BY <4>1, <4>2
    <3>4. \A i \in 1..k : e[i] + WindowSeconds <= clock
      <4>1. WindowSeconds \in Nat
        BY LimiterAssumption
      <4> QED
        <5> SUFFICES ASSUME NEW i \in 1..k PROVE e[i] + WindowSeconds <= clock
          OBVIOUS
        <5>1. e[i] \in Nat /\ e[i] + WindowSeconds <= time
          BY <3>1, <3>2, <2>6 DEF Outside
        <5> QED
          BY <5>1, <4>1, <1>1, <1>4
    <3> QED
      BY <3>3, <3>4
  <2>12. BucketOK(d)' /\ SpacedOK(d)'
    <3>1. m + 1 <= n + 1
      BY <2>4
    <3>2. \A i, j \in 1..(n + 1) : i <= j => e[i] <= e[j]
      BY <2>6, <2>7 DEF Sorted
    <3>3. \A i, j \in 1..(n + 1) : j = i + Limit => e[i] + WindowSeconds <= e[j]
      BY <2>6, <2>7 DEF Spaced
    <3>4. Len(admitted'[d]) = n + 1 /\ Len(bucket'[d]) = m + 1
      BY <2>7, <2>9
    <3>5. BucketOK(d)'
      BY <3>1, <3>2, <3>4, <2>8, <2>9, <2>10, <2>11 DEF BucketOK
    <3>6. SpacedOK(d)'
      BY <3>3, <3>4, <2>9 DEF SpacedOK
    <3> QED
      BY <3>5, <3>6
  <2>13. \A u \in Threads : ~(InAllow(u)' /\ handler'[u].ip = d)
    BY <2>1, <1>1, <1>2, <1>5 DEF CallerOK, AloneOK, InAllow
  <2> QED
    BY <2>12, <2>13 DEF CallerOK, AloneOK
<1> QED
  BY <1>3, <1>5, <1>6, <1>7 DEF LimiterInv

LEMMA LimiterKeeps == LimiterInv /\ [LimiterNext]_limiterVars => LimiterInv'
<1> SUFFICES ASSUME LimiterInv, [LimiterNext]_limiterVars PROVE LimiterInv'
  OBVIOUS
<1>1. CASE UNCHANGED limiterVars
  BY <1>1 DEF limiterVars, LimiterInv, LimiterTypeOK, CallerOK, AloneOK, BucketOK, SpacedOK,
              InAllowOK, InAllow, Dropped, At, Expired
<1>2. ASSUME NEW t \in Threads, Trim(t) PROVE LimiterInv'
  <2>1. InAllow(t) /\ UNCHANGED <<clock, bucket, admitted, overlapped>>
    BY <1>2 DEF Trim, InAllow, At
  <2>2. Goto(t, IF Bucket(t) # <<>> /\ Expired(t, Head(Bucket(t))) THEN "pop" ELSE "count")
    BY <1>2 DEF Trim
  <2> QED
    BY <2>1, <2>2, MoveKeeps
<1>3. ASSUME NEW t \in Threads, Count(t) PROVE LimiterInv'
  <2>1. InAllow(t) /\ At(t, "count") /\ ~Full(t) /\ Goto(t, "append")
        /\ UNCHANGED <<clock, bucket, admitted, overlapped>>
    BY <1>3 DEF Count, InAllow, At
  <2> QED
    BY <2>1, MoveKeeps
<1>4. ASSUME NEW t \in Threads, Refuse(t) \/ Served(t) PROVE LimiterInv'
  BY <1>4, EndKeeps DEF Refuse, Served
<1> QED
  BY <1>1, <1>2, <1>3, <1>4, TickKeeps, ArriveKeeps, PopKeeps, AppendKeeps DEF LimiterNext, Allow

LEMMA LimiterInvariance == LimiterSpec => []LimiterInv
<1> QED
  BY LimiterInitInv, LimiterKeeps, PTL DEF LimiterSpec

-----------------------------------------------------------------------------
(* The gateway implements the rate limiter: what it adds leaves the         *)
(* limiter's state alone.                                                  *)

\* A step of the gateway is a step of the limiter or none at all.
LEMMA GatewayStepLimiter == [GatewayNext]_gatewayVars => [LimiterNext]_limiterVars
<1> SUFFICES ASSUME [GatewayNext]_gatewayVars PROVE [LimiterNext]_limiterVars
  OBVIOUS
<1>1. CASE UNCHANGED gatewayVars
  BY <1>1 DEF gatewayVars, limiterVars
<1>2. CASE LimiterStep
  BY <1>2 DEF LimiterStep, LimiterNext
<1>3. ASSUME NEW o \in Operators, OperatorStep(o) PROVE UNCHANGED limiterVars
  BY <1>3 DEF OperatorStep, RevokeKey, RotateKey, IssueKey, Begin, Truncate, Save, Interrupt
<1>4. ASSUME NEW t \in Threads,
             Accept(t) \/ Deny(t) \/ \E c \in Callers, token \in Tokens : ClientRequest(t, c, token)
      PROVE  LimiterNext
  BY <1>4 DEF Accept, Deny, ClientRequest, LimiterNext
<1> QED
  BY <1>1, <1>2, <1>3, <1>4 DEF GatewayNext

\* Every behaviour of the gateway is one of the rate limiter, whatever the keys.
THEOREM GatewayImplementsLimiter == GatewaySpec => LimiterSpec
<1>1. GatewayInit => LimiterInit
  BY DEF GatewayInit
<1> QED
  BY <1>1, GatewayStepLimiter, PTL DEF GatewaySpec, LimiterSpec

\* At most Limit requests of a caller are let in within a window, for every limit,
\* window, clock and number of threads (rate_limit.py:13-22).
THEOREM WindowLimitHolds == GatewaySpec => []WindowLimit
<1>1. LimiterInv => WindowLimit
  BY DEF LimiterInv, CallerOK, SpacedOK, WindowLimit
<1> QED
  BY <1>1, GatewayImplementsLimiter, LimiterInvariance, PTL

\* Who is refused has been let in Limit times within the window
\* (rate_limit.py:17-20).
THEOREM RefusalIsDeservedHolds == GatewaySpec => RefusalIsDeserved
<1> DEFINE A == \A t \in Threads : Refuse(t) /\ handler[t].ip \notin overlapped =>
                  LET past == admitted[handler[t].ip]
                  IN /\ Len(past) >= Limit
                     /\ past[Len(past) - Limit + 1] + WindowSeconds > handler[t].now
<1>1. LimiterInv /\ [LimiterNext]_limiterVars => [A]_limiterVars
  <2> SUFFICES ASSUME LimiterInv, NEW t \in Threads, Refuse(t), handler[t].ip \notin overlapped
               PROVE  LET past == admitted[handler[t].ip]
                      IN /\ Len(past) >= Limit
                         /\ past[Len(past) - Limit + 1] + WindowSeconds > handler[t].now
    OBVIOUS
  <2>1. PICK d \in Callers \ overlapped : d = handler[t].ip
    BY CurrentHandler DEF Refuse, At
  <2>2. BucketOK(d) /\ InAllowOK(d, t)
    BY <2>1 DEF LimiterInv, CallerOK, InAllow, Refuse, At
  <2>3. PICK a \in Seq(Nat), b \in Seq(Nat) : a = admitted[d] /\ b = bucket[d]
    BY <2>1 DEF LimiterInv, LimiterTypeOK
  <2>4. PICK n \in Nat, m \in Nat, time \in Nat : n = Len(a) /\ m = Len(b) /\ time = handler[t].now
    BY CurrentHandler DEF HandlerStates
  <2>5. Limit \in Nat /\ Limit >= 1 /\ WindowSeconds \in Nat
    BY LimiterAssumption
  <2>6. m >= Limit
    BY <2>1, <2>3, <2>4 DEF Refuse, Full, Bucket
  <2>7. /\ m <= n
        /\ \A i \in 1..m : b[i] = a[n - m + i]
        /\ \A i, j \in 1..n : i <= j => a[i] <= a[j]
    BY <2>2, <2>3, <2>4 DEF BucketOK, Dropped
  <2>8. b # <<>>
    BY <2>4, <2>5, <2>6
  <2>9. ~(b[1] <= time - WindowSeconds)
    BY <2>2, <2>3, <2>4, <2>8 DEF InAllowOK, Refuse, At, Expired
  <2>10. \A i \in 1..n : a[i] \in Nat
    BY <2>4
  <2>11. 1 \in 1..m /\ n - m + 1 \in 1..n /\ n - Limit + 1 \in 1..n
         /\ n - m + 1 <= n - Limit + 1
    BY <2>5, <2>6, <2>7
  <2>12. b[1] = a[n - m + 1] /\ a[n - m + 1] <= a[n - Limit + 1]
    BY <2>7, <2>11
  <2>13. a[n - Limit + 1] + WindowSeconds > time
    BY <2>5, <2>9, <2>10, <2>11, <2>12
  <2> QED
    BY <2>1, <2>3, <2>4, <2>5, <2>6, <2>7, <2>13
<1>2. GatewaySpec => [][LimiterNext]_limiterVars /\ []LimiterInv
  BY GatewayImplementsLimiter, LimiterInvariance, PTL DEF LimiterSpec
<1>3. GatewaySpec => [][A]_limiterVars
  BY <1>1, <1>2, PTL
<1> QED
  BY <1>3 DEF RefusalIsDeserved

-----------------------------------------------------------------------------
(* The burst of threads that pass the check of the length together.        *)

BurstOf(c) == Len(bucket[c]) + Cardinality(Appending(c)) <= Limit + Cardinality(Threads) - 1

LEMMA AppendingFinite ==
  ASSUME NEW c
  PROVE  /\ IsFiniteSet(Appending(c)) /\ Cardinality(Appending(c)) \in Nat
         /\ Cardinality(Threads) \in Nat /\ Cardinality(Appending(c)) <= Cardinality(Threads)
<1>1. Appending(c) \subseteq Threads /\ IsFiniteSet(Threads)
  BY LimiterAssumption DEF Appending
<1> QED
  BY <1>1, FS_Subset, FS_CardinalityType

LEMMA AppendingFiniteNext ==
  ASSUME NEW c
  PROVE  /\ IsFiniteSet(Appending(c)') /\ Cardinality(Appending(c)') \in Nat
         /\ Cardinality(Appending(c)') <= Cardinality(Threads)
<1>1. Appending(c)' \subseteq Threads /\ IsFiniteSet(Threads)
  BY LimiterAssumption DEF Appending
<1> QED
  BY <1>1, FS_Subset, FS_CardinalityType

\* Fewer threads about to append, and no longer a bucket.
LEMMA BurstShrinks ==
  ASSUME LimiterInv, LimiterTypeOK', NEW c \in Callers, BurstOf(c),
         Appending(c)' \subseteq Appending(c), Len(bucket'[c]) <= Len(bucket[c])
  PROVE  BurstOf(c)'
<1>1. PICK x \in Nat, y \in Nat, n \in Nat : x = Cardinality(Appending(c)) /\ y = Cardinality(Appending(c)')
                                 /\ n = Cardinality(Threads)
  BY AppendingFinite, AppendingFiniteNext
<1>2. y <= x
  BY <1>1, AppendingFinite, FS_Subset
<1>3. bucket[c] \in Seq(Nat) /\ bucket'[c] \in Seq(Nat)
  BY DEF LimiterInv, LimiterTypeOK
<1>4. PICK l \in Nat, m \in Nat : l = Len(bucket[c]) /\ m = Len(bucket'[c])
  BY <1>3
<1>5. m + y <= Limit + n - 1
  BY <1>1, <1>2, <1>4, LimiterAssumption DEF BurstOf
<1>6. Cardinality(Threads)' = n
  BY <1>1
<1> QED
  BY <1>1, <1>4, <1>5 DEF BurstOf

LEMMA BurstKeeps ==
  ASSUME LimiterInv, LimiterInv', [LimiterNext]_limiterVars, NEW c \in Callers, BurstOf(c)
  PROVE  BurstOf(c)'
<1>1. LimiterTypeOK' /\ bucket[c] \in Seq(Nat)
  BY DEF LimiterInv, LimiterTypeOK
<1>2. CASE Tick \/ UNCHANGED limiterVars
  BY <1>1, <1>2, BurstShrinks DEF Tick, limiterVars, Appending, At
<1>3. ASSUME NEW t \in Threads,
             Trim(t) \/ Refuse(t) \/ Served(t) \/ \E d \in Callers : Arrive(t, d)
      PROVE  BurstOf(c)'
  <2>1. UNCHANGED bucket /\ \A u \in Threads : handler'[u] = handler[u] \/ handler'[u].pc # "append"
    BY <1>3 DEF Trim, Refuse, Served, Arrive, Goto, End, Idle, LimiterInv, LimiterTypeOK
  <2> QED
    BY <2>1, <1>1, BurstShrinks DEF Appending, At
<1>4. ASSUME NEW t \in Threads, Pop(t) PROVE BurstOf(c)'
  <2>1. \A u \in Threads : handler'[u] = handler[u] \/ handler'[u].pc # "append"
    BY <1>4 DEF Pop, Goto, End, Idle, LimiterInv, LimiterTypeOK
  <2>2. bucket'[c] = bucket[c] \/ (bucket[c] # <<>> /\ bucket'[c] = Tail(bucket[c]))
    BY <1>4, <1>1 DEF Pop, Bucket, LimiterInv, LimiterTypeOK
  <2>3. Len(bucket'[c]) <= Len(bucket[c])
    <3>1. \A b \in Seq(Nat) : Len(b) <= Len(b) /\ (b # <<>> => Len(Tail(b)) <= Len(b))
      <4> SUFFICES ASSUME NEW b \in Seq(Nat), b # <<>> PROVE Len(Tail(b)) <= Len(b)
        OBVIOUS
      <4>1. Len(b) \in Nat /\ Len(Tail(b)) = Len(b) - 1
        OBVIOUS
      <4> QED
        BY <4>1
    <3> QED
      BY <1>1, <2>2, <3>1, Zenon
  <2> QED
    BY <2>1, <2>3, <1>1, BurstShrinks DEF Appending, At
<1>5. ASSUME NEW t \in Threads, Count(t) PROVE BurstOf(c)'
  <2>1. CASE handler[t].ip # c
    <3>1. \A u \in Threads : handler'[u] = handler[u] \/ handler'[u].ip # c
      BY <1>5, <2>1 DEF Count, Goto, LimiterInv, LimiterTypeOK
    <3> QED
      BY <3>1, <1>1, <1>5, BurstShrinks DEF Appending, At, Count
  <2>2. CASE handler[t].ip = c
    <3>1. PICK y \in Nat, n \in Nat : y = Cardinality(Appending(c)') /\ n = Cardinality(Threads) /\ y <= n
      BY AppendingFinite, AppendingFiniteNext
    <3>2. PICK l \in Nat : l = Len(bucket[c]) /\ bucket' = bucket
      BY <1>1, <1>5 DEF Count
    <3>3. l < Limit
      BY <1>5, <2>2, <3>2, LimiterAssumption DEF Count, Full, Bucket
    <3>4. l + y <= Limit + n - 1
      BY <3>1, <3>3, LimiterAssumption
    <3> QED
      BY <3>1, <3>2, <3>4 DEF BurstOf
  <2> QED
    BY <2>1, <2>2
<1>6. ASSUME NEW t \in Threads, AppendNow(t) PROVE BurstOf(c)'
  <2>1. CASE handler[t].ip # c
    <3>1. /\ \A u \in Threads : handler'[u] = handler[u] \/ handler'[u].ip # c
          /\ bucket'[c] = bucket[c]
      BY <1>6, <2>1 DEF AppendNow, Goto, LimiterInv, LimiterTypeOK
    <3> QED
      BY <3>1, <1>1, BurstShrinks DEF Appending, At
  <2>2. CASE handler[t].ip = c
    <3>1. t \in Appending(c) /\ Appending(c)' = Appending(c) \ {t}
      BY <1>6, <2>2 DEF AppendNow, Goto, Appending, At, LimiterInv, LimiterTypeOK
    <3>2. PICK x \in Nat, y \in Nat, n \in Nat :
            x = Cardinality(Appending(c)) /\ y = Cardinality(Appending(c)') /\ n = Cardinality(Threads)
      BY AppendingFinite, AppendingFiniteNext
    <3>3. y = x - 1
      BY <3>1, <3>2, AppendingFinite, FS_RemoveElement
    <3>4. bucket'[c] = Append(bucket[c], handler[t].now)
      BY <1>6, <2>2 DEF AppendNow, LimiterInv, LimiterTypeOK
    <3>5. handler[t].now \in Nat
      BY CurrentHandler DEF HandlerStates
    <3>6. PICK l \in Nat : l = Len(bucket[c]) /\ Len(bucket'[c]) = l + 1
      BY <1>1, <3>4, <3>5
    <3>7. (l + 1) + y <= Limit + n - 1
      BY <3>2, <3>3, <3>6, LimiterAssumption DEF BurstOf
    <3> QED
      BY <3>2, <3>6, <3>7 DEF BurstOf
  <2> QED
    BY <2>1, <2>2
<1> QED
  BY <1>2, <1>3, <1>4, <1>5, <1>6 DEF LimiterNext, Allow

\* However many threads race past the check, the bucket of a caller never exceeds
\* the limit by more than one request of each other thread (rate_limit.py:19-21).
THEOREM BurstIsBoundedHolds == GatewaySpec => []BurstIsBounded
<1>1. BurstIsBounded <=> \A c \in Callers : BurstOf(c)
  BY DEF BurstIsBounded, BurstOf
<1>2. LimiterInit => BurstIsBounded
  <2> SUFFICES ASSUME LimiterInit, NEW c \in Callers PROVE BurstOf(c)
    BY <1>1
  <2>1. bucket[c] = <<>> /\ Appending(c) = {}
    BY DEF LimiterInit, Appending, At, Idle
  <2>2. Cardinality(Appending(c)) = 0 /\ Len(bucket[c]) = 0
    BY <2>1, FS_EmptySet
  <2>3. Cardinality(Threads) \in Nat
    BY AppendingFinite
  <2> QED
    BY <2>2, <2>3, LimiterAssumption DEF BurstOf
<1>3. LimiterInv /\ LimiterInv' /\ BurstIsBounded /\ [LimiterNext]_limiterVars => BurstIsBounded'
  <2> SUFFICES ASSUME LimiterInv, LimiterInv', BurstIsBounded, [LimiterNext]_limiterVars,
                      NEW c \in Callers
               PROVE  BurstOf(c)'
    BY DEF BurstIsBounded, BurstOf
  <2> QED
    BY <1>1, BurstKeeps
<1>4. LimiterSpec => []BurstIsBounded
  BY <1>2, <1>3, LimiterInvariance, PTL DEF LimiterSpec
<1> QED
  BY <1>4, GatewayImplementsLimiter, PTL

-----------------------------------------------------------------------------
(* The client keys.                                                        *)

\* A set of positions has a first.
LEMMA FirstOfSome ==
  ASSUME NEW S \in SUBSET Nat, S # {}
  PROVE  \E i \in S : \A j \in S : ~(j < i)
<1>1. \E i \in S : \A j \in S : ~(<<j, i>> \in OpToRel(<, Nat))
  BY NatLessThanWellFounded, WFMin
<1> QED
  BY <1>1 DEF OpToRel

\* The commands find an entry that has the id.
LEMMA FirstIsKnown ==
  ASSUME NEW reg \in Seq(Entry), NEW id, Known(reg, id)
  PROVE  First(reg, id) \in 1..Len(reg) /\ reg[First(reg, id)].id = id
<1> DEFINE S == {i \in 1..Len(reg) : reg[i].id = id}
<1>1. S \in SUBSET Nat /\ S # {}
  BY DEF Known
<1>2. PICK i \in S : \A j \in S : ~(j < i)
  BY <1>1, FirstOfSome
<1>3. i \in 1..Len(reg) /\ Len(reg) \in Nat
  BY <1>2
<1>4. \A j \in 1..(i - 1) : j \in 1..Len(reg) /\ j < i
  BY <1>3
<1>5. IsFirst(reg, i, id)
  BY <1>2, <1>4 DEF IsFirst
<1> QED
  BY <1>3, <1>5 DEF First, IsFirst

\* A registry whose keys were all made, each for one entry, and in which what was
\* reported revoked is revoked.
Clean(reg) ==
  /\ reg \in Seq(Entry)
  /\ \A i \in 1..Len(reg) : reg[i].key \in 1..made
  /\ \A i, j \in 1..Len(reg) : reg[i].key = reg[j].key => i = j
  /\ \A i \in 1..Len(reg) : reg[i].key \in revoked => reg[i].status = "revoked"

Revokes(reg, key) == \A i \in 1..Len(reg) : reg[i].key = key => reg[i].status = "revoked"

CommandOK(o) ==
  command[o].pc # "none" =>
    Clean(command[o].payload) /\ Revokes(command[o].payload, command[o].key)

Commands == [pc : {"none", "save", "write"}, payload : Seq(Entry), key : Nat]

KeyInv ==
  /\ made \in Nat /\ revoked \in SUBSET (1..made)
  /\ command \in [Operators -> Commands]
  /\ \A o \in Operators : command[o].key \in 0..made /\ CommandOK(o)
  /\ file # Torn => Clean(file)

LEMMA RevokeClean ==
  ASSUME NEW reg, Clean(reg), NEW id, Known(reg, id)
  PROVE  /\ Clean(Revoke(reg, id))
         /\ Len(Revoke(reg, id)) = Len(reg)
         /\ reg[First(reg, id)] \in Entry
         /\ Revokes(Revoke(reg, id), reg[First(reg, id)].key)
<1> DEFINE new == Revoke(reg, id)
<1>1. PICK f : f = First(reg, id) /\ f \in 1..Len(reg) /\ reg[f] \in Entry /\ reg \in Seq(Entry)
  BY FirstIsKnown DEF Clean
<1>2. new = [reg EXCEPT ![f] = [reg[f] EXCEPT !.status = "revoked"]]
  BY <1>1 DEF Revoke
<1>3. [reg[f] EXCEPT !.status = "revoked"] \in Entry
  BY <1>1 DEF Entry
<1>4. new \in Seq(Entry) /\ Len(new) = Len(reg)
  BY <1>1, <1>2, <1>3
<1>5. \A i \in 1..Len(reg) :
        /\ new[i].key = reg[i].key
        /\ new[i].status = IF i = f THEN "revoked" ELSE reg[i].status
  <2>1. \A i \in 1..Len(reg) :
          new[i] = IF i = f THEN [reg[f] EXCEPT !.status = "revoked"] ELSE reg[i]
    BY <1>1, <1>2
  <2>2. /\ [reg[f] EXCEPT !.status = "revoked"].key = reg[f].key
        /\ [reg[f] EXCEPT !.status = "revoked"].status = "revoked"
    BY <1>1 DEF Entry
  <2> HIDE DEF new
  <2> QED
    BY <2>1, <2>2
<1> HIDE DEF new
<1>6. Clean(new)
  BY <1>4, <1>5 DEF Clean
<1>7. Revokes(new, reg[f].key)
  BY <1>1, <1>4, <1>5 DEF Revokes, Clean
<1> QED
  BY <1>1, <1>4, <1>6, <1>7 DEF new

\* An entry with a key that nobody has.
LEMMA AppendClean ==
  ASSUME KeyInv, NEW reg, Clean(reg), NEW e \in Entry, e.key = made + 1,
         made' = made + 1, revoked' = revoked
  PROVE  Clean(Append(reg, e))'
<1> DEFINE new == Append(reg, e)
<1>1. reg \in Seq(Entry)
  BY DEF Clean
<1>2. new \in Seq(Entry) /\ Len(new) = Len(reg) + 1 /\ Len(reg) \in Nat
  BY <1>1
<1>3. \A i \in 1..(Len(reg) + 1) : new[i] = IF i = Len(reg) + 1 THEN e ELSE reg[i]
  BY <1>1
<1>. PICK l \in Nat : l = Len(reg)
  BY <1>2
<1> HIDE DEF new
<1>4. \A i \in 1..l : new[i].key \in 1..made /\ (new[i].key \in revoked => new[i].status = "revoked")
  <2> SUFFICES ASSUME NEW i \in 1..l
               PROVE  new[i].key \in 1..made /\ (new[i].key \in revoked => new[i].status = "revoked")
    OBVIOUS
  <2>1. new[i] = reg[i]
    BY <1>3
  <2> QED
    BY <2>1 DEF Clean
<1>5. \A i, j \in 1..l : new[i].key = new[j].key => i = j
  <2> SUFFICES ASSUME NEW i \in 1..l, NEW j \in 1..l, new[i].key = new[j].key
               PROVE  i = j
    OBVIOUS
  <2>1. new[i] = reg[i] /\ new[j] = reg[j]
    BY <1>3
  <2> QED
    BY <2>1 DEF Clean
<1>6. made \in Nat /\ revoked \in SUBSET (1..made)
  BY DEF KeyInv
<1>7. new[l + 1].key = made + 1 /\ made + 1 \notin revoked
  BY <1>3, <1>6
<1>8. \A i \in 1..(l + 1) : i \in 1..l \/ i = l + 1
  OBVIOUS
<1>9. \A i \in 1..(l + 1) :
        /\ new[i].key \in 1..(made + 1)
        /\ new[i].key \in revoked => new[i].status = "revoked"
  BY <1>4, <1>6, <1>7, <1>8
<1>10. \A i, j \in 1..(l + 1) : new[i].key = new[j].key => i = j
  BY <1>4, <1>5, <1>6, <1>7, <1>8
<1>11. new' = new /\ Len(new) = l + 1
  BY <1>2 DEF new
<1>12. Clean(new)'
  BY <1>2, <1>9, <1>10, <1>11 DEF Clean
<1> QED
  BY <1>12 DEF new

\* Nothing that was clean is spoilt by keys that are made.
LEMMA CleanStays ==
  ASSUME KeyInv, NEW reg, Clean(reg), made' \in {made, made + 1}, revoked' = revoked
  PROVE  Clean(reg)'
  BY DEF Clean, KeyInv

\* A command begins with a payload that is clean.
LEMMA BeginKeeps ==
  ASSUME KeyInv, NEW o \in Operators, NEW payload, NEW key, Begin(o, payload, key),
         made' \in {made, made + 1}, Clean(payload)', key \in 0..made, Revokes(payload, key)
  PROVE  KeyInv'
<1> DEFINE s == [pc |-> "save", payload |-> payload, key |-> key]
<1>1. made \in Nat /\ made' \in Nat /\ revoked' = revoked /\ revoked' \in SUBSET (1..made')
      /\ file' = file /\ payload \in Seq(Entry)
  BY DEF KeyInv, Begin, Clean
<1>2. command' = [command EXCEPT ![o] = s] /\ s \in Commands
  BY <1>1 DEF Begin, Commands
<1>3. s.pc = "save" /\ s.payload = payload /\ s.key = key
  OBVIOUS
<1> HIDE DEF s
<1>4. \A p \in Operators : command'[p] = IF p = o THEN s ELSE command[p]
  BY <1>2 DEF KeyInv
<1>5. command' \in [Operators -> Commands]
  BY <1>2 DEF KeyInv
<1>6. ASSUME NEW p \in Operators PROVE command'[p].key \in 0..made' /\ CommandOK(p)'
  <2>1. CASE p = o
    BY <2>1, <1>1, <1>3, <1>4 DEF CommandOK, Revokes
  <2>2. CASE p # o
    BY <2>2, <1>1, <1>4, CleanStays DEF KeyInv, CommandOK, Revokes
  <2> QED
    BY <2>1, <2>2
<1>7. file' # Torn => Clean(file)'
  BY <1>1, CleanStays DEF KeyInv, Clean
<1> QED
  BY <1>1, <1>5, <1>6, <1>7 DEF KeyInv

LEMMA IssueKeeps ==
  ASSUME KeyInv, NEW o \in Operators, NEW id \in KeyIds, NEW role \in Roles,
         IssueKey(o, id, role)
  PROVE  KeyInv'
<1> DEFINE e == [id |-> id, key |-> made + 1, role |-> role, status |-> "active"]
<1>1. made \in Nat /\ made' = made + 1 /\ revoked' = revoked /\ file # Torn
  BY DEF KeyInv, IssueKey, Begin, Loads
<1>2. PICK reg : reg = file /\ Clean(reg)
  BY <1>1 DEF KeyInv
<1>3. PICK c \in Entry : c = e /\ c.key = made + 1
  <2>1. e \in Entry /\ e.key = made + 1
    BY <1>1 DEF Entry
  <2> QED
    BY <2>1
<1>4. PICK payload : payload = Append(reg, c)
  OBVIOUS
<1>5. Clean(payload)'
  BY <1>1, <1>2, <1>3, <1>4, AppendClean
<1>6. Revokes(payload, 0)
  BY <1>1, <1>5 DEF Clean, Revokes
<1>7. Begin(o, payload, 0)
  BY <1>2, <1>3, <1>4 DEF IssueKey, Issue
<1> QED
  BY <1>1, <1>5, <1>6, <1>7, BeginKeeps

LEMMA RevokeKeeps ==
  ASSUME KeyInv, NEW o \in Operators, NEW id \in KeyIds, RevokeKey(o, id)
  PROVE  KeyInv'
<1>1. made \in Nat /\ made' = made /\ revoked' = revoked /\ file # Torn
  BY DEF KeyInv, RevokeKey, Begin, Loads
<1>2. PICK reg : reg = file /\ Clean(reg) /\ Known(reg, id)
  BY <1>1 DEF KeyInv, RevokeKey
<1>3. PICK payload, key : payload = Revoke(reg, id) /\ key = reg[First(reg, id)].key
  OBVIOUS
<1>4. Clean(payload) /\ Revokes(payload, key)
  BY <1>2, <1>3, RevokeClean
<1>5. Clean(payload)'
  BY <1>1, <1>4, CleanStays
<1>6. key \in 0..made
  BY <1>1, <1>2, <1>3, FirstIsKnown DEF Clean
<1>7. Begin(o, payload, key)
  BY <1>2, <1>3 DEF RevokeKey
<1> QED
  BY <1>1, <1>4, <1>5, <1>6, <1>7, BeginKeeps

\* The replacement has a key of its own, so that what the command reports stays
\* revoked.
LEMMA RotateKeeps ==
  ASSUME KeyInv, NEW o \in Operators, NEW id \in KeyIds, NEW new \in KeyIds,
         RotateKey(o, id, new)
  PROVE  KeyInv'
<1>1. made \in Nat /\ made' = made + 1 /\ revoked' = revoked /\ file # Torn
  BY DEF KeyInv, RotateKey, Begin, Loads
<1>2. PICK reg : reg = file /\ Clean(reg) /\ Known(reg, id)
  BY <1>1 DEF KeyInv, RotateKey
<1>3. PICK old : old = reg[First(reg, id)] /\ old \in Entry /\ old.key \in 1..made
  BY <1>2, FirstIsKnown, RevokeClean DEF Clean
<1>4. PICK c \in Entry : c = [old EXCEPT !.id = new, !.key = made + 1, !.status = "active"]
                         /\ c.key = made + 1
  <2>1. PICK k \in Nat : k = made + 1
    BY <1>1
  <2>2. [old EXCEPT !.id = new] \in Entry
    BY <1>3 DEF Entry
  <2>3. PICK c \in Entry : c = [old EXCEPT !.id = new]
    BY <2>2
  <2>4. [c EXCEPT !.key = k] \in Entry /\ [c EXCEPT !.key = k].key = k
    BY <2>1 DEF Entry
  <2>5. PICK d \in Entry : d = [c EXCEPT !.key = k] /\ d.key = k
    BY <2>4
  <2>6. [d EXCEPT !.status = "active"] \in Entry /\ [d EXCEPT !.status = "active"].key = k
    BY <2>5 DEF Entry
  <2> QED
    BY <2>1, <2>3, <2>5, <2>6
<1>5. PICK base : base = Revoke(reg, id) /\ Clean(base) /\ Revokes(base, old.key)
  BY <1>2, <1>3, RevokeClean
<1>6. PICK payload : payload = Append(base, c)
  OBVIOUS
<1>7. Clean(payload)'
  BY <1>1, <1>4, <1>5, <1>6, AppendClean
<1>8. Revokes(payload, old.key)
  <2>1. base \in Seq(Entry) /\ Len(payload) = Len(base) + 1 /\ Len(base) \in Nat
    BY <1>5, <1>6 DEF Clean
  <2>2. \A i \in 1..(Len(base) + 1) : payload[i] = IF i = Len(base) + 1 THEN c ELSE base[i]
    BY <2>1, <1>6
  <2> SUFFICES ASSUME NEW i \in 1..Len(payload), payload[i].key = old.key
               PROVE  payload[i].status = "revoked"
    BY DEF Revokes
  <2>3. i # Len(base) + 1
    <3>1. i = Len(base) + 1 => payload[i] = c
      BY <2>1, <2>2
    <3>2. c.key # old.key
      BY <1>1, <1>3, <1>4
    <3> QED
      BY <3>1, <3>2
  <2>4. i \in 1..Len(base) /\ payload[i] = base[i]
    BY <2>1, <2>2, <2>3
  <2> QED
    BY <2>4, <1>5 DEF Revokes
<1>9. Begin(o, payload, old.key)
  BY <1>2, <1>3, <1>4, <1>5, <1>6 DEF RotateKey, Rotate
<1> QED
  BY <1>1, <1>3, <1>7, <1>8, <1>9, BeginKeeps

LEMMA TruncateKeeps ==
  ASSUME KeyInv, NEW o \in Operators, Truncate(o)
  PROVE  KeyInv'
<1>1. /\ made' = made /\ revoked' = revoked /\ file' = Torn
      /\ command' = [command EXCEPT ![o] = [command[o] EXCEPT !.pc = "write"]]
      /\ command[o].pc = "save"
  BY DEF Truncate
<1>2. command[o] \in Commands
  BY DEF KeyInv
<1> DEFINE s == [command[o] EXCEPT !.pc = "write"]
<1>3. s \in Commands /\ s.payload = command[o].payload /\ s.key = command[o].key
  BY <1>2 DEF Commands
<1> HIDE DEF s
<1>4. command' \in [Operators -> Commands]
  BY <1>1, <1>3 DEF KeyInv, s
<1>5. \A p \in Operators : command'[p] = IF p = o THEN s ELSE command[p]
  BY <1>1 DEF KeyInv, s
<1>6. ASSUME NEW p \in Operators PROVE command'[p].key \in 0..made' /\ CommandOK(p)'
  <2>1. command'[p].payload = command[p].payload /\ command'[p].key = command[p].key
        /\ (command'[p].pc # "none" => command[p].pc # "none")
    BY <1>1, <1>3, <1>5
  <2> QED
    BY <2>1, <1>1 DEF KeyInv, CommandOK, Clean, Revokes
<1> QED
  BY <1>1, <1>4, <1>6 DEF KeyInv

LEMMA InterruptKeeps ==
  ASSUME KeyInv, NEW o \in Operators, Interrupt(o)
  PROVE  KeyInv'
<1>1. /\ made' = made /\ revoked' = revoked /\ file' = file
      /\ command' = [command EXCEPT ![o] = NoCommand]
  BY DEF Interrupt
<1>2. NoCommand \in Commands /\ NoCommand.pc = "none" /\ NoCommand.key = 0
  BY DEF Commands, NoCommand
<1>3. command' \in [Operators -> Commands]
  BY <1>1, <1>2 DEF KeyInv
<1>4. \A p \in Operators : command'[p] = IF p = o THEN NoCommand ELSE command[p]
  BY <1>1 DEF KeyInv
<1>5. ASSUME NEW p \in Operators PROVE command'[p].key \in 0..made' /\ CommandOK(p)'
  BY <1>1, <1>2, <1>4 DEF KeyInv, CommandOK, Clean, Revokes
<1> QED
  BY <1>1, <1>3, <1>5 DEF KeyInv, Clean

\* What is written was read after the last report, as there is one operator only.
LEMMA SaveKeeps ==
  ASSUME KeyInv, NEW o \in Operators, Save(o), \A p, q \in Operators : p = q
  PROVE  KeyInv'
<1>1. /\ made' = made /\ revoked' = revoked \cup ({command[o].key} \ {0})
      /\ file' = command[o].payload
      /\ command' = [command EXCEPT ![o] = NoCommand]
      /\ command[o].pc # "none"
  BY DEF Save
<1>2. NoCommand \in Commands /\ NoCommand.pc = "none" /\ NoCommand.key = 0
  BY DEF Commands, NoCommand
<1>3. command' \in [Operators -> Commands]
  BY <1>1, <1>2 DEF KeyInv
<1>4. \A p \in Operators : command'[p] = NoCommand
  BY <1>1 DEF KeyInv
<1>5. Clean(file')
  BY <1>1 DEF KeyInv, CommandOK
<1>6. Revokes(file', command[o].key)
  BY <1>1 DEF KeyInv, CommandOK
<1>7. Clean(file)'
  BY <1>1, <1>5, <1>6 DEF Clean, Revokes
<1>8. revoked' \in SUBSET (1..made')
  <2>1. command[o].key \in 0..made /\ revoked \in SUBSET (1..made) /\ made \in Nat
    BY DEF KeyInv
  <2>2. PICK k : k = command[o].key
    OBVIOUS
  <2>3. {k} \ {0} \subseteq 1..made
    BY <2>1, <2>2
  <2> QED
    BY <2>1, <2>2, <2>3, <1>1
<1> QED
  BY <1>1, <1>2, <1>3, <1>4, <1>7, <1>8 DEF KeyInv, CommandOK

LEMMA RequestKeeps ==
  ASSUME KeyInv, UNCHANGED <<file, made, command, revoked>>
  PROVE  KeyInv'
  BY DEF KeyInv, CommandOK, Clean, Revokes

LEMMA KeyNext ==
  ASSUME KeyInv, [GatewayNext]_gatewayVars, \A p, q \in Operators : p = q
  PROVE  KeyInv'
<1>1. CASE UNCHANGED gatewayVars
  BY <1>1, RequestKeeps DEF gatewayVars, registryVars
<1>2. CASE LimiterStep
  BY <1>2, RequestKeeps DEF LimiterStep, Forget
<1>3. ASSUME NEW o \in Operators, OperatorStep(o) PROVE KeyInv'
  BY <1>3, IssueKeeps, RevokeKeeps, RotateKeeps, TruncateKeeps, SaveKeeps, InterruptKeeps
     DEF OperatorStep
<1>4. ASSUME NEW t \in Threads,
             Accept(t) \/ Deny(t)
               \/ \E c \in Callers, token \in Tokens : ClientRequest(t, c, token)
      PROVE  KeyInv'
  BY <1>4, RequestKeeps DEF Accept, Deny, ClientRequest, Forget
<1> QED
  BY <1>1, <1>2, <1>3, <1>4 DEF GatewayNext

\* Once a command has reported a key revoked no request with it is let in, whatever
\* the commands of this one operator do afterwards and wherever they are
\* interrupted (manage_client_api_keys.py:40-65, api_keys.py).
THEOREM RevokedStaysOutHolds ==
  ASSUME \A p, q \in Operators : p = q
  PROVE  GatewaySpec => RevokedStaysOut
<1> DEFINE A == \A t \in Threads : Accept(t) => bearer[t] \notin revoked
<1>1. GatewayInit => KeyInv
  <2> SUFFICES ASSUME GatewayInit PROVE KeyInv
    OBVIOUS
  <2>1. NoCommand \in Commands /\ NoCommand.pc = "none" /\ NoCommand.key = 0
    BY DEF Commands, NoCommand
  <2>2. file = <<>> /\ made = 0 /\ revoked = {} /\ \A o \in Operators : command[o] = NoCommand
    BY DEF GatewayInit
  <2>3. command \in [Operators -> Commands]
    BY <2>1 DEF GatewayInit
  <2>4. Clean(file)
    BY <2>2 DEF Clean
  <2> QED
    BY <2>1, <2>2, <2>3, <2>4 DEF KeyInv, CommandOK
<1>2. KeyInv /\ [GatewayNext]_gatewayVars => KeyInv'
  BY KeyNext
<1>3. KeyInv => A
  <2> SUFFICES ASSUME KeyInv, NEW t \in Threads, Accept(t) PROVE bearer[t] \notin revoked
    OBVIOUS
  <2>1. Clean(file) /\ Authenticated(bearer[t])
    BY DEF KeyInv, Accept
  <2>2. CASE bearer[t] = OtherToken
    <3>1. OtherToken \notin Nat
      BY GatewayAssumption
    <3>2. revoked \subseteq Nat
      BY DEF KeyInv
    <3> QED
      BY <2>2, <3>1, <3>2
  <2>3. ASSUME NEW i \in Matches(file, bearer[t]), Allows(file[i])
        PROVE  bearer[t] \notin revoked
    BY <2>1, <2>3 DEF Clean, Matches, Allows
  <2> QED
    BY <2>1, <2>2, <2>3 DEF Authenticated
<1>4. KeyInv /\ [GatewayNext]_gatewayVars => [A]_gatewayVars
  BY <1>3
<1>5. GatewaySpec => [][A]_gatewayVars
  BY <1>1, <1>2, <1>4, PTL DEF GatewaySpec
<1> QED
  BY <1>5 DEF RevokedStaysOut

-----------------------------------------------------------------------------
(* The types, with any number of operators.                                *)

KeyTypes ==
  /\ file \in Seq(Entry) \cup {Torn} /\ made \in Nat
  /\ command \in [Operators -> Commands]
  /\ bearer \in [Threads -> Nat \cup {OtherToken}] /\ revoked \in SUBSET Nat

LEMMA RevokeType ==
  ASSUME NEW reg \in Seq(Entry), NEW id, Known(reg, id)
  PROVE  Revoke(reg, id) \in Seq(Entry) /\ reg[First(reg, id)] \in Entry
<1>1. PICK f : f = First(reg, id) /\ f \in 1..Len(reg) /\ reg[f] \in Entry
  BY FirstIsKnown
<1>2. [reg[f] EXCEPT !.status = "revoked"] \in Entry
  BY <1>1 DEF Entry
<1>3. [reg EXCEPT ![f] = [reg[f] EXCEPT !.status = "revoked"]] \in Seq(Entry)
  BY <1>1, <1>2
<1> QED
  BY <1>1, <1>3 DEF Revoke

LEMMA RotateType ==
  ASSUME NEW reg \in Seq(Entry), NEW id, Known(reg, id), NEW new \in KeyIds, NEW key \in Nat
  PROVE  Rotate(reg, id, new, key) \in Seq(Entry)
<1>1. PICK old \in Entry : old = reg[First(reg, id)]
  BY RevokeType
<1>2. [old EXCEPT !.id = new] \in Entry
  BY <1>1 DEF Entry
<1>3. PICK c \in Entry : c = [old EXCEPT !.id = new]
  BY <1>2
<1>4. [c EXCEPT !.key = key] \in Entry
  BY DEF Entry
<1>5. PICK d \in Entry : d = [c EXCEPT !.key = key]
  BY <1>4
<1>6. [d EXCEPT !.status = "active"] \in Entry
  BY DEF Entry
<1>7. [old EXCEPT !.id = new, !.key = key, !.status = "active"] \in Entry
  BY <1>3, <1>5, <1>6
<1>8. \A e \in Entry : Append(Revoke(reg, id), e) \in Seq(Entry)
  BY RevokeType
<1> QED
  BY <1>1, <1>7, <1>8 DEF Rotate

LEMMA CommandTypes ==
  ASSUME KeyTypes, NEW o \in Operators, NEW s \in Commands,
         command' = [command EXCEPT ![o] = s]
  PROVE  command' \in [Operators -> Commands]
  BY DEF KeyTypes

LEMMA BeginTypes ==
  ASSUME KeyTypes, NEW o \in Operators, NEW payload \in Seq(Entry), NEW key \in Nat,
         Begin(o, payload, key), made' \in {made, made + 1}
  PROVE  KeyTypes'
<1>1. [pc |-> "save", payload |-> payload, key |-> key] \in Commands
  BY DEF Commands
<1>2. command' \in [Operators -> Commands]
  BY <1>1, CommandTypes DEF Begin
<1> QED
  BY <1>2 DEF KeyTypes, Begin

LEMMA OperatorTypes ==
  ASSUME KeyTypes, NEW o \in Operators, OperatorStep(o)
  PROVE  KeyTypes'
<1>. PICK n \in Nat : n = made
  BY DEF KeyTypes
<1>1. ASSUME NEW id \in KeyIds, NEW role \in Roles, IssueKey(o, id, role) PROVE KeyTypes'
  <2>1. PICK reg \in Seq(Entry) : reg = file
    BY <1>1 DEF IssueKey, Loads, KeyTypes
  <2>2. PICK e \in Entry : e = [id |-> id, key |-> n + 1, role |-> role, status |-> "active"]
    <3>1. [id |-> id, key |-> n + 1, role |-> role, status |-> "active"] \in Entry
      BY DEF Entry
    <3> QED
      BY <3>1
  <2>3. PICK payload \in Seq(Entry) : payload = Append(reg, e)
    <3>1. Append(reg, e) \in Seq(Entry)
      OBVIOUS
    <3> QED
      BY <3>1
  <2>4. Begin(o, payload, 0) /\ made' = made + 1
    BY <1>1, <2>1, <2>2, <2>3 DEF IssueKey, Issue
  <2> QED
    BY <2>4, BeginTypes
<1>2. ASSUME NEW id \in KeyIds, RevokeKey(o, id) PROVE KeyTypes'
  <2>1. PICK reg \in Seq(Entry) : reg = file /\ Known(reg, id)
    BY <1>2 DEF RevokeKey, Loads, KeyTypes
  <2>2. PICK payload \in Seq(Entry), old \in Entry :
          payload = Revoke(reg, id) /\ old = reg[First(reg, id)]
    BY <2>1, RevokeType
  <2>3. PICK key \in Nat : key = old.key
    BY DEF Entry
  <2>4. Begin(o, payload, key) /\ made' = made
    BY <1>2, <2>1, <2>2, <2>3 DEF RevokeKey
  <2> QED
    BY <2>4, BeginTypes
<1>3. ASSUME NEW id \in KeyIds, NEW new \in KeyIds, RotateKey(o, id, new) PROVE KeyTypes'
  <2>1. PICK reg \in Seq(Entry) : reg = file /\ Known(reg, id)
    BY <1>3 DEF RotateKey, Loads, KeyTypes
  <2>2. PICK old \in Entry : old = reg[First(reg, id)]
    BY <2>1, RevokeType
  <2>3. PICK key \in Nat : key = old.key
    BY DEF Entry
  <2>4. Rotate(reg, id, new, n + 1) \in Seq(Entry)
    BY <2>1, RotateType
  <2>5. PICK payload \in Seq(Entry) : payload = Rotate(reg, id, new, n + 1)
    BY <2>4
  <2>6. Begin(o, payload, key) /\ made' = made + 1
    BY <1>3, <2>1, <2>2, <2>3, <2>5 DEF RotateKey
  <2> QED
    BY <2>6, BeginTypes
<1>4. ASSUME Truncate(o) PROVE KeyTypes'
  <2>1. command[o] \in Commands
    BY DEF KeyTypes
  <2>2. [command[o] EXCEPT !.pc = "write"] \in Commands
    BY <2>1 DEF Commands
  <2> QED
    BY <1>4, <2>2 DEF Truncate, KeyTypes
<1>5. ASSUME Save(o) \/ Interrupt(o) PROVE KeyTypes'
  <2>1. command[o] \in Commands /\ NoCommand \in Commands
    BY DEF KeyTypes, Commands, NoCommand
  <2>2. command' \in [Operators -> Commands]
    BY <1>5, <2>1 DEF Save, Interrupt, KeyTypes
  <2>3. command[o].payload \in Seq(Entry) /\ command[o].key \in Nat
    BY <2>1 DEF Commands
  <2> QED
    BY <1>5, <2>2, <2>3 DEF Save, Interrupt, KeyTypes
<1> QED
  BY <1>1, <1>2, <1>3, <1>4, <1>5 DEF OperatorStep

\* The state keeps its types.
THEOREM GatewayTypeCorrect == GatewaySpec => []GatewayTypeOK
<1>1. GatewayInit => KeyTypes
  <2>1. NoCommand \in Commands /\ <<>> \in Seq(Entry)
    BY DEF Commands, NoCommand
  <2> QED
    BY <2>1 DEF GatewayInit, KeyTypes
<1>2. KeyTypes /\ [GatewayNext]_gatewayVars => KeyTypes'
  <2> SUFFICES ASSUME KeyTypes, [GatewayNext]_gatewayVars PROVE KeyTypes'
    OBVIOUS
  <2>1. CASE UNCHANGED gatewayVars
    BY <2>1 DEF gatewayVars, registryVars, KeyTypes
  <2>2. ASSUME Forget PROVE KeyTypes'
    BY <2>2 DEF KeyTypes, Forget
  <2>3. ASSUME NEW o \in Operators, OperatorStep(o) PROVE KeyTypes'
    BY <2>3, OperatorTypes
  <2>4. ASSUME NEW t \in Threads, NEW c \in Callers, NEW token \in Tokens,
               ClientRequest(t, c, token)
        PROVE  KeyTypes'
    <3>1. token \in Nat \cup {OtherToken}
      BY DEF Tokens, KeyTypes
    <3> QED
      BY <2>4, <3>1 DEF ClientRequest, KeyTypes
  <2> QED
    BY <2>1, <2>2, <2>3, <2>4 DEF GatewayNext, LimiterStep, Accept, Deny
<1>3. KeyTypes /\ LimiterInv => GatewayTypeOK
  BY DEF KeyTypes, GatewayTypeOK, LimiterInv, Commands
<1>4. GatewaySpec => []LimiterInv
  BY GatewayImplementsLimiter, LimiterInvariance, PTL
<1> QED
  BY <1>1, <1>2, <1>3, <1>4, PTL DEF GatewaySpec
=============================================================================
