------------------------- MODULE RateLimiterProofs -------------------------
(***************************************************************************)
(* Proofs that the limiter admits no more than it says, for every limit,   *)
(* window, number of processes and threads.                                *)
(***************************************************************************)
EXTENDS RateLimiter, FiniteSetTheorems, TLAPS

\* Every step keeps the types.
LEMMA TypeStep == ASSUME RateAssumption, TypeOK, [Next]_vars PROVE TypeOK'
<1> USE DEF RateAssumption, TypeOK
<1>1. CASE Tick
  BY <1>1 DEF Tick, redis, history
<1>2. CASE RedisUp
  BY <1>2 DEF RedisUp, history
<1>3. ASSUME NEW lost \in BOOLEAN, RedisDown(lost) PROVE TypeOK'
  <2>1. Len(log) \in 0..Len(log)
    OBVIOUS
  <2>2. since' \in [Processes \cup {Redis} -> 0..Len(log)]
    BY <1>3, <2>1 DEF RedisDown
  <2>3. log' = log /\ granted' \subseteq DOMAIN log /\ prior' \subseteq DOMAIN log
    BY <1>3 DEF RedisDown
  <2>4. bucket' \in [Processes -> SUBSET DOMAIN log']
    BY <1>3, <2>3 DEF RedisDown
  <2>5. count' \in 0..Limit + 1
    BY <1>3 DEF RedisDown
  <2> QED
    BY <1>3, <2>2, <2>3, <2>4, <2>5 DEF RedisDown
<1>4. ASSUME NEW p \in Processes, Restart(p) PROVE TypeOK'
  BY <1>4 DEF Restart, redis
<1>5. ASSUME NEW p \in Processes, Probe(p) PROVE TypeOK'
  BY <1>5 DEF Probe, redis, history
<1>6. ASSUME NEW c \in Calls, Connect(c) PROVE TypeOK'
  BY <1>6 DEF Connect, Goes, redis, history
<1>7. ASSUME NEW c \in Calls, Unreachable(c) PROVE TypeOK'
  BY <1>7 DEF Unreachable, Goes, redis, history
<1>8. ASSUME NEW c \in Calls, ReadClock(c) PROVE TypeOK'
  BY <1>8 DEF ReadClock, Goes, redis, history
<1>9. ASSUME NEW c \in Calls, Sample(c) PROVE TypeOK'
  <2>1. ProcessOf[c] \in Processes
    OBVIOUS
  <2>2. CASE Cardinality(Kept(c)) >= Limit
    BY <1>9, <2>2 DEF Sample, Goes, redis
  <2>3. CASE ~(Cardinality(Kept(c)) >= Limit)
    <3>1. log' = Append(log, [by |-> ProcessOf[c], at |-> now[c]])
      BY <1>9, <2>3 DEF Sample, Admit
    <3>2. /\ log' \in Seq([by : Processes \cup {Redis}, at : 0..MaxTime])
          /\ Len(log') = Len(log) + 1 /\ DOMAIN log' = DOMAIN log \cup {Len(log) + 1}
      BY <2>1, <3>1
    <3>3. Kept(c) \subseteq DOMAIN log
      BY <2>1 DEF Kept
    <3>4. bucket' \in [Processes -> SUBSET DOMAIN log']
      <4>1. bucket' = [bucket EXCEPT ![ProcessOf[c]] = Kept(c) \cup {Len(log) + 1}]
        BY <1>9, <2>3 DEF Sample
      <4>2. Kept(c) \cup {Len(log) + 1} \in SUBSET DOMAIN log'
        BY <3>2, <3>3
      <4>3. bucket \in [Processes -> SUBSET DOMAIN log']
        BY <3>2
      <4> QED
        BY <4>1, <4>2, <4>3
    <3>5. since' \in [Processes \cup {Redis} -> 0..Len(log')]
      BY <1>9, <3>2 DEF Sample
    <3> QED
      BY <1>9, <3>2, <3>4, <3>5 DEF Sample, Goes, redis
  <2> QED
    BY <2>2, <2>3
<1>10. ASSUME NEW c \in Calls, NEW answered \in BOOLEAN, Increment(c, answered) PROVE TypeOK'
  <2>1. count' \in 0..Limit + 1 /\ expires' \in Nat
    BY <1>10 DEF Increment, Counted, Expiry, Gone
  <2>2. CASE answered /\ Counted <= Limit
    <3>1. log' = Append(log, [by |-> Redis, at |-> clock])
      BY <1>10, <2>2 DEF Increment, Admit
    <3>2. /\ log' \in Seq([by : Processes \cup {Redis}, at : 0..MaxTime])
          /\ Len(log') = Len(log) + 1 /\ DOMAIN log' = DOMAIN log \cup {Len(log) + 1}
      BY <3>1
    <3>3. granted' \subseteq DOMAIN log' /\ prior' \subseteq DOMAIN log'
      BY <1>10, <2>2, <3>2 DEF Increment
    <3>4. since' \in [Processes \cup {Redis} -> 0..Len(log')]
      BY <1>10, <3>2 DEF Increment
    <3>5. bucket' \in [Processes -> SUBSET DOMAIN log']
      BY <1>10, <3>2 DEF Increment
    <3> QED
      BY <1>10, <2>1, <3>2, <3>3, <3>4, <3>5 DEF Increment, Goes
  <2>3. CASE ~(answered /\ Counted <= Limit)
    BY <1>10, <2>1, <2>3 DEF Increment, Goes
  <2> QED
    BY <2>2, <2>3
<1>11. CASE UNCHANGED vars
  BY <1>11 DEF vars, redis, history
<1> QED
  BY <1>1, <1>2, <1>3, <1>4, <1>5, <1>6, <1>7, <1>8, <1>9, <1>10, <1>11 DEF Next

\* RateLimiter is type-correct: counters, samples and recorded admissions stay in range.
THEOREM LimiterTypeCorrect == Spec => []TypeOK
<1>1. Init => TypeOK
  BY RateAssumption DEF Init, TypeOK, RateAssumption
<1> QED
  BY <1>1, TypeStep, RateAssumption, PTL DEF Spec

-----------------------------------------------------------------------------
IInv == TypeOK /\ NowIsPast /\ SamplesKept /\ WindowsFollow

\* What the log records are numbers.
LEMMA Stamps ==
  ASSUME RateAssumption, TypeOK
  PROVE  \A i \in DOMAIN log : i \in Int /\ log[i].at \in Int
<1> SUFFICES ASSUME NEW i \in DOMAIN log PROVE i \in Int /\ log[i].at \in Int
  OBVIOUS
<1> DEFINE R == [by : Processes \cup {Redis}, at : 0..MaxTime]
<1>0. log \in Seq(R)
  BY DEF TypeOK
<1> HIDE DEF R
<1>1. DOMAIN log = 1..Len(log) /\ Len(log) \in Nat
  BY <1>0
<1>2. log[i] \in R
  BY <1>0, <1>1
<1> USE DEF R
<1> QED
  BY <1>1, <1>2 DEF RateAssumption

\* How an admission extends the log.
LEMMA Appended ==
  ASSUME TypeOK, NEW s \in Processes \cup {Redis}, NEW t \in 0..MaxTime, Admit(s, t)
  PROVE /\ Len(log) \in Nat /\ DOMAIN log = 1..Len(log)
        /\ DOMAIN log' = 1..Len(log) + 1
        /\ \A i \in DOMAIN log : log'[i] = log[i]
        /\ log'[Len(log) + 1] = [by |-> s, at |-> t]
BY DEF TypeOK, Admit

\* What was recent stays so or expires: a step that admits nothing and forgets
\* nothing makes no admission recent.
LEMMA RecentShrinks ==
  ASSUME RateAssumption, TypeOK, TypeOK', NEW s \in Processes \cup {Redis}, log' = log,
         clock' >= clock, since'[s] >= since[s]
  PROVE  Recent(s)' \subseteq Recent(s)
<1>1. clock \in Int /\ clock' \in Int /\ Window \in Int
  BY DEF RateAssumption, TypeOK
<1>2. since[s] \in Int /\ since'[s] \in Int
  BY DEF TypeOK
<1>3. \A i \in DOMAIN log : i \in Int /\ log[i].at \in Int
  BY Stamps
<1> QED
  BY <1>1, <1>2, <1>3 DEF Recent

\* Readings of the clock are in the past, and so is what is recorded.
LEMMA NowStep == ASSUME RateAssumption, TypeOK, NowIsPast, [Next]_vars PROVE NowIsPast'
<1> clock \in 0..MaxTime /\ MaxTime \in Nat /\ now \in [Calls -> 0..MaxTime]
  BY DEF RateAssumption, TypeOK
<1> DEFINE Past == \A i \in DOMAIN log : log[i].at <= clock
<1>1. (\A c \in Calls : now[c] <= clock) /\ Past
  BY DEF NowIsPast
<1>2. CASE UNCHANGED <<log, now, clock>>
  BY <1>1, <1>2 DEF NowIsPast
<1>3. CASE Tick
  <2>1. \A i \in DOMAIN log : log[i].at \in Int
    BY Stamps
  <2> QED
    BY <1>1, <1>3, <2>1 DEF NowIsPast, Tick, history
<1>4. ASSUME NEW p \in Processes, Restart(p) PROVE NowIsPast'
  BY <1>1, <1>4 DEF NowIsPast, Restart
<1>5. ASSUME NEW c \in Calls, ReadClock(c) PROVE NowIsPast'
  BY <1>1, <1>5 DEF NowIsPast, ReadClock, history
<1>6. ASSUME NEW s \in Processes \cup {Redis}, NEW t \in 0..MaxTime, t <= clock, Admit(s, t),
             clock' = clock
      PROVE  Past'
  <2>1. /\ DOMAIN log = 1..Len(log) /\ DOMAIN log' = 1..Len(log) + 1 /\ Len(log) \in Nat
        /\ \A i \in DOMAIN log : log'[i] = log[i]
        /\ log'[Len(log) + 1] = [by |-> s, at |-> t]
    BY <1>6, Appended
  <2> QED
    BY <1>1, <1>6, <2>1
<1>7. ASSUME NEW c \in Calls, Sample(c) PROVE NowIsPast'
  <2>1. \A d \in Calls : now'[d] <= clock
    BY <1>1, <1>7 DEF Sample
  <2>2. ProcessOf[c] \in Processes /\ now[c] \in 0..MaxTime /\ now[c] <= clock
    BY <1>1 DEF RateAssumption
  <2>3. clock' = clock /\ (log' = log \/ Admit(ProcessOf[c], now[c]))
    BY <1>7 DEF Sample
  <2> QED
    BY <1>1, <1>6, <2>1, <2>2, <2>3 DEF NowIsPast
<1>8. ASSUME NEW c \in Calls, NEW answered \in BOOLEAN, Increment(c, answered) PROVE NowIsPast'
  <2>1. clock' = clock /\ now' = now /\ (log' = log \/ Admit(Redis, clock))
    BY <1>8 DEF Increment
  <2> QED
    BY <1>1, <1>6, <2>1 DEF NowIsPast
<1> QED
  BY <1>2, <1>3, <1>4, <1>5, <1>7, <1>8
     DEF Next, RedisUp, RedisDown, Probe, Connect, Unreachable, vars, redis, history

-----------------------------------------------------------------------------
\* The bucket of a process holds what it admitted in the window, and no more
\* than the limit.
LEMMA LocalStep ==
  ASSUME RateAssumption, TypeOK, TypeOK', NowIsPast, SamplesKept, [Next]_vars
  PROVE  SamplesKept'
<1> DEFINE Kept1(p) == /\ Recent(p) \subseteq bucket[p] /\ IsFiniteSet(bucket[p])
                       /\ Cardinality(bucket[p]) <= Limit
<1>0. SUFFICES ASSUME NEW p \in Processes PROVE Kept1(p)'
  BY DEF SamplesKept
<1>1. Kept1(p)
  BY DEF SamplesKept
<1> HIDE DEF Kept1
<1> p \in Processes \cup {Redis}
  OBVIOUS
<1> /\ clock \in Int /\ clock' \in Int /\ Window \in Nat /\ Limit \in Nat \ {0}
    /\ since[p] \in Int /\ since'[p] \in Int
  BY DEF RateAssumption, TypeOK
<1>2. CASE bucket'[p] = bucket[p] /\ log' = log /\ clock' >= clock /\ since'[p] >= since[p]
  BY <1>1, <1>2, RecentShrinks DEF Kept1
<1>3. CASE Tick
  BY <1>2, <1>3 DEF Tick, history
<1>4. ASSUME NEW lost \in BOOLEAN, RedisDown(lost) PROVE Kept1(p)'
  <2>1. bucket' = bucket /\ log' = log /\ clock' = clock
    BY <1>4 DEF RedisDown
  <2>2. since'[p] = since[p]
    BY <1>4 DEF RedisDown, TypeOK, RateAssumption
  <2> QED
    BY <1>2, <2>1, <2>2
<1>5. ASSUME NEW q \in Processes, Restart(q) PROVE Kept1(p)'
  <2>1. log' = log /\ clock' = clock
    BY <1>5 DEF Restart
  <2>2. CASE p = q
    <3>1. bucket'[p] = {} /\ since'[p] = Len(log)
      BY <1>5, <2>2 DEF Restart, TypeOK
    <3>2. Recent(p)' = {}
      BY <2>1, <3>1 DEF Recent, TypeOK
    <3> QED
      BY <3>1, <3>2, FS_EmptySet DEF Kept1
  <2>3. CASE p # q
    BY <1>2, <1>5, <2>1, <2>3 DEF Restart, TypeOK
  <2> QED
    BY <2>2, <2>3
<1>6. ASSUME NEW c \in Calls, Sample(c) PROVE Kept1(p)'
  <2>0. ProcessOf[c] \in Processes
    BY DEF RateAssumption
  <2>1. clock' = clock /\ since' = since
    BY <1>6 DEF Sample
  <2>2. CASE Cardinality(Kept(c)) >= Limit
    BY <1>2, <1>6, <2>1, <2>2 DEF Sample
  <2>3. CASE ~(Cardinality(Kept(c)) >= Limit)
    <3> DEFINE n == Len(log) + 1
    <3>1. /\ Admit(ProcessOf[c], now[c])
          /\ bucket' = [bucket EXCEPT ![ProcessOf[c]] = Kept(c) \cup {n}]
      BY <1>6, <2>3 DEF Sample
    <3>2. now[c] \in 0..MaxTime /\ now[c] <= clock
      BY DEF TypeOK, NowIsPast
    <3>3. /\ Len(log) \in Nat /\ DOMAIN log = 1..Len(log) /\ DOMAIN log' = 1..n
          /\ \A i \in DOMAIN log : log'[i] = log[i]
          /\ log'[n] = [by |-> ProcessOf[c], at |-> now[c]]
      BY <2>0, <3>1, <3>2, Appended
    <3>4. Recent(p)' \subseteq Recent(p) \cup (IF p = ProcessOf[c] THEN {n} ELSE {})
      BY <2>1, <3>3 DEF Recent
    <3>5. CASE p # ProcessOf[c]
      <4>1. bucket'[p] = bucket[p]
        BY <3>1, <3>5 DEF TypeOK
      <4> QED
        BY <1>1, <3>4, <3>5, <4>1 DEF Kept1
    <3>6. CASE p = ProcessOf[c]
      <4>1. bucket'[p] = Kept(c) \cup {n}
        BY <3>1, <3>6 DEF TypeOK
      <4>2. \A i \in DOMAIN log : log[i].at \in Int
        BY Stamps
      <4>3. Recent(p) \subseteq Kept(c)
        BY <1>1, <3>2, <3>6, <4>2 DEF Kept1, Recent, Kept
      <4>4. Kept(c) \subseteq bucket[p]
        BY <3>6 DEF Kept
      <4>5. IsFiniteSet(Kept(c)) /\ Cardinality(Kept(c)) \in Nat
        BY <1>1, <4>4, FS_Subset, FS_CardinalityType DEF Kept1
      <4>6. IsFiniteSet(Kept(c) \cup {n}) /\ Cardinality(Kept(c) \cup {n}) <= Cardinality(Kept(c)) + 1
        <5>1. /\ IsFiniteSet(Kept(c) \cup {n})
              /\ Cardinality(Kept(c) \cup {n}) = IF n \in Kept(c) THEN Cardinality(Kept(c))
                                                                   ELSE Cardinality(Kept(c)) + 1
          BY <4>5, FS_AddElement
        <5> QED
          BY <4>5, <5>1
      <4>7. Cardinality(Kept(c) \cup {n}) \in Nat
        BY <4>6, FS_CardinalityType
      <4>8. Cardinality(bucket'[p]) <= Limit
        BY <2>3, <4>1, <4>5, <4>6, <4>7
      <4> QED
        BY <3>4, <3>6, <4>1, <4>3, <4>6, <4>8 DEF Kept1
    <3> QED
      BY <3>5, <3>6
  <2> QED
    BY <2>2, <2>3
<1>7. ASSUME NEW c \in Calls, NEW answered \in BOOLEAN, Increment(c, answered) PROVE Kept1(p)'
  <2>1. clock' = clock /\ since' = since /\ bucket' = bucket
    BY <1>7 DEF Increment
  <2>2. CASE log' = log
    BY <1>2, <2>1, <2>2
  <2>3. CASE Admit(Redis, clock)
    <3>1. /\ DOMAIN log = 1..Len(log) /\ DOMAIN log' = 1..Len(log) + 1 /\ Len(log) \in Nat
          /\ \A i \in DOMAIN log : log'[i] = log[i]
          /\ log'[Len(log) + 1] = [by |-> Redis, at |-> clock]
      <4>1. Redis \in Processes \cup {Redis} /\ clock \in 0..MaxTime
        BY DEF TypeOK
      <4> QED
        BY <2>3, <4>1, Appended
    <3>2. p # Redis
      BY DEF RateAssumption
    <3>3. Recent(p)' \subseteq Recent(p)
      BY <2>1, <3>1, <3>2 DEF Recent
    <3> QED
      BY <1>1, <2>1, <3>3 DEF Kept1
  <2> QED
    BY <1>7, <2>2, <2>3 DEF Increment
<1> QED
  BY <1>2, <1>3, <1>4, <1>5, <1>6, <1>7
     DEF Next, RedisUp, Probe, Connect, Unreachable, ReadClock, vars, redis, history

\* The two last windows of the counter hold everything Redis admitted lately, and
\* neither admitted more than the limit.
LEMMA WindowStep ==
  ASSUME RateAssumption, TypeOK, TypeOK', NowIsPast, WindowsFollow, [Next]_vars
  PROVE  WindowsFollow'
<1> /\ clock \in Int /\ clock' \in Int /\ Window \in Nat \ {0} /\ Limit \in Nat \ {0}
    /\ count \in Nat /\ expires \in Int
    /\ Redis \in Processes \cup {Redis} /\ since[Redis] \in Int /\ since'[Redis] \in Int
  BY DEF RateAssumption, TypeOK
<1>0. /\ \A i \in DOMAIN log : i \in Int /\ log[i].at \in Int
      /\ granted \subseteq DOMAIN log /\ prior \subseteq DOMAIN log
  BY Stamps DEF TypeOK
<1>1. CASE /\ UNCHANGED <<count, expires, log, granted, prior>>
           /\ clock' >= clock /\ since'[Redis] >= since[Redis]
  <2>1. Recent(Redis)' \subseteq Recent(Redis)
    BY <1>1, RecentShrinks
  <2> QED
    BY <1>1, <2>1 DEF WindowsFollow
<1>2. CASE Tick
  BY <1>1, <1>2 DEF Tick, redis, history
<1>3. ASSUME NEW lost \in BOOLEAN, RedisDown(lost) PROVE WindowsFollow'
  <2>1. CASE ~lost
    BY <1>1, <1>3, <2>1 DEF RedisDown
  <2>2. CASE lost
    <3>1. /\ count' = 0 /\ granted' = {} /\ prior' = {} /\ log' = log
          /\ expires' = expires /\ clock' = clock
      BY <1>3, <2>2 DEF RedisDown
    <3>2. since'[Redis] = Len(log)
      BY <1>3, <2>2 DEF RedisDown, TypeOK
    <3>3. Recent(Redis)' = {}
      BY <3>1, <3>2 DEF Recent, TypeOK
    <3>4. IsFiniteSet({}) /\ Cardinality({}) = 0
      BY FS_EmptySet
    <3> QED
      BY <3>1, <3>3, <3>4 DEF WindowsFollow
  <2> QED
    BY <2>1, <2>2
<1>4. ASSUME NEW p \in Processes, Restart(p) PROVE WindowsFollow'
  <2>1. since'[Redis] = since[Redis]
    BY <1>4 DEF Restart, TypeOK, RateAssumption
  <2> QED
    BY <1>1, <1>4, <2>1 DEF Restart, redis
<1>5. ASSUME NEW c \in Calls, Sample(c) PROVE WindowsFollow'
  <2>1. UNCHANGED <<clock, count, expires, since, granted, prior>>
    BY <1>5 DEF Sample, redis
  <2>2. CASE log' = log
    BY <1>1, <2>1, <2>2
  <2>3. CASE Admit(ProcessOf[c], now[c])
    <3>1. ProcessOf[c] \in Processes /\ ProcessOf[c] # Redis /\ now[c] \in 0..MaxTime
      BY DEF RateAssumption, TypeOK
    <3>2. /\ DOMAIN log = 1..Len(log) /\ DOMAIN log' = 1..Len(log) + 1 /\ Len(log) \in Nat
          /\ \A i \in DOMAIN log : log'[i] = log[i]
          /\ log'[Len(log) + 1] = [by |-> ProcessOf[c], at |-> now[c]]
      BY <2>3, <3>1, Appended
    <3>3. Recent(Redis)' \subseteq Recent(Redis)
      BY <2>1, <3>1, <3>2 DEF Recent
    <3> QED
      BY <1>0, <2>1, <3>2, <3>3 DEF WindowsFollow
  <2> QED
    BY <1>5, <2>2, <2>3 DEF Sample
<1>6. ASSUME NEW c \in Calls, NEW answered \in BOOLEAN, Increment(c, answered)
      PROVE WindowsFollow'
  <2> DEFINE base == IF Gone THEN {} ELSE granted
             n == Len(log) + 1
  <2>1. /\ clock' = clock /\ since' = since /\ count' = Counted /\ expires' = Expiry
        /\ prior' = IF Gone THEN granted ELSE prior
    BY <1>6 DEF Increment
  <2>2. /\ Counted \in Nat \ {0} /\ expires' \in Int /\ clock < expires' /\ expires' <= clock + Window
    BY <2>1 DEF Counted, Expiry, Gone, WindowsFollow
  <2>3. /\ IsFiniteSet(base) /\ Cardinality(base) \in Nat
        /\ Cardinality(base) <= Limit /\ Cardinality(base) <= Counted
        /\ Counted <= Limit => Cardinality(base) + 1 <= Counted
    <3>1. CASE Gone
      <4>1. IsFiniteSet(base) /\ Cardinality(base) = 0
        BY <3>1, FS_EmptySet
      <4> QED
        BY <2>2, <4>1
    <3>2. CASE ~Gone
      <4>1. Cardinality(granted) \in Nat
        BY FS_CardinalityType DEF WindowsFollow
      <4> QED
        BY <3>2, <4>1 DEF WindowsFollow, Counted
    <3> QED
      BY <3>1, <3>2
  <2>4. /\ IsFiniteSet(prior') /\ Cardinality(prior') <= Limit
        /\ \A i \in prior' : log[i].at + Window < expires'
    BY <1>0, <2>1 DEF WindowsFollow, Gone, Expiry
  <2>5. \A i \in base : log[i].at < expires' /\ expires' <= log[i].at + Window
    BY <2>1 DEF WindowsFollow, Expiry
  <2>6. Recent(Redis) \subseteq base \cup prior'
    <3>1. \A i \in prior : Gone => ~(log[i].at >= clock - Window)
      BY <1>0 DEF Gone, WindowsFollow
    <3> QED
      BY <2>1, <3>1 DEF WindowsFollow, Recent
  <2>7. base \subseteq DOMAIN log /\ prior' \subseteq DOMAIN log
    BY <1>0, <2>1
  <2> HIDE DEF base
  <2>8. CASE answered /\ Counted <= Limit
    <3>1. Admit(Redis, clock) /\ granted' = base \cup {n}
      BY <1>6, <2>8 DEF Increment, base
    <3>2. clock \in 0..MaxTime
      BY DEF TypeOK
    <3>3. /\ DOMAIN log = 1..Len(log) /\ DOMAIN log' = 1..n /\ Len(log) \in Nat
          /\ \A i \in DOMAIN log : log'[i] = log[i]
          /\ log'[n] = [by |-> Redis, at |-> clock]
      BY <3>1, <3>2, Appended
    <3>4. IsFiniteSet(granted') /\ Cardinality(granted') <= Cardinality(base) + 1
          /\ Cardinality(granted') \in Nat
      <4>1. /\ IsFiniteSet(base \cup {n})
            /\ Cardinality(base \cup {n}) = IF n \in base THEN Cardinality(base) ELSE Cardinality(base) + 1
        BY <2>3, FS_AddElement
      <4> QED
        BY <2>3, <3>1, <4>1
    <3>5. Cardinality(granted') <= count' /\ Cardinality(granted') <= Limit
      BY <2>1, <2>2, <2>3, <2>8, <3>4
    <3>6. \A i \in granted' : log'[i].at < expires' /\ expires' <= log'[i].at + Window
      BY <2>2, <2>5, <2>7, <3>1, <3>3
    <3>7. \A i \in prior' : log'[i].at + Window < expires'
      BY <2>4, <2>7, <3>3
    <3>8. Recent(Redis)' \subseteq granted' \cup prior'
      BY <2>1, <2>6, <3>1, <3>3 DEF Recent
    <3> QED
      BY <2>1, <2>2, <2>4, <3>4, <3>5, <3>6, <3>7, <3>8 DEF WindowsFollow
  <2>9. CASE ~(answered /\ Counted <= Limit)
    <3>1. log' = log /\ granted' = base
      BY <1>6, <2>9 DEF Increment, base
    <3>2. Recent(Redis)' = Recent(Redis)
      BY <2>1, <3>1 DEF Recent
    <3> QED
      BY <2>1, <2>2, <2>3, <2>4, <2>5, <2>6, <3>1, <3>2 DEF WindowsFollow
  <2> QED
    BY <2>8, <2>9
<1> QED
  BY <1>1, <1>2, <1>3, <1>4, <1>5, <1>6
     DEF Next, RedisUp, Probe, Connect, Unreachable, ReadClock, vars, redis, history

\* The inductive invariant: the types, and why each limiter holds.
THEOREM LimiterInvariant == Spec => []IInv
<1>1. Init => IInv
  <2> SUFFICES ASSUME Init PROVE IInv
    OBVIOUS
  <2>1. TypeOK
    BY RateAssumption DEF Init, TypeOK, RateAssumption
  <2>2. IsFiniteSet({}) /\ Cardinality({}) = 0
    BY FS_EmptySet
  <2>3. NowIsPast /\ \A s \in Processes \cup {Redis} : Recent(s) = {}
    BY RateAssumption DEF Init, NowIsPast, Recent, RateAssumption
  <2>4. SamplesKept
    BY <2>2, <2>3, RateAssumption DEF Init, SamplesKept, RateAssumption
  <2>5. WindowsFollow
    BY <2>2, <2>3, RateAssumption DEF Init, WindowsFollow, RateAssumption
  <2> QED
    BY <2>1, <2>3, <2>4, <2>5 DEF IInv
<1>2. IInv /\ [Next]_vars => IInv'
  BY RateAssumption, TypeStep, NowStep, LocalStep, WindowStep DEF IInv
<1> QED
  BY <1>1, <1>2, PTL DEF Spec

\* However threads are overtaken between the clock and the lock, a process admits
\* no more than the limit in the window that ends now.
THEOREM OutageKeepsLimit == Spec => []LocalLimit
<1>1. IInv => LocalLimit
  <2> SUFFICES ASSUME IInv, NEW p \in Processes PROVE Cardinality(Recent(p)) <= Limit
    BY DEF LocalLimit
  <2>1. Recent(p) \subseteq bucket[p] /\ IsFiniteSet(bucket[p]) /\ Cardinality(bucket[p]) <= Limit
    BY DEF IInv, SamplesKept
  <2>2. /\ Cardinality(Recent(p)) <= Cardinality(bucket[p])
        /\ Cardinality(Recent(p)) \in Nat /\ Cardinality(bucket[p]) \in Nat
    BY <2>1, FS_Subset, FS_CardinalityType
  <2> QED
    BY <2>1, <2>2, RateAssumption DEF RateAssumption
<1> QED
  BY <1>1, LimiterInvariant, PTL

\* Over all processes, whatever answers are lost, a window of the shared counter
\* admits no more than the limit, and the window that ends now no more than two.
THEOREM DeploymentLimit == Spec => []SharedLimit
<1>1. IInv => SharedLimit
  <2> SUFFICES ASSUME IInv PROVE SharedLimit
    OBVIOUS
  <2>1. WindowsFollow /\ Limit \in Nat
    BY RateAssumption DEF IInv, RateAssumption
  <2>2. IsFiniteSet(granted \cup prior)
        /\ Cardinality(granted \cup prior) <= Cardinality(granted) + Cardinality(prior)
    <3>1. IsFiniteSet(granted) /\ IsFiniteSet(prior)
      BY <2>1 DEF WindowsFollow
    <3>2. IsFiniteSet(granted \cup prior) /\ IsFiniteSet(granted \cap prior)
      BY <3>1, FS_Union, FS_Subset
    <3>3. Cardinality(granted \cup prior)
            = Cardinality(granted) + Cardinality(prior) - Cardinality(granted \cap prior)
      BY <3>1, FS_Union
    <3> QED
      BY <3>1, <3>2, <3>3, FS_CardinalityType
  <2>3. Cardinality(Recent(Redis)) <= Cardinality(granted \cup prior)
    BY <2>1, <2>2, FS_Subset DEF WindowsFollow
  <2>4. /\ Cardinality(granted) \in Nat /\ Cardinality(prior) \in Nat
        /\ Cardinality(granted \cup prior) \in Nat /\ Cardinality(Recent(Redis)) \in Nat
    BY <2>1, <2>2, FS_Subset, FS_CardinalityType DEF WindowsFollow
  <2> QED
    BY <2>1, <2>2, <2>3, <2>4 DEF SharedLimit, WindowsFollow
<1> QED
  BY <1>1, LimiterInvariant, PTL

\* However many calls it refuses, a counter ends one window after its first call.
THEOREM CountersEnd == Spec => []WindowEnds
<1>1. IInv => WindowEnds
  BY DEF IInv, WindowsFollow, WindowEnds
<1> QED
  BY <1>1, LimiterInvariant, PTL
=============================================================================
