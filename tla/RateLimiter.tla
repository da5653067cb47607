---------------------------- MODULE RateLimiter ----------------------------
(***************************************************************************)
(* The request limiter of one key: a fixed window counted in Redis for the *)
(* whole deployment, and a sliding window in each process for the calls    *)
(* that cannot reach Redis.                                                *)
(*                                                                         *)
(* A call runs on a thread of its process.  It obtains the client, then    *)
(* increments (the pipeline is one transaction); if either fails it reads  *)
(* the clock, and only then takes the lock of the local samples.  Every    *)
(* call of a key passes the same limit and window, and keys are            *)
(* independent, so one is modelled.  Time is a whole number that never     *)
(* goes back; Redis and the processes are taken to agree on it.            *)
(***************************************************************************)
EXTENDS Integers, Sequences, FiniteSets

CONSTANTS
  Processes,      \* API processes
  Redis,          \* the shared counter
  Calls,          \* threads
  ProcessOf,      \* the process each thread runs in
  Limit, Window,  \* of the key
  RetryInterval,  \* _RETRY_INTERVAL_SECONDS
  MaxTime, MaxAdmissions  \* bounds on the clock and on what is recorded

ASSUME RateAssumption ==
  /\ Redis \notin Processes
  /\ ProcessOf \in [Calls -> Processes]
  /\ Limit \in Nat \ {0} /\ Window \in Nat \ {0} /\ RetryInterval \in Nat
  /\ MaxTime \in Nat /\ MaxAdmissions \in Nat

VARIABLES
  clock,     \* time
  up,        \* Redis answers
  count,     \* the counter of the key, 0 when it does not exist
  expires,   \* when it expires
  client,    \* processes that hold a client
  retryAt,   \* _retry_after_monotonic of each process
  bucket,    \* the local samples of each process, by the number of the admission
  pc,        \* what each thread is doing
  now,       \* the time it read
  log,       \* history: the admissions, who admitted them and at which time
  since,     \* history: the admissions made before a process or Redis last lost its memory
  granted,   \* history: what Redis admitted in the window of the counter ...
  prior      \* history: ... and in the window before

redis == <<up, count, expires>>
history == <<log, since, granted, prior>>
vars == <<clock, redis, client, retryAt, bucket, pc, now, history>>

TypeOK ==
  /\ clock \in 0..MaxTime
  /\ up \in BOOLEAN
  /\ count \in 0..Limit + 1 /\ expires \in Nat
  /\ client \subseteq Processes
  /\ retryAt \in [Processes -> Nat]
  /\ log \in Seq([by : Processes \cup {Redis}, at : 0..MaxTime])
  /\ bucket \in [Processes -> SUBSET DOMAIN log]
  /\ pc \in [Calls -> {"idle", "connected", "fallback", "timed"}]
  /\ now \in [Calls -> 0..MaxTime]
  /\ since \in [Processes \cup {Redis} -> 0..Len(log)]
  /\ granted \subseteq DOMAIN log /\ prior \subseteq DOMAIN log

Init ==
  /\ clock = 0 /\ up \in BOOLEAN
  /\ count = 0 /\ expires = 0
  /\ client = {} /\ retryAt = [p \in Processes |-> 0]
  /\ bucket = [p \in Processes |-> {}]
  /\ pc = [c \in Calls |-> "idle"] /\ now = [c \in Calls |-> 0]
  /\ log = <<>> /\ since = [s \in Processes \cup {Redis} |-> 0]
  /\ granted = {} /\ prior = {}

-----------------------------------------------------------------------------
(* The environment.                                                        *)

Tick ==
  /\ clock < MaxTime
  /\ clock' = clock + 1
  /\ UNCHANGED <<redis, client, retryAt, bucket, pc, now, history>>

RedisUp ==
  /\ ~up /\ up' = TRUE
  /\ UNCHANGED <<clock, count, expires, client, retryAt, bucket, pc, now, history>>

\* An outage, with or without loss of the counter.
RedisDown(lost) ==
  /\ up /\ up' = FALSE
  /\ count' = IF lost THEN 0 ELSE count
  /\ since' = IF lost THEN [since EXCEPT ![Redis] = Len(log)] ELSE since
  /\ granted' = IF lost THEN {} ELSE granted
  /\ prior' = IF lost THEN {} ELSE prior
  /\ UNCHANGED <<clock, expires, client, retryAt, bucket, pc, now, log>>

\* A process restarts, or clear_rate_buckets runs at its end: its samples are gone.
Restart(p) ==
  /\ bucket' = [bucket EXCEPT ![p] = {}]
  /\ client' = client \ {p}
  /\ retryAt' = [retryAt EXCEPT ![p] = 0]
  /\ pc' = [c \in Calls |-> IF ProcessOf[c] = p THEN "idle" ELSE pc[c]]
  /\ now' = [c \in Calls |-> IF ProcessOf[c] = p THEN 0 ELSE now[c]]
  /\ since' = [since EXCEPT ![p] = Len(log)]
  /\ UNCHANGED <<clock, redis, log, granted, prior>>

-----------------------------------------------------------------------------
(* A call.                                                                 *)

Goes(c, from, to) == pc[c] = from /\ pc' = [pc EXCEPT ![c] = to]

\* get_sync_redis: a client there is, or one made now, unless an attempt failed
\* a moment ago.
Connect(c) ==
  LET p == ProcessOf[c]
      tried == p \notin client /\ clock >= retryAt[p]
  IN /\ Goes(c, "idle", IF p \in client \/ (tried /\ up) THEN "connected" ELSE "fallback")
     /\ client' = IF tried /\ up THEN client \cup {p} ELSE client
     /\ retryAt' = IF tried THEN [retryAt EXCEPT ![p] = IF up THEN 0 ELSE clock + RetryInterval]
                            ELSE retryAt
     /\ UNCHANGED <<clock, redis, bucket, now, history>>

\* The readiness probe drops a client that does not answer.
Probe(p) ==
  /\ p \in client /\ ~up
  /\ client' = client \ {p}
  /\ retryAt' = [retryAt EXCEPT ![p] = clock + RetryInterval]
  /\ UNCHANGED <<clock, redis, bucket, pc, now, history>>

Gone == count = 0 \/ clock >= expires

\* Mutant of Expiry: EXPIRE without NX, every call prolongs the window.
ExpiryAlways == clock + Window

\* EXPIRE with NX: only the first increment sets it.
Expiry == IF Gone THEN clock + Window ELSE expires

\* Mutant of Counted: INCR after a check of its own, two calls may see the same count.
CountedLater == IF Gone THEN 1 ELSE IF count < Limit THEN count + 1 ELSE count

\* It is only compared with the limit: above it, the counter stands still.
Counted == IF Gone THEN 1 ELSE IF count <= Limit THEN count + 1 ELSE count

Admit(source, at) == log' = Append(log, [by |-> source, at |-> at])

\* INCR and EXPIRE in one transaction, which starts a window if there is none.
\* The answer admits or refuses, or it is lost (answered = FALSE) and the call
\* falls back although it was counted.
Increment(c, answered) ==
  /\ up /\ Len(log) < MaxAdmissions
  /\ Goes(c, "connected", IF answered THEN "idle" ELSE "fallback")
  /\ count' = Counted
  /\ expires' = Expiry
  /\ prior' = IF Gone THEN granted ELSE prior
  /\ IF answered /\ Counted <= Limit
     THEN /\ Admit(Redis, clock)
          /\ granted' = (IF Gone THEN {} ELSE granted) \cup {Len(log) + 1}
     ELSE /\ granted' = IF Gone THEN {} ELSE granted
          /\ UNCHANGED log
  /\ UNCHANGED <<clock, up, client, retryAt, bucket, now, since>>

\* The transaction never reaches Redis; the client is kept.
Unreachable(c) ==
  /\ ~up
  /\ Goes(c, "connected", "fallback")
  /\ UNCHANGED <<clock, redis, client, retryAt, bucket, now, history>>

\* The fallback takes the time first ...
ReadClock(c) ==
  /\ Goes(c, "fallback", "timed")
  /\ now' = [now EXCEPT ![c] = clock]
  /\ UNCHANGED <<clock, redis, client, retryAt, bucket, history>>

\* Mutant of Kept: the samples exactly one window old are dropped too.
KeptLess(c) == {i \in bucket[ProcessOf[c]] : log[i].at > now[c] - Window}

\* The samples that are not older than the window, seen from the time it read.
Kept(c) == {i \in bucket[ProcessOf[c]] : log[i].at >= now[c] - Window}

\* ... and then the lock: other calls with a later time may have been first.
Sample(c) ==
  LET p == ProcessOf[c]
  IN /\ Goes(c, "timed", "idle") /\ Len(log) < MaxAdmissions
     /\ IF Cardinality(Kept(c)) >= Limit
        THEN UNCHANGED <<bucket, log>>
        ELSE /\ Admit(p, now[c])
             /\ bucket' = [bucket EXCEPT ![p] = Kept(c) \cup {Len(log) + 1}]
     /\ now' = [now EXCEPT ![c] = 0]
     /\ UNCHANGED <<clock, redis, client, retryAt, since, granted, prior>>

Next ==
  \/ Tick \/ RedisUp \/ \E lost \in BOOLEAN : RedisDown(lost)
  \/ \E p \in Processes : Restart(p) \/ Probe(p)
  \/ \E c \in Calls : \/ Connect(c) \/ Unreachable(c) \/ ReadClock(c) \/ Sample(c)
                      \/ \E answered \in BOOLEAN : Increment(c, answered)

Spec == Init /\ [][Next]_vars

-----------------------------------------------------------------------------
(* Properties.                                                             *)

\* What a process (or Redis) admitted in the last window, since it last lost its memory.
Recent(s) == {i \in DOMAIN log : /\ log[i].by = s /\ i > since[s]
                                 /\ log[i].at >= clock - Window}

\* An outage of Redis does not lift the limit: at every moment a process has
\* admitted no more than the limit in the window that ends now, although a
\* thread may be overtaken between reading the clock and taking the lock, and
\* then judges by samples that others have thinned out.
LocalLimit == \A p \in Processes : Cardinality(Recent(p)) <= Limit

\* Why: no sample is dropped before its window is over, whoever drops it.
SamplesKept == \A p \in Processes :
  Recent(p) \subseteq bucket[p] /\ IsFiniteSet(bucket[p]) /\ Cardinality(bucket[p]) <= Limit
NowIsPast == (\A c \in Calls : now[c] <= clock) /\ \A i \in DOMAIN log : log[i].at <= clock

\* Redis makes the limit real across the deployment: whatever answers are lost,
\* one window of the counter admits no more than the limit over all processes,
\* and the window that ends now no more than two of them.
SharedLimit == Cardinality(granted) <= Limit /\ Cardinality(Recent(Redis)) <= 2 * Limit

\* Why: a window admits no more than it counts, and it starts when the one
\* before has ended.
WindowsFollow ==
  /\ IsFiniteSet(granted) /\ IsFiniteSet(prior)
  /\ Cardinality(granted) <= count /\ Cardinality(granted) <= Limit /\ Cardinality(prior) <= Limit
  /\ count = 0 => granted = {} /\ prior = {}
  /\ expires <= clock + Window
  /\ \A i \in granted : log[i].at < expires /\ expires <= log[i].at + Window
  /\ \A i \in prior : log[i].at + Window < expires
  /\ Recent(Redis) \subseteq granted \cup prior

\* Calls that are refused do not keep the counter alive: it ends one window
\* after its first call, the earliest that it admitted or lost.
WindowEnds == count > 0 => \A i \in granted : expires <= log[i].at + Window
=============================================================================
