-------------------------- MODULE ConnectorsProofs --------------------------
(***************************************************************************)
(* Proofs about workflow connectors, for every number of connectors,       *)
(* calls, policies, rules, items and alerts: the types and the references  *)
(* between the lists, the single open alert, the single notification of a  *)
(* rule, the replay accounts, and what a step may do to the alerts.        *)
(***************************************************************************)
EXTENDS Connectors, SequenceTheorems, FiniteSetTheorems, TLAPS

-----------------------------------------------------------------------------
(* Positions in increasing order.                                          *)

\* A set of naturals that is not empty has a least member.
LEMMA Least ==
  ASSUME NEW T \in SUBSET Nat, T # {}
  PROVE  \E n \in T : \A m \in T : n <= m
<1> DEFINE R == OpToRel(<, Nat)
<1>1. IsWellFoundedOn(R, Nat)
  BY NatLessThanWellFounded
<1>2. \A x, y \in Nat : x < y => <<x, y>> \in R
  BY DEF OpToRel
<1> HIDE DEF R
<1>3. PICK n \in T : \A m \in T : ~(<<m, n>> \in R)
  BY <1>1, WFMin
<1>4. \A m \in T : ~(m < n)
  BY <1>2, <1>3
<1> QED
  BY <1>4

\* A sequence that lists the set S in increasing order.
Sorts(s, S) == /\ s \in [1..Cardinality(S) -> S]
               /\ \A i, j \in DOMAIN s : i < j => s[i] < s[j]

\* Every set of positions can be put in order: by induction on a bound of the
\* positions, as the least bound for which it fails.
LEMMA OrderExists ==
  ASSUME NEW n \in Nat, NEW S \in SUBSET (1..n)
  PROVE  \E s : Sorts(s, S)
<1> DEFINE Bad == {m \in Nat : \E U \in SUBSET (1..m) : \A s : ~Sorts(s, U)}
<1>1. SUFFICES ASSUME Bad # {} PROVE FALSE
  OBVIOUS
<1>2. PICK m \in Bad : \A l \in Bad : m <= l
  <2>1. Bad \in SUBSET Nat
    OBVIOUS
  <2> HIDE DEF Bad
  <2> QED
    BY <1>1, <2>1, Least
<1>3. PICK U \in SUBSET (1..m) : \A s : ~Sorts(s, U)
  BY <1>2
<1>4. m \in Nat
  BY <1>2
<1>5. U # {}
  <2>1. ASSUME U = {} PROVE Sorts(<<>>, U)
    <3>1. Cardinality(U) = 0
      BY <2>1, FS_EmptySet
    <3>2. 1..Cardinality(U) = {}
      BY <3>1
    <3> QED
      BY <2>1, <3>2 DEF Sorts
  <2> QED
    BY <1>3, <2>1
<1>6. m \in U
  <2>1. SUFFICES ASSUME m \notin U PROVE FALSE
    OBVIOUS
  <2>2. m > 0 /\ m - 1 \in Nat
    <3>1. PICK x \in U : x \in 1..m
      BY <1>3, <1>5
    <3> QED
      BY <1>4, <3>1
  <2>3. U \in SUBSET (1..(m - 1))
    BY <1>4, <2>1
  <2>4. m - 1 \in Bad
    BY <1>3, <2>2, <2>3
  <2> QED
    BY <1>2, <1>4, <2>4
<1> DEFINE V == U \ {m}
<1>7. m > 0 /\ m - 1 \in Nat /\ V \in SUBSET (1..(m - 1))
  BY <1>4, <1>6
<1>8. PICK t : Sorts(t, V)
  <2>1. m - 1 \notin Bad
    BY <1>2, <1>4
  <2> QED
    BY <1>7, <2>1
<1>9. IsFiniteSet(U) /\ Cardinality(U) \in Nat
  <2>1. IsFiniteSet(1..m)
    BY <1>4, FS_Interval
  <2>2. IsFiniteSet(U)
    BY <2>1, FS_Subset
  <2> QED
    BY <2>2, FS_CardinalityType
<1>10. Cardinality(V) = Cardinality(U) - 1 /\ Cardinality(V) \in Nat
  <2>1. IsFiniteSet(V) /\ Cardinality(V) = Cardinality(U) - 1
    BY <1>6, <1>9, FS_RemoveElement
  <2>2. Cardinality(V) \in Nat
    BY <2>1, FS_CardinalityType
  <2> QED
    BY <2>1, <2>2
<1> DEFINE c == Cardinality(U)
           s == [i \in 1..c |-> IF i = c THEN m ELSE t[i]]
<1>11. c \in Nat /\ t \in [1..(c - 1) -> V] /\ \A i, j \in 1..(c - 1) : i < j => t[i] < t[j]
  <2>1. DOMAIN t = 1..(c - 1)
    BY <1>8, <1>10 DEF Sorts
  <2> QED
    BY <1>8, <1>9, <1>10, <2>1 DEF Sorts
<1> HIDE DEF c
<1>12. \A i \in 1..c : i # c => t[i] \in V /\ t[i] < m
  <2>1. c \in Nat
    BY <1>11
  <2>2. \A i \in 1..c : i # c => i \in 1..(c - 1)
    BY <2>1
  <2>3. \A i \in 1..(c - 1) : t[i] \in V
    BY <1>11
  <2>4. \A x \in V : x < m
    BY <1>4, <1>7
  <2> QED
    BY <2>2, <2>3, <2>4
<1>13. s \in [1..c -> U]
  BY <1>6, <1>12
<1>14. \A i, j \in 1..c : i < j => s[i] < s[j]
  <2> TAKE i, j \in 1..c
  <2> HAVE i < j
  <2>1. i # c /\ i \in 1..(c - 1)
    BY <1>11
  <2>2. CASE j = c
    BY <1>12, <2>1, <2>2
  <2>3. CASE j # c
    <3>1. j \in 1..(c - 1)
      BY <1>11, <2>3
    <3> QED
      BY <1>11, <2>1, <2>3, <3>1
  <2> QED
    BY <2>2, <2>3
<1>15. Sorts(s, U)
  BY <1>13, <1>14 DEF Sorts, c
<1> QED
  BY <1>3, <1>15

\* InOrder lists a set of positions, each once.
LEMMA InOrderSorts ==
  ASSUME NEW n \in Nat, NEW S \in SUBSET (1..n)
  PROVE  /\ IsFiniteSet(S) /\ Cardinality(S) \in Nat
         /\ InOrder(S) \in [1..Cardinality(S) -> S]
         /\ \A i, j \in 1..Cardinality(S) : i < j => InOrder(S)[i] < InOrder(S)[j]
         /\ \A x \in S : \E i \in 1..Cardinality(S) : InOrder(S)[i] = x
<1>1. IsFiniteSet(S) /\ Cardinality(S) \in Nat
  <2>1. IsFiniteSet(1..n)
    BY FS_Interval
  <2>2. IsFiniteSet(S)
    BY <2>1, FS_Subset
  <2> QED
    BY <2>2, FS_CardinalityType
<1>2. PICK t : Sorts(t, S)
  BY OrderExists
<1>3. \E s \in [1..Cardinality(S) -> S] : \A i, j \in DOMAIN s : i < j => s[i] < s[j]
  BY <1>2 DEF Sorts
<1> DEFINE f == InOrder(S)
<1>4. f \in [1..Cardinality(S) -> S] /\ \A i, j \in DOMAIN f : i < j => f[i] < f[j]
  BY <1>3 DEF InOrder
<1> HIDE DEF f
<1>5. \A i, j \in 1..Cardinality(S) : i < j => f[i] < f[j]
  BY <1>4
<1>6. f \in Injection(1..Cardinality(S), S)
  <2>1. \A i, j \in 1..Cardinality(S) : f[i] = f[j] => i = j
    <3> TAKE i, j \in 1..Cardinality(S)
    <3> HAVE f[i] = f[j]
    <3>0. \A x \in S : x \in Nat
      OBVIOUS
    <3>1. i \in Nat /\ j \in Nat /\ f[i] \in Nat /\ f[j] \in Nat
      <4>1. f[i] \in S /\ f[j] \in S
        BY <1>4
      <4>2. i \in Nat /\ j \in Nat
        BY <1>1
      <4> QED
        BY <3>0, <4>1, <4>2
    <3>2. ~(i < j) /\ ~(j < i)
      BY <1>5, <3>1
    <3> QED
      BY <3>1, <3>2
  <2> QED
    BY <1>4, <2>1 DEF Injection, IsInjective
<1>7. f \in Surjection(1..Cardinality(S), S)
  <2>1. Cardinality(1..Cardinality(S)) = Cardinality(S)
    BY <1>1, FS_Interval
  <2> QED
    BY <1>1, <1>6, <2>1, FS_Injection
<1>8. \A x \in S : \E i \in 1..Cardinality(S) : f[i] = x
  BY <1>7 DEF Surjection
<1> QED
  BY <1>1, <1>4, <1>5, <1>8 DEF f

-----------------------------------------------------------------------------
(* What a step does to the alerts and the events.                          *)

\* The lists are sequences of records.
LEMMA ListFacts ==
  ASSUME TypeOK
  PROVE  /\ Len(alerts) \in Nat /\ DOMAIN alerts = 1..Len(alerts)
         /\ \A a \in DOMAIN alerts : alerts[a] \in Alert
         /\ Len(events) \in Nat /\ DOMAIN events = 1..Len(events)
         /\ \A e \in DOMAIN events : events[e] \in Event
         /\ Len(rules) \in Nat /\ DOMAIN rules = 1..Len(rules)
         /\ \A r \in DOMAIN rules : rules[r] \in Minimums /\ rules[r] \in 1..MaxCount
         /\ Len(queue) \in Nat /\ DOMAIN queue = 1..Len(queue)
         /\ \A i \in DOMAIN queue : queue[i] \in Item
<1>1. alerts \in Seq(Alert) /\ events \in Seq(Event) /\ rules \in Seq(Minimums) /\ queue \in Seq(Item)
  BY DEF TypeOK
<1>2. /\ Len(alerts) \in Nat /\ DOMAIN alerts = 1..Len(alerts)
      /\ \A a \in DOMAIN alerts : alerts[a] \in Alert
  BY <1>1, LenProperties, ElementOfSeq
<1>3. /\ Len(events) \in Nat /\ DOMAIN events = 1..Len(events)
      /\ \A e \in DOMAIN events : events[e] \in Event
  BY <1>1, LenProperties, ElementOfSeq
<1>4. /\ Len(rules) \in Nat /\ DOMAIN rules = 1..Len(rules)
      /\ \A r \in DOMAIN rules : rules[r] \in Minimums
  BY <1>1, LenProperties, ElementOfSeq
<1>5. /\ Len(queue) \in Nat /\ DOMAIN queue = 1..Len(queue)
      /\ \A i \in DOMAIN queue : queue[i] \in Item
  BY <1>1, LenProperties, ElementOfSeq
<1>6. Minimums \subseteq 1..MaxCount
  BY ConnectorsAssumption
<1> QED
  BY <1>2, <1>3, <1>4, <1>5, <1>6

\* MaxCount is at least the threshold of some policy.
LEMMA SomeCount == MaxCount \in Nat /\ 1 \in 1..MaxCount
<1>1. DefaultPolicy \in PolicySpace /\ DefaultPolicy.threshold <= MaxCount /\ MaxCount \in Nat
  BY ConnectorsAssumption
<1>2. DefaultPolicy.threshold \in 1..100
  BY <1>1 DEF PolicySpace
<1> QED
  BY <1>1, <1>2

LEMMA StoreFacts ==
  ASSUME TypeOK, NEW a \in 1..(Len(alerts) + 1), NEW alert \in Alert, Store(alert, a)
  PROVE  /\ alerts' \in Seq(Alert) /\ DOMAIN alerts' = DOMAIN alerts \cup {a}
         /\ alerts'[a] = alert
         /\ \A b \in DOMAIN alerts : b # a => alerts'[b] = alerts[b]
<1>1. alerts \in Seq(Alert) /\ Len(alerts) \in Nat /\ DOMAIN alerts = 1..Len(alerts)
  BY ListFacts DEF TypeOK
<1>2. CASE a \in DOMAIN alerts
  <2>1. alerts' = [alerts EXCEPT ![a] = alert]
    BY <1>2 DEF Store
  <2>2. /\ alerts' \in Seq(Alert) /\ Len(alerts') = Len(alerts)
        /\ \A b \in 1..Len(alerts) : alerts'[b] = IF b = a THEN alert ELSE alerts[b]
    BY <1>1, <1>2, <2>1, ExceptSeq
  <2>3. DOMAIN alerts' = 1..Len(alerts')
    BY <2>2, LenProperties
  <2> QED
    BY <1>1, <1>2, <2>2, <2>3
<1>3. CASE a \notin DOMAIN alerts
  <2>0. a = Len(alerts) + 1
    BY <1>1, <1>3
  <2>1. alerts' = Append(alerts, alert) /\ a = Len(alerts) + 1
    BY <1>3, <2>0 DEF Store
  <2>2. /\ alerts' \in Seq(Alert) /\ Len(alerts') = Len(alerts) + 1
        /\ \A b \in 1..Len(alerts) : alerts'[b] = alerts[b]
        /\ alerts'[Len(alerts) + 1] = alert
    BY <1>1, <2>1, AppendProperties
  <2>3. DOMAIN alerts' = 1..(Len(alerts) + 1)
    BY <2>2, LenProperties
  <2>4. 1..(Len(alerts) + 1) = 1..Len(alerts) \cup {Len(alerts) + 1}
    BY <1>1
  <2> QED
    BY <1>1, <2>1, <2>2, <2>3, <2>4
<1> QED
  BY <1>2, <1>3

\* The events emitted are new, of that alert, and one for each rule that fired.
LEMMA EmitFacts ==
  ASSUME TypeOK, NEW a \in Nat, NEW fired \in SUBSET DOMAIN rules, Emit(fired, a)
  PROVE  /\ events' \in Seq(Event) /\ DOMAIN events \subseteq DOMAIN events'
         /\ \A e \in DOMAIN events : events'[e] = events[e]
         /\ \A e \in DOMAIN events' \ DOMAIN events :
              events'[e].alert = a /\ events'[e].rule \in fired /\ events'[e].status = "triggered"
         /\ \A e, f \in DOMAIN events' \ DOMAIN events :
              events'[e].rule = events'[f].rule => e = f
         /\ \A r \in fired : \E e \in DOMAIN events' \ DOMAIN events : events'[e].rule = r
<1> DEFINE n == Cardinality(fired)
           order == InOrder(fired)
           new == [i \in 1..n |-> [alert |-> a, rule |-> order[i], status |-> "triggered"]]
           old == Len(events)
<1>1. events \in Seq(Event) /\ old \in Nat /\ DOMAIN events = 1..old
  BY ListFacts DEF TypeOK
<1>2. /\ n \in Nat /\ order \in [1..n -> fired]
      /\ \A i, j \in 1..n : i < j => order[i] < order[j]
      /\ \A r \in fired : \E i \in 1..n : order[i] = r
  <2>1. Len(rules) \in Nat /\ fired \in SUBSET (1..Len(rules))
    BY ListFacts
  <2> QED
    BY <2>1, InOrderSorts
<1>3. events' = events \o new
  BY DEF Emit
<1>4. \A r \in fired : r \in Nat
  BY ListFacts
<1> HIDE DEF n, order, old
<1>5. new \in Seq(Event) /\ Len(new) = n
  <2>1. \A i \in 1..n : order[i] \in Nat
    BY <1>2, <1>4
  <2>2. \A i \in 1..n : [alert |-> a, rule |-> order[i], status |-> "triggered"] \in Event
    BY <2>1 DEF Event
  <2>3. new \in [1..n -> Event]
    BY <2>2
  <2>4. new \in Seq(Event)
    BY <1>2, <2>3, SeqDef
  <2>5. DOMAIN new = 1..Len(new) /\ Len(new) \in Nat
    BY <2>4, LenProperties
  <2>6. DOMAIN new = 1..n
    OBVIOUS
  <2>7. Len(new) = n
    <3> HIDE DEF new
    <3>1. n # 0 => n \in 1..Len(new)
      BY <1>2, <2>5, <2>6
    <3>2. Len(new) # 0 => Len(new) \in 1..n
      BY <1>2, <2>5, <2>6
    <3>3. n \in Nat /\ Len(new) \in Nat
      BY <1>2, <2>5
    <3> QED
      BY <3>1, <3>2, <3>3
  <2> QED
    BY <2>4, <2>7
<1>6. \A i \in 1..n : new[i].alert = a /\ new[i].rule = order[i] /\ new[i].status = "triggered"
  OBVIOUS
<1> HIDE DEF new
<1>7. /\ events' \in Seq(Event) /\ Len(events') = old + n
      /\ \A i \in 1..(old + n) : events'[i] = IF i <= old THEN events[i] ELSE new[i - old]
  BY <1>1, <1>3, <1>5, ConcatProperties DEF old
<1>8. DOMAIN events' = 1..(old + n)
  BY <1>7, LenProperties
<1>9. DOMAIN events \subseteq DOMAIN events' /\ \A e \in DOMAIN events : events'[e] = events[e]
  BY <1>1, <1>2, <1>7, <1>8
<1>10. \A e \in DOMAIN events' \ DOMAIN events :
         /\ e - old \in 1..n /\ e \in Int
         /\ events'[e].alert = a /\ events'[e].rule = order[e - old] /\ events'[e].status = "triggered"
  <2> TAKE e \in DOMAIN events' \ DOMAIN events
  <2>1. e \in 1..(old + n) /\ ~(e <= old) /\ e - old \in 1..n
    BY <1>1, <1>2, <1>8
  <2> QED
    BY <1>6, <1>7, <2>1
<1>11. \A e, f \in DOMAIN events' \ DOMAIN events : events'[e].rule = events'[f].rule => e = f
  <2> TAKE e, f \in DOMAIN events' \ DOMAIN events
  <2> HAVE events'[e].rule = events'[f].rule
  <2>1. order[e - old] = order[f - old] /\ e - old \in 1..n /\ f - old \in 1..n /\ e \in Int /\ f \in Int
    BY <1>10
  <2>2. order[e - old] \in Nat
    BY <1>2, <1>4, <2>1
  <2>3. ~(e - old < f - old) /\ ~(f - old < e - old)
    BY <1>2, <2>1, <2>2
  <2> QED
    BY <1>1, <2>1, <2>3
<1>12. \A r \in fired : \E e \in DOMAIN events' \ DOMAIN events : events'[e].rule = r
  <2> TAKE r \in fired
  <2>1. PICK i \in 1..n : order[i] = r
    BY <1>2
  <2>2. old + i \in DOMAIN events' \ DOMAIN events /\ (old + i) - old = i
    BY <1>1, <1>2, <1>8
  <2>3. events'[old + i].rule = order[i]
    BY <1>10, <2>2
  <2> QED
    BY <2>1, <2>2, <2>3
<1>13. \A e \in DOMAIN events' \ DOMAIN events : order[e - old] \in fired
  BY <1>2, <1>10
<1> QED
  BY <1>7, <1>9, <1>10, <1>11, <1>12, <1>13

\* The alert a call records a breach on: an open one of its connector and type, or a
\* new one.  The rules in fired are the ones it had not reached or not remembered.
Records(k, breach, a, fired) ==
  /\ a \in 1..(Len(alerts) + 1) /\ fired \in SUBSET DOMAIN rules
  /\ DOMAIN alerts' = DOMAIN alerts \cup {a}
  /\ \A b \in DOMAIN alerts : b # a => alerts'[b] = alerts[b]
  /\ alerts'[a].connector = k /\ alerts'[a].status = "open" /\ alerts'[a].type = AlertType(breach)
  /\ \A r \in fired : rules[r] <= alerts'[a].breaches
  /\ IF a \in DOMAIN alerts
     THEN /\ alerts[a].connector = k /\ alerts[a].status = "open"
          /\ alerts'[a].type = alerts[a].type
          /\ alerts[a].breaches <= alerts'[a].breaches
          /\ alerts'[a].escalated = alerts[a].escalated \cup fired
          /\ alerts[a].escalated \cap fired = {}
     ELSE /\ alerts'[a].escalated = fired
          /\ \A b \in DOMAIN alerts : alerts[b].status = "open" =>
               <<alerts[b].connector, alerts[b].type>> # <<k, alerts'[a].type>>
  /\ Emit(fired, a)

LEMMA RecordFacts ==
  ASSUME TypeOK, NEW k \in Connector, NEW breach, RecordAlert(k, breach)
  PROVE  \/ breach = {} /\ UNCHANGED <<alerts, events>>
         \/ /\ breach # {} /\ alerts' \in Seq(Alert)
            /\ \E a, fired : Records(k, breach, a, fired)
<1> DEFINE type == AlertType(breach)
           open == OpenAlerts(k, type)
           first == CHOOSE a \in open : \A b \in open : a <= b
<1>0. /\ Len(alerts) \in Nat /\ DOMAIN alerts = 1..Len(alerts)
      /\ \A a \in DOMAIN alerts : alerts[a] \in Alert
      /\ \A r \in DOMAIN rules : r \in Nat
  BY ListFacts
<1>1. CASE breach = {}
  BY <1>1 DEF RecordAlert
<1>2. CASE breach # {} /\ open # {}
  <2>1. first \in open
    <3>1. open \in SUBSET Nat
      BY <1>0 DEF OpenAlerts
    <3>2. \E a \in open : \A b \in open : a <= b
      <4> HIDE DEF open
      <4> QED
        BY <1>2, <3>1, Least
    <3> QED
      BY <3>2
  <2>2. Escalate([alerts[first] EXCEPT !.breaches = Increment(@)], first)
    BY <1>2 DEF RecordAlert
  <2>3. PICK a \in open : Escalate([alerts[a] EXCEPT !.breaches = Increment(@)], a)
    BY <2>1, <2>2
  <2> DEFINE n == Increment(alerts[a].breaches)
             seen == [alerts[a] EXCEPT !.breaches = n]
             fired == Newly(seen)
             noted == [seen EXCEPT !.escalated = @ \cup fired]
  <2>4. /\ a \in DOMAIN alerts /\ alerts[a] \in Alert /\ alerts[a].connector = k
        /\ alerts[a].status = "open" /\ alerts[a].type = type
    BY <1>0, <2>3 DEF OpenAlerts
  <2>5. n \in 1..MaxCount /\ alerts[a].breaches <= n
    <3>1. alerts[a].breaches \in 1..MaxCount
      BY <2>4 DEF Alert
    <3> QED
      BY <3>1, SomeCount DEF Increment
  <2> HIDE DEF n
  <2>6. /\ seen \in Alert /\ seen.connector = k /\ seen.type = alerts[a].type
        /\ seen.status = "open" /\ seen.breaches = n /\ seen.escalated = alerts[a].escalated
    BY <2>4, <2>5 DEF Alert
  <2>7. Store(noted, a) /\ Emit(fired, a)
    BY <2>3 DEF Escalate, n
  <2> HIDE DEF seen
  <2>8. /\ fired \in SUBSET DOMAIN rules /\ seen.escalated \cap fired = {}
        /\ \A r \in fired : rules[r] <= n
    BY <2>6 DEF Newly
  <2> HIDE DEF fired
  <2>9. /\ noted \in Alert /\ noted.connector = k /\ noted.type = alerts[a].type
        /\ noted.status = "open" /\ noted.breaches = n
        /\ noted.escalated = alerts[a].escalated \cup fired
    <3>1. fired \in SUBSET Nat
      BY <1>0, <2>8
    <3> QED
      BY <2>6, <3>1 DEF Alert
  <2> HIDE DEF noted
  <2>10. a \in 1..(Len(alerts) + 1)
    BY <1>0, <2>4
  <2>11. /\ alerts' \in Seq(Alert) /\ DOMAIN alerts' = DOMAIN alerts \cup {a}
         /\ alerts'[a] = noted
         /\ \A b \in DOMAIN alerts : b # a => alerts'[b] = alerts[b]
    BY <2>7, <2>9, <2>10, StoreFacts
  <2>12. Records(k, breach, a, fired)
    BY <2>4, <2>5, <2>6, <2>7, <2>8, <2>9, <2>10, <2>11 DEF Records
  <2> QED
    BY <1>2, <2>11, <2>12
<1>3. CASE breach # {} /\ open = {}
  <2> DEFINE new == [connector |-> k, type |-> type, status |-> "open", breaches |-> 1,
                     escalated |-> {}]
             a == Len(alerts) + 1
             fired == Newly(new)
             noted == [new EXCEPT !.escalated = @ \cup fired]
  <2>1. Escalate(new, a)
    BY <1>3 DEF RecordAlert
  <2>2. /\ fired \in SUBSET DOMAIN rules
        /\ \A r \in fired : rules[r] <= 1
    BY DEF Newly
  <2>3. Store(noted, a) /\ Emit(fired, a)
    BY <2>1 DEF Escalate
  <2> HIDE DEF fired
  <2>4. /\ noted \in Alert /\ noted.connector = k /\ noted.type = type
        /\ noted.status = "open" /\ noted.breaches = 1 /\ noted.escalated = fired
    <3>1. fired \in SUBSET Nat
      BY <1>0, <2>2
    <3> QED
      BY <3>1, SomeCount DEF Alert, Types, AlertType
  <2> HIDE DEF noted
  <2>5. a \in 1..(Len(alerts) + 1) /\ a \notin DOMAIN alerts
    BY <1>0
  <2>6. \A b \in DOMAIN alerts :
          alerts[b].status = "open" => <<alerts[b].connector, alerts[b].type>> # <<k, type>>
    BY <1>3 DEF OpenAlerts
  <2> HIDE DEF a
  <2>7. /\ alerts' \in Seq(Alert) /\ DOMAIN alerts' = DOMAIN alerts \cup {a}
        /\ alerts'[a] = noted
        /\ \A b \in DOMAIN alerts : b # a => alerts'[b] = alerts[b]
    BY <2>3, <2>4, <2>5, StoreFacts
  <2>8. Records(k, breach, a, fired)
    BY <2>2, <2>3, <2>4, <2>5, <2>6, <2>7 DEF Records
  <2> QED
    BY <1>3, <2>7, <2>8
<1> QED
  BY <1>1, <1>2, <1>3

\* Some open alerts are resolved and nothing else of any alert changes.
Resolves(closed) ==
  /\ alerts' \in Seq(Alert) /\ DOMAIN alerts' = DOMAIN alerts
  /\ \A a \in DOMAIN alerts :
       /\ alerts'[a].connector = alerts[a].connector /\ alerts'[a].type = alerts[a].type
       /\ alerts'[a].breaches = alerts[a].breaches /\ alerts'[a].escalated = alerts[a].escalated
       /\ alerts'[a].status = IF a \in closed THEN "resolved" ELSE alerts[a].status

LEMMA ResolveFacts ==
  ASSUME TypeOK, NEW closed,
         alerts' = [a \in DOMAIN alerts |-> IF a \in closed THEN Resolved(alerts[a]) ELSE alerts[a]]
  PROVE  Resolves(closed)
<1>1. /\ Len(alerts) \in Nat /\ DOMAIN alerts = 1..Len(alerts)
      /\ \A a \in DOMAIN alerts : alerts[a] \in Alert
  BY ListFacts
<1>2. \A a \in DOMAIN alerts :
        /\ Resolved(alerts[a]) \in Alert /\ Resolved(alerts[a]).connector = alerts[a].connector
        /\ Resolved(alerts[a]).type = alerts[a].type /\ Resolved(alerts[a]).status = "resolved"
        /\ Resolved(alerts[a]).breaches = alerts[a].breaches
        /\ Resolved(alerts[a]).escalated = alerts[a].escalated
  BY <1>1 DEF Alert, Resolved
<1>3. \A a \in DOMAIN alerts :
        alerts'[a] = IF a \in closed THEN Resolved(alerts[a]) ELSE alerts[a]
  OBVIOUS
<1>4. \A a \in DOMAIN alerts : alerts'[a] \in Alert
  BY <1>1, <1>2, <1>3
<1>5. alerts' \in [1..Len(alerts) -> Alert]
  BY <1>1, <1>4
<1>6. alerts' \in Seq(Alert)
  BY <1>1, <1>5, SeqDef
<1>7. DOMAIN alerts' = DOMAIN alerts
  OBVIOUS
<1> QED
  BY <1>2, <1>3, <1>6, <1>7 DEF Resolves

LEMMA CloseFacts ==
  ASSUME TypeOK, NEW k, CloseAlerts(k)
  PROVE  /\ Resolves({a \in DOMAIN alerts : alerts[a].connector = k /\ alerts[a].status = "open"})
         /\ events' = events
<1> DEFINE closed == {a \in DOMAIN alerts : alerts[a].connector = k /\ alerts[a].status = "open"}
<1>1. alerts' = [a \in DOMAIN alerts |-> IF a \in closed THEN Resolved(alerts[a]) ELSE alerts[a]]
  BY DEF CloseAlerts
<1> HIDE DEF closed
<1>2. Resolves(closed)
  BY <1>1, ResolveFacts
<1> QED
  BY <1>2 DEF closed, CloseAlerts

\* What a step that leaves the rules alone may do to the alerts and the events of the
\* connector k: nothing, count a breach, or resolve.
LEMMA ReportFacts ==
  ASSUME TypeOK, NEW k \in Connector, NEW breach, Report(k, breach)
  PROVE  \/ /\ breach = {} /\ events' = events
            /\ Resolves({a \in DOMAIN alerts : alerts[a].connector = k /\ alerts[a].status = "open"})
         \/ /\ breach # {} /\ alerts' \in Seq(Alert)
            /\ \E a, fired : Records(k, breach, a, fired)
<1>1. CASE breach = {}
  BY <1>1, CloseFacts DEF Report
<1>2. CASE breach # {}
  <2>1. RecordAlert(k, breach)
    BY <1>2 DEF Report
  <2> QED
    BY <1>2, <2>1, RecordFacts
<1> QED
  BY <1>1, <1>2

-----------------------------------------------------------------------------
(* The alerts, their events and the rules.                                 *)

AlertsOK ==
  /\ alerts \in Seq(Alert) /\ events \in Seq(Event) /\ rules \in Seq(Minimums)
  /\ \A a \in DOMAIN alerts : alerts[a].escalated \subseteq DOMAIN rules
  /\ \A e \in DOMAIN events : events[e].alert \in DOMAIN alerts /\ events[e].rule \in DOMAIN rules
  /\ OneOpenAlert /\ Remembered

LEMMA AlertsUntouched ==
  ASSUME AlertsOK, UNCHANGED <<alerts, events, rules>>
  PROVE  AlertsOK'
BY DEF AlertsOK, OneOpenAlert, Remembered

\* A breach is counted: the events emitted are the first for their rules.
LEMMA RecordsKeeps ==
  ASSUME TypeOK, AlertsOK, NEW k, NEW breach, NEW a, NEW fired,
         alerts' \in Seq(Alert), Records(k, breach, a, fired), rules' = rules
  PROVE  AlertsOK'
<1>0. /\ DOMAIN alerts' = DOMAIN alerts \cup {a}
      /\ \A b \in DOMAIN alerts : b # a => alerts'[b] = alerts[b]
      /\ fired \in SUBSET DOMAIN rules /\ a \in Nat
  BY ListFacts DEF Records
<1> DEFINE new == DOMAIN events' \ DOMAIN events
<1>1. /\ events' \in Seq(Event) /\ DOMAIN events \subseteq DOMAIN events'
      /\ \A e \in DOMAIN events : events'[e] = events[e]
      /\ \A e \in new : events'[e].alert = a /\ events'[e].rule \in fired
      /\ \A e, f \in new : events'[e].rule = events'[f].rule => e = f
      /\ \A r \in fired : \E e \in new : events'[e].rule = r
  BY <1>0, EmitFacts DEF Records
<1>2. a \in DOMAIN alerts => /\ alerts'[a].escalated = alerts[a].escalated \cup fired
                             /\ alerts[a].escalated \cap fired = {}
                             /\ alerts[a].breaches <= alerts'[a].breaches
  BY DEF Records
<1>3. a \notin DOMAIN alerts => alerts'[a].escalated = fired
  BY DEF Records
<1>4. \A b \in DOMAIN alerts' : alerts'[b].escalated \subseteq DOMAIN rules
  BY <1>0, <1>2, <1>3 DEF AlertsOK
<1>5. \A e \in DOMAIN events' : events'[e].alert \in DOMAIN alerts' /\ events'[e].rule \in DOMAIN rules
  BY <1>0, <1>1 DEF AlertsOK
<1>6. OneOpenAlert'
  <2>1. \A b \in DOMAIN alerts : b # a /\ alerts[b].status = "open" =>
          <<alerts[b].connector, alerts[b].type>> # <<alerts'[a].connector, alerts'[a].type>>
    BY DEF Records, AlertsOK, OneOpenAlert
  <2> QED
    BY <1>0, <2>1 DEF AlertsOK, OneOpenAlert
<1>7. Remembered'
  <2>1. \A e, f \in DOMAIN events' :
          events'[e].alert = events'[f].alert /\ events'[e].rule = events'[f].rule => e = f
    <3>1. \A e \in DOMAIN events, f \in new :
            ~(events'[e].alert = events'[f].alert /\ events'[e].rule = events'[f].rule)
      <4> TAKE e \in DOMAIN events, f \in new
      <4>1. SUFFICES ASSUME events'[e].alert = events'[f].alert, events'[e].rule = events'[f].rule
                     PROVE FALSE
        OBVIOUS
      <4>2. events[e].alert = a /\ events[e].rule \in fired
        BY <1>1, <4>1
      <4>3. a \in DOMAIN alerts /\ events[e].rule \in alerts[a].escalated
        BY <4>2 DEF AlertsOK, Remembered
      <4> QED
        BY <1>2, <4>2, <4>3
    <3>2. \A e, f \in DOMAIN events :
            events'[e].alert = events'[f].alert /\ events'[e].rule = events'[f].rule => e = f
      BY <1>1 DEF AlertsOK, Remembered
    <3> QED
      BY <1>1, <3>1, <3>2
  <2>2. \A e \in DOMAIN events' : events'[e].rule \in alerts'[events'[e].alert].escalated
    <3>1. ASSUME NEW e \in DOMAIN events
          PROVE  events'[e].rule \in alerts'[events'[e].alert].escalated
      <4>1. events'[e] = events[e] /\ events[e].alert \in DOMAIN alerts
            /\ events[e].rule \in alerts[events[e].alert].escalated
        BY <1>1, <3>1 DEF AlertsOK, Remembered
      <4> QED
        BY <1>0, <1>2, <4>1
    <3>2. ASSUME NEW e \in new
          PROVE  events'[e].rule \in alerts'[events'[e].alert].escalated
      BY <1>1, <1>2, <1>3, <3>2
    <3> QED
      BY <3>1, <3>2
  <2>3. ASSUME NEW b \in DOMAIN alerts', NEW r \in alerts'[b].escalated
        PROVE  /\ rules[r] <= alerts'[b].breaches
               /\ \E e \in DOMAIN events' : events'[e].alert = b /\ events'[e].rule = r
    <3>1. CASE b = a /\ r \in fired
      BY <1>1, <3>1 DEF Records
    <3>2. CASE b \in DOMAIN alerts /\ r \in alerts[b].escalated
      <4>1. /\ rules[r] <= alerts[b].breaches
            /\ \E e \in DOMAIN events : events[e].alert = b /\ events[e].rule = r
        BY <3>2 DEF AlertsOK, Remembered
      <4>2. alerts[b].breaches <= alerts'[b].breaches
        <5>1. alerts[b].breaches \in Int
          BY <3>2, ListFacts DEF Alert
        <5> QED
          BY <1>0, <1>2, <3>2, <5>1
      <4>3. rules[r] \in Int /\ alerts[b].breaches \in Int /\ alerts'[b].breaches \in Int
        <5>1. r \in DOMAIN rules
          BY <3>2 DEF AlertsOK
        <5>2. alerts'[b] \in Alert
          BY LenProperties, ElementOfSeq
        <5> QED
          BY <3>2, <5>1, <5>2, ListFacts DEF Alert
      <4> QED
        BY <1>1, <4>1, <4>2, <4>3
    <3> QED
      BY <1>0, <1>2, <1>3, <2>3, <3>1, <3>2
  <2> QED
    BY <2>1, <2>2, <2>3 DEF Remembered
<1> QED
  BY <1>1, <1>4, <1>5, <1>6, <1>7 DEF AlertsOK

\* The events keep their alert and their rule.
Alike ==
  /\ events' \in Seq(Event) /\ DOMAIN events' = DOMAIN events
  /\ \A e \in DOMAIN events : events'[e].alert = events[e].alert /\ events'[e].rule = events[e].rule

\* Nothing that Remembered speaks of has changed.
LEMMA RememberedAlike ==
  ASSUME AlertsOK, Alike, rules' = rules, DOMAIN alerts' = DOMAIN alerts,
         \A a \in DOMAIN alerts : /\ alerts'[a].breaches = alerts[a].breaches
                                 /\ alerts'[a].escalated = alerts[a].escalated
  PROVE  Remembered'
<1>1. \A e, f \in DOMAIN events' :
        events'[e].alert = events'[f].alert /\ events'[e].rule = events'[f].rule => e = f
  <2>1. \A e, f \in DOMAIN events :
          events[e].alert = events[f].alert /\ events[e].rule = events[f].rule => e = f
    BY DEF AlertsOK, Remembered
  <2> QED
    BY <2>1 DEF Alike
<1>2. \A e \in DOMAIN events' : events'[e].rule \in alerts'[events'[e].alert].escalated
  <2> SUFFICES ASSUME NEW e \in DOMAIN events'
               PROVE  events'[e].rule \in alerts'[events'[e].alert].escalated
    OBVIOUS
  <2>1. e \in DOMAIN events /\ events'[e].rule = events[e].rule /\ events'[e].alert = events[e].alert
    BY DEF Alike
  <2>2. events[e].alert \in DOMAIN alerts /\ events[e].rule \in alerts[events[e].alert].escalated
    BY <2>1 DEF AlertsOK, Remembered
  <2> QED
    BY <2>1, <2>2
<1>3. ASSUME NEW a \in DOMAIN alerts', NEW r \in alerts'[a].escalated
      PROVE  /\ rules'[r] <= alerts'[a].breaches
             /\ \E e \in DOMAIN events' : events'[e].alert = a /\ events'[e].rule = r
  <2>1. a \in DOMAIN alerts /\ r \in alerts[a].escalated
    BY <1>3
  <2>2. PICK e \in DOMAIN events : events[e].alert = a /\ events[e].rule = r
    BY <2>1 DEF AlertsOK, Remembered
  <2>3. rules[r] <= alerts[a].breaches
    BY <2>1 DEF AlertsOK, Remembered
  <2>4. events'[e].alert = a /\ events'[e].rule = r /\ e \in DOMAIN events'
    BY <2>2 DEF Alike
  <2> QED
    BY <2>1, <2>3, <2>4
<1> QED
  BY <1>1, <1>2, <1>3 DEF Remembered

\* Alerts are resolved and events acknowledged or resolved.
LEMMA ResolvesKeeps ==
  ASSUME TypeOK, AlertsOK, NEW closed, Resolves(closed), Alike, rules' = rules
  PROVE  AlertsOK'
<1>1. OneOpenAlert'
  <2>1. \A a \in DOMAIN alerts : alerts'[a].status = "open" => alerts[a].status = "open"
    BY DEF Resolves
  <2> QED
    BY <2>1 DEF Resolves, AlertsOK, OneOpenAlert
<1>2. Remembered'
  BY RememberedAlike DEF Resolves
<1> QED
  BY <1>1, <1>2 DEF Resolves, Alike, AlertsOK

LEMMA AlikeAll ==
  ASSUME TypeOK, events' = events
  PROVE  Alike
BY DEF Alike, TypeOK

\* Some events are given another status.
LEMMA RestatusFacts ==
  ASSUME TypeOK, NEW marked, NEW s \in {"triggered", "acknowledged", "resolved"},
         events' = [e \in DOMAIN events |->
                      IF e \in marked THEN [events[e] EXCEPT !.status = s] ELSE events[e]]
  PROVE  Alike
<1>1. Len(events) \in Nat /\ DOMAIN events = 1..Len(events) /\ \A e \in DOMAIN events : events[e] \in Event
  BY ListFacts
<1>2. \A e \in DOMAIN events :
        events'[e] = IF e \in marked THEN [events[e] EXCEPT !.status = s] ELSE events[e]
  OBVIOUS
<1>3. \A e \in DOMAIN events :
        /\ [events[e] EXCEPT !.status = s] \in Event
        /\ [events[e] EXCEPT !.status = s].alert = events[e].alert
        /\ [events[e] EXCEPT !.status = s].rule = events[e].rule
  BY <1>1 DEF Event
<1>4. \A e \in DOMAIN events : events'[e] \in Event
  BY <1>1, <1>2, <1>3
<1>5. events' \in [1..Len(events) -> Event]
  BY <1>1, <1>4
<1>6. events' \in Seq(Event)
  BY <1>1, <1>5, SeqDef
<1>7. DOMAIN events' = DOMAIN events
  OBVIOUS
<1> QED
  BY <1>2, <1>3, <1>6, <1>7 DEF Alike

LEMMA AcknowledgeKeeps ==
  ASSUME TypeOK, AlertsOK, NEW e \in DOMAIN events, Acknowledge(e)
  PROVE  AlertsOK'
<1>1. Alike
  <2>1. events' = [f \in DOMAIN events |->
           IF f \in {e} THEN [events[f] EXCEPT !.status = "acknowledged"] ELSE events[f]]
    BY DEF Acknowledge
  <2> QED
    BY <2>1, RestatusFacts
<1>2. alerts' = alerts /\ rules' = rules
  BY DEF Acknowledge
<1>3. Remembered'
  BY <1>1, <1>2, RememberedAlike
<1>4. OneOpenAlert'
  BY <1>2 DEF AlertsOK, OneOpenAlert
<1> QED
  BY <1>1, <1>2, <1>3, <1>4 DEF Alike, AlertsOK

\* What the sweep does, from its definition.
LEMMA SweepFacts ==
  ASSUME TypeOK, AutoResolve
  PROVE  /\ Resolves({a \in DOMAIN alerts : Recovered(a)}) /\ Alike /\ rules' = rules
         /\ \A e \in DOMAIN events : IF alerts'[events[e].alert].status = "open"
                                      THEN events'[e] = events[e] ELSE events'[e].status = "resolved"
<1> DEFINE closed == {a \in DOMAIN alerts : Recovered(a)}
           loose == {e \in DOMAIN events : alerts'[events[e].alert].status # "open"}
<1>1. alerts' = [a \in DOMAIN alerts |-> IF a \in closed THEN Resolved(alerts[a]) ELSE alerts[a]]
  BY DEF AutoResolve
<1>2. events' = [e \in DOMAIN events |->
                   IF e \in loose THEN [events[e] EXCEPT !.status = "resolved"] ELSE events[e]]
  BY DEF AutoResolve, Resolved
<1>3. \A e \in DOMAIN events : events[e] \in Event
  BY ListFacts
<1> HIDE DEF closed
<1>4. Resolves(closed)
  BY <1>1, ResolveFacts
<1>5. Alike
  <2> HIDE DEF loose
  <2> QED
    BY <1>2, RestatusFacts
<1>6. \A e \in loose : events'[e].status = "resolved"
  <2>1. \A e \in DOMAIN events : [events[e] EXCEPT !.status = "resolved"].status = "resolved"
    BY <1>3 DEF Event
  <2> QED
    BY <1>2, <2>1
<1>7. \A e \in DOMAIN events : e \notin loose => events'[e] = events[e]
  BY <1>2
<1> QED
  BY <1>4, <1>5, <1>6, <1>7 DEF closed, AutoResolve

\* A rule is added: the alerts that remember an earlier one still do.
LEMMA CreateRuleKeeps ==
  ASSUME TypeOK, AlertsOK, NEW minimum \in Minimums, CreateRule(minimum)
  PROVE  AlertsOK'
<1>1. rules \in Seq(Minimums) /\ Len(rules) \in Nat /\ DOMAIN rules = 1..Len(rules)
  BY ListFacts DEF TypeOK
<1>2. /\ rules' \in Seq(Minimums) /\ Len(rules') = Len(rules) + 1
      /\ \A r \in 1..Len(rules) : rules'[r] = rules[r]
  BY <1>1, AppendProperties DEF CreateRule
<1>3. DOMAIN rules' = 1..(Len(rules) + 1)
  BY <1>2, LenProperties
<1>4. DOMAIN rules \subseteq DOMAIN rules'
  BY <1>1, <1>3
<1>5. alerts' = alerts /\ events' = events
  BY DEF CreateRule
<1>6. OneOpenAlert'
  BY <1>5 DEF AlertsOK, OneOpenAlert
<1>7. Remembered'
  <2>1. \A a \in DOMAIN alerts : \A r \in alerts[a].escalated : rules'[r] = rules[r]
    BY <1>1, <1>2 DEF AlertsOK
  <2> QED
    BY <1>5, <2>1 DEF AlertsOK, Remembered
<1> QED
  BY <1>2, <1>4, <1>5, <1>6, <1>7 DEF AlertsOK

-----------------------------------------------------------------------------
(* The counters of a connector.                                            *)

\* The requests and the failures of k grow by so much, nothing else does.
Counts(k, requests, failed) ==
  /\ stats' \in [Connector -> Stats]
  /\ \A j \in Connector :
       /\ stats'[j].total = IF j = k THEN stats[j].total + requests ELSE stats[j].total
       /\ stats'[j].failed = IF j = k THEN stats[j].failed + failed ELSE stats[j].failed

\* And so do its replay counters.
Replays(k, enqueued, succeeded, failures) ==
  \A j \in Connector :
    /\ stats'[j].enqueued = IF j = k THEN stats[j].enqueued + enqueued ELSE stats[j].enqueued
    /\ stats'[j].succeeded = IF j = k THEN stats[j].succeeded + succeeded ELSE stats[j].succeeded
    /\ stats'[j].failures = IF j = k THEN stats[j].failures + failures ELSE stats[j].failures

LEMMA StatsAre ==
  ASSUME NEW s \in Stats
  PROVE  /\ s = [total |-> s.total, failed |-> s.failed, enqueued |-> s.enqueued,
                 succeeded |-> s.succeeded, failures |-> s.failures]
         /\ s.total \in Nat /\ s.failed \in Nat /\ s.enqueued \in Nat
         /\ s.succeeded \in Nat /\ s.failures \in Nat
BY DEF Stats

LEMMA StatsEdits ==
  ASSUME NEW s \in Stats, NEW m
  PROVE  /\ [s EXCEPT !.total = m] =
              [total |-> m, failed |-> s.failed, enqueued |-> s.enqueued,
               succeeded |-> s.succeeded, failures |-> s.failures]
         /\ [s EXCEPT !.failed = m] =
              [total |-> s.total, failed |-> m, enqueued |-> s.enqueued,
               succeeded |-> s.succeeded, failures |-> s.failures]
<1> DEFINE t == s.total
           f == s.failed
           e == s.enqueued
           u == s.succeeded
           g == s.failures
<1>1. s = [total |-> t, failed |-> f, enqueued |-> e, succeeded |-> u, failures |-> g]
  BY StatsAre
<1> HIDE DEF t, f, e, u, g
<1>2. [s EXCEPT !.total = m] =
        [total |-> m, failed |-> f, enqueued |-> e, succeeded |-> u, failures |-> g]
  BY <1>1
<1>3. [s EXCEPT !.failed = m] =
        [total |-> t, failed |-> m, enqueued |-> e, succeeded |-> u, failures |-> g]
  BY <1>1
<1> QED
  BY <1>2, <1>3 DEF t, f, e, u, g

LEMMA EnqueuedEdit ==
  ASSUME NEW s \in Stats, NEW m, NEW n, NEW entry,
         entry = [s EXCEPT !.failed = m, !.enqueued = n]
  PROVE  entry = [total |-> s.total, failed |-> m, enqueued |-> n,
                  succeeded |-> s.succeeded, failures |-> s.failures]
<1>1. PICK r : r = [s EXCEPT !.failed = m]
  OBVIOUS
<1>2. r = [total |-> s.total, failed |-> m, enqueued |-> s.enqueued,
           succeeded |-> s.succeeded, failures |-> s.failures]
  BY <1>1, StatsEdits
<1>3. entry = [r EXCEPT !.enqueued = n]
  BY <1>1
<1> QED
  BY <1>2, <1>3

LEMMA ReplayedEdit ==
  ASSUME NEW s \in Stats, NEW m, NEW n, NEW entry,
         entry = [s EXCEPT !.succeeded = m, !.failures = n]
  PROVE  entry = [total |-> s.total, failed |-> s.failed, enqueued |-> s.enqueued,
                  succeeded |-> m, failures |-> n]
<1>1. s = [total |-> s.total, failed |-> s.failed, enqueued |-> s.enqueued,
           succeeded |-> s.succeeded, failures |-> s.failures]
  BY StatsAre
<1>2. PICK r : r = [s EXCEPT !.succeeded = m]
  OBVIOUS
<1>3. r = [total |-> s.total, failed |-> s.failed, enqueued |-> s.enqueued,
           succeeded |-> m, failures |-> s.failures]
  BY <1>1, <1>2
<1>4. entry = [r EXCEPT !.failures = n]
  BY <1>2
<1> QED
  BY <1>3, <1>4

\* The entry of k is replaced.
LEMMA StatsAt ==
  ASSUME TypeOK, NEW k \in Connector, NEW entry \in Stats, stats' = [stats EXCEPT ![k] = entry]
  PROVE  /\ stats' \in [Connector -> Stats] /\ stats'[k] = entry
         /\ \A j \in Connector : j # k => stats'[j] = stats[j]
<1>1. stats \in [Connector -> Stats]
  BY DEF TypeOK
<1> QED
  BY <1>1

\* A request is counted.
LEMMA CountFacts ==
  ASSUME TypeOK, NEW k \in Connector, Count(k)
  PROVE  Counts(k, 1, 0) /\ Replays(k, 0, 0, 0)
<1>0. PICK s : s = stats[k]
  OBVIOUS
<1>1. stats \in [Connector -> Stats] /\ s \in Stats
  BY <1>0 DEF TypeOK
<1>2. PICK m : m = s.total + 1
  OBVIOUS
<1>3. /\ m \in Nat /\ s.total \in Nat /\ s.failed \in Nat /\ s.enqueued \in Nat
      /\ s.succeeded \in Nat /\ s.failures \in Nat
  BY <1>1, <1>2, StatsAre
<1>4. PICK entry : entry = [s EXCEPT !.total = m]
  OBVIOUS
<1>5. entry = [total |-> m, failed |-> s.failed, enqueued |-> s.enqueued,
          succeeded |-> s.succeeded, failures |-> s.failures]
  BY <1>1, <1>4, StatsEdits
<1>6. entry \in Stats
  BY <1>3, <1>5 DEF Stats
<1>7. stats' = [stats EXCEPT ![k] = entry]
  BY <1>0, <1>1, <1>2, <1>4 DEF Count
<1>8. /\ stats' \in [Connector -> Stats]
      /\ stats'[k].total = m /\ stats'[k].failed = s.failed /\ stats'[k].enqueued = s.enqueued
      /\ stats'[k].succeeded = s.succeeded /\ stats'[k].failures = s.failures
      /\ \A j \in Connector : j # k => stats'[j] = stats[j]
  <2>1. /\ stats' \in [Connector -> Stats] /\ stats'[k] = entry
        /\ \A j \in Connector : j # k => stats'[j] = stats[j]
    BY <1>6, <1>7, StatsAt
  <2>2. /\ entry.total = m /\ entry.failed = s.failed /\ entry.enqueued = s.enqueued
        /\ entry.succeeded = s.succeeded /\ entry.failures = s.failures
    BY <1>5
  <2> QED
    BY <2>1, <2>2
<1> QED
  BY <1>0, <1>2, <1>3, <1>8 DEF Counts, Replays

\* A failure is counted.
LEMMA FailedFacts ==
  ASSUME TypeOK, NEW k \in Connector, stats' = [stats EXCEPT ![k].failed = @ + 1]
  PROVE  Counts(k, 0, 1) /\ Replays(k, 0, 0, 0)
<1>0. PICK s : s = stats[k]
  OBVIOUS
<1>1. stats \in [Connector -> Stats] /\ s \in Stats
  BY <1>0 DEF TypeOK
<1>2. PICK m : m = s.failed + 1
  OBVIOUS
<1>3. /\ m \in Nat /\ s.total \in Nat /\ s.failed \in Nat /\ s.enqueued \in Nat
      /\ s.succeeded \in Nat /\ s.failures \in Nat
  BY <1>1, <1>2, StatsAre
<1>4. PICK entry : entry = [s EXCEPT !.failed = m]
  OBVIOUS
<1>5. entry = [total |-> s.total, failed |-> m, enqueued |-> s.enqueued,
          succeeded |-> s.succeeded, failures |-> s.failures]
  BY <1>1, <1>4, StatsEdits
<1>6. entry \in Stats
  BY <1>3, <1>5 DEF Stats
<1>7. stats' = [stats EXCEPT ![k] = entry]
  BY <1>0, <1>1, <1>2, <1>4
<1>8. /\ stats' \in [Connector -> Stats]
      /\ stats'[k].total = s.total /\ stats'[k].failed = m /\ stats'[k].enqueued = s.enqueued
      /\ stats'[k].succeeded = s.succeeded /\ stats'[k].failures = s.failures
      /\ \A j \in Connector : j # k => stats'[j] = stats[j]
  <2>1. /\ stats' \in [Connector -> Stats] /\ stats'[k] = entry
        /\ \A j \in Connector : j # k => stats'[j] = stats[j]
    BY <1>6, <1>7, StatsAt
  <2>2. /\ entry.total = s.total /\ entry.failed = m /\ entry.enqueued = s.enqueued
        /\ entry.succeeded = s.succeeded /\ entry.failures = s.failures
    BY <1>5
  <2> QED
    BY <2>1, <2>2
<1> QED
  BY <1>0, <1>2, <1>3, <1>8 DEF Counts, Replays

\* A failure is counted, and perhaps queued for replay.
LEMMA QueuedFacts ==
  ASSUME TypeOK, NEW k \in Connector, NEW n \in {0, 1},
         stats' = [stats EXCEPT ![k].failed = @ + 1, ![k].enqueued = IF n = 1 THEN @ + 1 ELSE @]
  PROVE  Counts(k, 0, 1) /\ Replays(k, n, 0, 0)
<1>0. PICK s : s = stats[k]
  OBVIOUS
<1>1. stats \in [Connector -> Stats] /\ s \in Stats
  BY <1>0 DEF TypeOK
<1>2. PICK m, e : m = s.failed + 1 /\ e = IF n = 1 THEN s.enqueued + 1 ELSE s.enqueued
  OBVIOUS
<1>3. /\ m \in Nat /\ e \in Nat /\ s.total \in Nat /\ s.failed \in Nat /\ s.enqueued \in Nat
      /\ s.succeeded \in Nat /\ s.failures \in Nat
  BY <1>1, <1>2, StatsAre
<1>4. PICK entry : entry = [s EXCEPT !.failed = m, !.enqueued = e]
  OBVIOUS
<1>5. entry = [total |-> s.total, failed |-> m, enqueued |-> e,
          succeeded |-> s.succeeded, failures |-> s.failures]
  BY <1>1, <1>4, EnqueuedEdit
<1>6. entry \in Stats
  BY <1>3, <1>5 DEF Stats
<1>7. stats' = [stats EXCEPT ![k] = entry]
  BY <1>0, <1>1, <1>2, <1>4
<1>8. /\ stats' \in [Connector -> Stats]
      /\ stats'[k].total = s.total /\ stats'[k].failed = m /\ stats'[k].enqueued = e
      /\ stats'[k].succeeded = s.succeeded /\ stats'[k].failures = s.failures
      /\ \A j \in Connector : j # k => stats'[j] = stats[j]
  <2>1. /\ stats' \in [Connector -> Stats] /\ stats'[k] = entry
        /\ \A j \in Connector : j # k => stats'[j] = stats[j]
    BY <1>6, <1>7, StatsAt
  <2>2. /\ entry.total = s.total /\ entry.failed = m /\ entry.enqueued = e
        /\ entry.succeeded = s.succeeded /\ entry.failures = s.failures
    BY <1>5
  <2> QED
    BY <2>1, <2>2
<1>9. m = s.failed + 1 /\ e = s.enqueued + n
  BY <1>2, <1>3
<1> QED
  BY <1>0, <1>3, <1>8, <1>9 DEF Counts, Replays

\* A replay ends well, for good, or neither.
LEMMA ReplayedFacts ==
  ASSUME TypeOK, NEW k \in Connector, NEW m \in {0, 1}, NEW n \in {0, 1},
         stats' = [stats EXCEPT ![k].succeeded = IF m = 1 THEN @ + 1 ELSE @,
                                ![k].failures = IF n = 1 THEN @ + 1 ELSE @]
  PROVE  Counts(k, 0, 0) /\ Replays(k, 0, m, n)
<1>0. PICK s : s = stats[k]
  OBVIOUS
<1>1. stats \in [Connector -> Stats] /\ s \in Stats
  BY <1>0 DEF TypeOK
<1>2. PICK u, g : /\ u = IF m = 1 THEN s.succeeded + 1 ELSE s.succeeded
                  /\ g = IF n = 1 THEN s.failures + 1 ELSE s.failures
  OBVIOUS
<1>3. /\ u \in Nat /\ g \in Nat /\ s.total \in Nat /\ s.failed \in Nat /\ s.enqueued \in Nat
      /\ s.succeeded \in Nat /\ s.failures \in Nat
  BY <1>1, <1>2, StatsAre
<1>4. PICK entry : entry = [s EXCEPT !.succeeded = u, !.failures = g]
  OBVIOUS
<1>5. entry = [total |-> s.total, failed |-> s.failed, enqueued |-> s.enqueued,
          succeeded |-> u, failures |-> g]
  BY <1>1, <1>4, ReplayedEdit
<1>6. entry \in Stats
  BY <1>3, <1>5 DEF Stats
<1>7. stats' = [stats EXCEPT ![k] = entry]
  BY <1>0, <1>1, <1>2, <1>4
<1>8. /\ stats' \in [Connector -> Stats]
      /\ stats'[k].total = s.total /\ stats'[k].failed = s.failed
      /\ stats'[k].enqueued = s.enqueued /\ stats'[k].succeeded = u /\ stats'[k].failures = g
      /\ \A j \in Connector : j # k => stats'[j] = stats[j]
  <2>1. /\ stats' \in [Connector -> Stats] /\ stats'[k] = entry
        /\ \A j \in Connector : j # k => stats'[j] = stats[j]
    BY <1>6, <1>7, StatsAt
  <2>2. /\ entry.total = s.total /\ entry.failed = s.failed /\ entry.enqueued = s.enqueued
        /\ entry.succeeded = u /\ entry.failures = g
    BY <1>5
  <2> QED
    BY <2>1, <2>2
<1>9. u = s.succeeded + m /\ g = s.failures + n
  BY <1>2, <1>3
<1> QED
  BY <1>0, <1>3, <1>8, <1>9 DEF Counts, Replays

-----------------------------------------------------------------------------
(* The calls and the connectors they are about.                            *)

CallsOK ==
  /\ status \in [Connector -> {"none", "unknown", "healthy", "degraded"}]
  /\ policy \in [Connector -> Policies]
  /\ stats \in [Connector -> Stats] /\ circuit \in [Connector -> Circuit]
  /\ pc \in [Calls -> Places]
  /\ target \in [Calls -> Connector \cup {None}]
  /\ force \in [Calls -> BOOLEAN] /\ view \in [Calls -> View]
  /\ \A k \in Connector : stats[k].failed <= stats[k].total
  /\ OneHolder /\ CallPlaces

Typed == TypeOK /\ OneHolder /\ CallPlaces /\ BatchesPending /\ Retriable

LEMMA TypedCalls ==
  ASSUME Typed
  PROVE  CallsOK /\ TypeOK
BY DEF Typed, TypeOK, CallsOK

LEMMA FailingType ==
  ASSUME Typed, NEW k \in Connector
  PROVE  Failing(k) \in Circuit
<1>1. circuit[k] \in Circuit
  BY DEF Typed, TypeOK
<1>2. circuit[k].state \in {"closed", "open", "half_open"} /\ circuit[k].failures \in 0..MaxCount
  BY <1>1 DEF Circuit
<1>3. Increment(circuit[k].failures) \in 0..MaxCount
  BY <1>2, SomeCount DEF Increment
<1> QED
  BY <1>2, <1>3 DEF Failing, Circuit

\* Nothing of a call changes, nor any counter.
LEMMA CallsUntouched ==
  ASSUME Typed, UNCHANGED <<stats, pc, target, force, view>>,
         status' \in [Connector -> {"none", "unknown", "healthy", "degraded"}],
         policy' \in [Connector -> Policies], circuit' \in [Connector -> Circuit]
  PROVE  CallsOK'
BY TypedCalls DEF CallsOK, OneHolder, Holds, CallPlaces

\* A call begins to hold the lock, or goes on without it, after counting its request.
LEMMA EnterCounts ==
  ASSUME Typed, NEW c \in Calls, NEW k \in Connector, NEW to \in {"failing", "checking", "checked"},
         Enter(c, to), Count(k), target' = [target EXCEPT ![c] = k],
         UNCHANGED <<policy, circuit, force, view>>,
         status' \in [Connector -> {"none", "unknown", "healthy", "degraded"}]
  PROVE  CallsOK'
<1>0. CallsOK /\ TypeOK
  BY TypedCalls
<1>1. Counts(k, 1, 0)
  BY <1>0, CountFacts
<1>2. /\ pc' = [pc EXCEPT ![c] = to] /\ \A d \in Calls : ~Holds(d)
  BY DEF Enter, LockFree
<1>3. pc' \in [Calls -> Places]
  BY <1>0, <1>2 DEF CallsOK, Places, Reading
<1>4. target' \in [Calls -> Connector \cup {None}]
  BY <1>0 DEF CallsOK
<1>5. \A d \in Calls : d # c => pc'[d] = pc[d] /\ target'[d] = target[d]
  BY <1>0, <1>2 DEF CallsOK
<1>6. pc'[c] = to /\ target'[c] = k
  BY <1>0, <1>2 DEF CallsOK
<1>7. OneHolder'
  BY <1>2, <1>5 DEF OneHolder, Holds
<1>8. \A j \in Connector : /\ stats[j].failed \in Nat /\ stats[j].total \in Nat
                           /\ stats[j].failed <= stats[j].total
  BY <1>0, StatsAre DEF CallsOK
<1>9. \A j \in Connector : stats'[j].failed <= stats'[j].total
  BY <1>1, <1>8 DEF Counts
<1>10. CallPlaces'
  <2>1. stats'[k].failed < stats'[k].total
    BY <1>1, <1>8 DEF Counts
  <2>2. ASSUME NEW d \in Calls, d # c
        PROVE  /\ pc'[d] \notin {"idle", "processing"} => target'[d] \in Connector
               /\ pc'[d] \notin {"failing", "checking"}
               /\ pc'[d] \in Reading => view'[d].policy \in Policies
    BY <1>0, <1>2, <1>5, <2>2 DEF CallsOK, CallPlaces, Holds
  <2> QED
    BY <1>6, <2>1, <2>2 DEF CallPlaces, Reading
<1>11. policy' \in [Connector -> Policies] /\ circuit' \in [Connector -> Circuit]
       /\ force' \in [Calls -> BOOLEAN] /\ view' \in [Calls -> View]
  BY <1>0 DEF CallsOK
<1> QED
  BY <1>1, <1>3, <1>4, <1>7, <1>9, <1>10, <1>11 DEF CallsOK, Counts

\* The call that holds the lock counts its failure and lets it go.
LEMMA LeaveCounts ==
  ASSUME Typed, NEW c \in Calls, NEW from \in {"failing", "checking"}, NEW to \in {"idle", "checked"},
         Moves(c, from, to), Counts(target[c], 0, 1),
         NEW g \in {target[c], None}, target' = [target EXCEPT ![c] = g], to # "idle" => g = target[c],
         UNCHANGED <<policy, force, view>>,
         status' \in [Connector -> {"none", "unknown", "healthy", "degraded"}],
         circuit' \in [Connector -> Circuit]
  PROVE  CallsOK'
<1>0. CallsOK /\ TypeOK
  BY TypedCalls
<1> DEFINE k == target[c]
<1>1. pc[c] = from /\ pc' = [pc EXCEPT ![c] = to]
  BY DEF Moves
<1>2. k \in Connector /\ stats[k].failed < stats[k].total
  BY <1>0, <1>1 DEF CallsOK, CallPlaces
<1>3. pc' \in [Calls -> Places]
  BY <1>0, <1>1 DEF CallsOK, Places, Reading
<1>4. target' \in [Calls -> Connector \cup {None}]
  BY <1>0 DEF CallsOK
<1>5. \A d \in Calls : d # c => pc'[d] = pc[d] /\ target'[d] = target[d]
  BY <1>0, <1>1 DEF CallsOK
<1>6. pc'[c] = to /\ (to = "checked" => target'[c] = k)
  BY <1>0, <1>1 DEF CallsOK
<1>7. \A d \in Calls : d # c => ~Holds(d)
  BY <1>0, <1>1 DEF CallsOK, OneHolder, Holds
<1>8. OneHolder'
  BY <1>5, <1>6, <1>7 DEF OneHolder, Holds
<1>9. \A j \in Connector : /\ stats[j].failed \in Nat /\ stats[j].total \in Nat
                           /\ stats[j].failed <= stats[j].total
  BY <1>0, StatsAre DEF CallsOK
<1>10. \A j \in Connector : stats'[j].failed <= stats'[j].total
  BY <1>2, <1>9 DEF Counts
<1>11. CallPlaces'
  <2>1. ASSUME NEW d \in Calls, d # c
        PROVE  /\ pc'[d] \notin {"idle", "processing"} => target'[d] \in Connector
               /\ pc'[d] \notin {"failing", "checking"}
               /\ pc'[d] \in Reading => view'[d].policy \in Policies
    BY <1>0, <1>5, <1>7, <2>1 DEF CallsOK, CallPlaces, Holds
  <2> QED
    BY <1>2, <1>6, <2>1 DEF CallPlaces, Reading
<1>12. policy' \in [Connector -> Policies] /\ force' \in [Calls -> BOOLEAN] /\ view' \in [Calls -> View]
  BY <1>0 DEF CallsOK
<1> QED
  BY <1>3, <1>4, <1>8, <1>10, <1>11, <1>12 DEF CallsOK, Counts

\* A call moves from one place outside the lock to another.
LEMMA WalkKeeps ==
  ASSUME Typed, NEW c \in Calls, NEW from, NEW to \in {"idle", "read"} \cup Reading, Moves(c, from, to),
         from \in {"checked", "read"} \cup Reading,
         NEW g \in {target[c], None}, target' = [target EXCEPT ![c] = g], to # "idle" => g = target[c],
         NEW v \in View, view' = [view EXCEPT ![c] = v], to \in Reading => v.policy \in Policies,
         UNCHANGED <<status, policy, stats, circuit, force>>
  PROVE  CallsOK'
<1>0. CallsOK /\ TypeOK
  BY TypedCalls
<1>1. pc[c] = from /\ pc' = [pc EXCEPT ![c] = to]
  BY DEF Moves
<1>2. pc' \in [Calls -> Places]
  BY <1>0, <1>1 DEF CallsOK, Places, Reading
<1>3. target' \in [Calls -> Connector \cup {None}] /\ view' \in [Calls -> View]
  BY <1>0 DEF CallsOK
<1>4. \A d \in Calls : d # c => pc'[d] = pc[d] /\ target'[d] = target[d] /\ view'[d] = view[d]
  BY <1>0, <1>1 DEF CallsOK
<1>5. pc'[c] = to /\ view'[c] = v /\ (to # "idle" => target'[c] = target[c])
  BY <1>0, <1>1 DEF CallsOK
<1>6. target[c] \in Connector
  BY <1>0, <1>1 DEF CallsOK, CallPlaces, Reading
<1>7. OneHolder'
  BY <1>0, <1>1, <1>4, <1>5 DEF CallsOK, OneHolder, Holds, Reading
<1>8. CallPlaces'
  <2>1. ASSUME NEW d \in Calls, d # c
        PROVE  /\ pc'[d] \notin {"idle", "processing"} => target'[d] \in Connector
               /\ pc'[d] \in {"failing", "checking"} => stats'[target'[d]].failed < stats'[target'[d]].total
               /\ pc'[d] \in Reading => view'[d].policy \in Policies
    BY <1>0, <1>4, <2>1 DEF CallsOK, CallPlaces
  <2> QED
    BY <1>5, <1>6, <2>1 DEF CallPlaces, Reading
<1> QED
  BY <1>0, <1>2, <1>3, <1>7, <1>8 DEF CallsOK

\* The replay of the queue takes the lock and lets it go.
LEMMA ReplayingKeeps ==
  ASSUME Typed, NEW c \in Calls, NEW f \in BOOLEAN, force' = [force EXCEPT ![c] = f],
         \/ Enter(c, "processing")
         \/ Moves(c, "processing", "idle"),
         UNCHANGED <<status, policy, stats, circuit, target, view>>
  PROVE  CallsOK'
<1>0. CallsOK /\ TypeOK
  BY TypedCalls
<1>1. PICK to \in {"processing", "idle"} :
        /\ pc' = [pc EXCEPT ![c] = to]
        /\ \A d \in Calls : d # c => ~Holds(d)
  <2>1. CASE Enter(c, "processing")
    BY <2>1 DEF Enter, LockFree
  <2>2. CASE Moves(c, "processing", "idle")
    BY <1>0, <2>2 DEF Moves, CallsOK, OneHolder, Holds
  <2> QED
    BY <2>1, <2>2
<1>2. pc' \in [Calls -> Places]
  BY <1>0, <1>1 DEF CallsOK, Places, Reading
<1>3. pc'[c] = to /\ \A d \in Calls : d # c => pc'[d] = pc[d]
  BY <1>0, <1>1 DEF CallsOK
<1>4. force' \in [Calls -> BOOLEAN]
  BY <1>0 DEF CallsOK
<1>5. OneHolder'
  BY <1>1, <1>3 DEF OneHolder, Holds
<1>6. CallPlaces'
  BY <1>0, <1>1, <1>3 DEF CallsOK, CallPlaces, Reading
<1> QED
  BY <1>0, <1>2, <1>4, <1>5, <1>6 DEF CallsOK

\* A replay changes neither requests nor failures.
LEMMA ReplayCalls ==
  ASSUME Typed, NEW k \in Connector, Counts(k, 0, 0),
         UNCHANGED <<policy, pc, target, force, view>>,
         status' \in [Connector -> {"none", "unknown", "healthy", "degraded"}],
         circuit' \in [Connector -> Circuit]
  PROVE  CallsOK'
<1>0. CallsOK /\ TypeOK
  BY TypedCalls
<1>1. \A j \in Connector : /\ stats[j].failed \in Nat /\ stats[j].total \in Nat
                           /\ stats[j].failed <= stats[j].total
  BY <1>0, StatsAre DEF CallsOK
<1>2. /\ stats' \in [Connector -> Stats]
      /\ \A j \in Connector : stats'[j].failed = stats[j].failed /\ stats'[j].total = stats[j].total
  BY <1>1 DEF Counts
<1>3. OneHolder'
  BY <1>0 DEF CallsOK, OneHolder, Holds
<1>4. CallPlaces'
  BY <1>0, <1>2 DEF CallsOK, CallPlaces
<1> QED
  BY <1>0, <1>1, <1>2, <1>3, <1>4 DEF CallsOK

-----------------------------------------------------------------------------
(* The queue of operations to replay.                                      *)

Items(k, s) == {i \in DOMAIN queue : queue[i].connector = k /\ queue[i].status = s}

QueueOK ==
  /\ queue \in Seq(Item) /\ batch \in [Calls -> Seq(Nat)]
  /\ \A c \in Calls : \A n \in DOMAIN batch[c] : batch[c][n] \in DOMAIN queue
  /\ \A i \in DOMAIN queue : \E p \in Policies : queue[i].attempts <= p.retries + 1
  /\ BatchesPending /\ Retriable

LEMMA TypedQueue ==
  ASSUME Typed
  PROVE  QueueOK
BY DEF Typed, TypeOK, QueueOK

LEMMA ItemsFinite ==
  ASSUME TypeOK, NEW k, NEW s
  PROVE  IsFiniteSet(Items(k, s)) /\ Cardinality(Items(k, s)) \in Nat
<1>1. Len(queue) \in Nat /\ DOMAIN queue = 1..Len(queue)
  BY ListFacts
<1>2. IsFiniteSet(1..Len(queue)) /\ Items(k, s) \in SUBSET (1..Len(queue))
  BY <1>1, FS_Interval DEF Items
<1>3. IsFiniteSet(Items(k, s))
  BY <1>2, FS_Subset
<1> QED
  BY <1>3, FS_CardinalityType

\* ReplaysAccounted, in terms of Items.
Accounts ==
  \A k \in Connector :
    /\ stats[k].succeeded = Cardinality(Items(k, "succeeded"))
    /\ stats[k].failures = Cardinality(Items(k, "failed"))
    /\ stats[k].enqueued = Cardinality(Items(k, "pending")) + Cardinality(Items(k, "succeeded"))
                             + Cardinality(Items(k, "failed"))

LEMMA AccountsAre == ReplaysAccounted <=> Accounts
BY DEF ReplaysAccounted, Accounts, Items

\* A step that leaves the queue and the replay counters alone.
LEMMA AccountsUntouched ==
  ASSUME Accounts, queue' = queue, NEW k, TypeOK,
         stats' = stats \/ Replays(k, 0, 0, 0)
  PROVE  Accounts'
<1>1. \A j, s : Items(j, s)' = Items(j, s)
  BY DEF Items
<1>2. \A j \in Connector : /\ stats'[j].enqueued = stats[j].enqueued
                           /\ stats'[j].succeeded = stats[j].succeeded
                           /\ stats'[j].failures = stats[j].failures
  <2>1. ASSUME NEW j \in Connector
        PROVE  stats[j].enqueued \in Nat /\ stats[j].succeeded \in Nat /\ stats[j].failures \in Nat
    <3>1. stats[j] \in Stats
      BY DEF TypeOK
    <3> QED
      BY <3>1, StatsAre
  <2> QED
    BY <2>1 DEF Replays
<1> QED
  BY <1>1, <1>2 DEF Accounts

\* An operation is queued.
LEMMA AppendAccounts ==
  ASSUME Accounts, TypeOK, NEW k \in Connector,
         queue' = Append(queue, [connector |-> k, attempts |-> 0, status |-> "pending"]),
         Replays(k, 1, 0, 0)
  PROVE  /\ Accounts' /\ queue' \in Seq(Item) /\ DOMAIN queue \subseteq DOMAIN queue'
         /\ \A i \in DOMAIN queue : queue'[i] = queue[i]
         /\ \A i \in DOMAIN queue' : i \notin DOMAIN queue => queue'[i].attempts = 0
<1> DEFINE item == [connector |-> k, attempts |-> 0, status |-> "pending"]
           n == Len(queue) + 1
<1>1. queue \in Seq(Item) /\ Len(queue) \in Nat /\ DOMAIN queue = 1..Len(queue)
  BY ListFacts DEF TypeOK
<1>2. item \in Item /\ item.connector = k /\ item.attempts = 0 /\ item.status = "pending"
  BY DEF Item
<1>3. queue' = Append(queue, item)
  OBVIOUS
<1> HIDE DEF item
<1>4. /\ queue' \in Seq(Item) /\ Len(queue') = Len(queue) + 1
      /\ \A i \in 1..Len(queue) : queue'[i] = queue[i]
      /\ queue'[n] = item
  BY <1>1, <1>2, <1>3, AppendProperties
<1>5. DOMAIN queue' = DOMAIN queue \cup {n} /\ n \notin DOMAIN queue
  <2>1. DOMAIN queue' = 1..(Len(queue) + 1)
    BY <1>4, LenProperties
  <2>2. 1..(Len(queue) + 1) = 1..Len(queue) \cup {Len(queue) + 1} /\ Len(queue) + 1 \notin 1..Len(queue)
    BY <1>1
  <2> QED
    BY <1>1, <2>1, <2>2
<1> HIDE DEF n
<1>6. \A j, s : Items(j, s)' = IF j = k /\ s = "pending" THEN Items(j, s) \cup {n} ELSE Items(j, s)
  <2> TAKE j, s
  <2>1. \A i \in DOMAIN queue : i # n /\ queue'[i] = queue[i]
    BY <1>1, <1>4, <1>5
  <2>2. Items(j, s)' = {i \in DOMAIN queue' : queue'[i].connector = j /\ queue'[i].status = s}
    BY DEF Items
  <2>3. n \in Items(j, s)' <=> j = k /\ s = "pending"
    BY <1>2, <1>4, <1>5, <2>2
  <2>4. \A i \in DOMAIN queue : i \in Items(j, s)' <=> i \in Items(j, s)
    BY <1>5, <2>1, <2>2 DEF Items
  <2>5. Items(j, s)' \subseteq DOMAIN queue \cup {n} /\ Items(j, s) \subseteq DOMAIN queue
    BY <1>5, <2>2 DEF Items
  <2> DEFINE before == Items(j, s)
             after == Items(j, s)'
  <2> HIDE DEF before, after
  <2>6. CASE j = k /\ s = "pending"
    <3>1. after = before \cup {n}
      BY <2>3, <2>4, <2>5, <2>6 DEF before, after
    <3> QED
      BY <2>6, <3>1 DEF before, after
  <2>7. CASE ~(j = k /\ s = "pending")
    <3>1. after = before
      BY <1>5, <2>3, <2>4, <2>5, <2>7 DEF before, after
    <3> QED
      BY <2>7, <3>1 DEF before, after
  <2> QED
    BY <2>6, <2>7
<1>7. \A j, s : n \notin Items(j, s)
  BY <1>5 DEF Items
<1>8. Cardinality(Items(k, "pending") \cup {n}) = Cardinality(Items(k, "pending")) + 1
  BY <1>7, ItemsFinite, FS_AddElement
<1>9. ASSUME NEW j \in Connector
      PROVE  /\ stats'[j].succeeded = Cardinality(Items(j, "succeeded")')
             /\ stats'[j].failures = Cardinality(Items(j, "failed")')
             /\ stats'[j].enqueued = Cardinality(Items(j, "pending")')
                  + Cardinality(Items(j, "succeeded")') + Cardinality(Items(j, "failed")')
  <2> DEFINE u == Cardinality(Items(j, "pending"))
             v == Cardinality(Items(j, "succeeded"))
             w == Cardinality(Items(j, "failed"))
  <2>1. u \in Nat /\ v \in Nat /\ w \in Nat
    BY ItemsFinite
  <2>2. stats[j].succeeded = v /\ stats[j].failures = w /\ stats[j].enqueued = u + v + w
    BY DEF Accounts
  <2>3. Cardinality(Items(j, "succeeded")') = v /\ Cardinality(Items(j, "failed")') = w
    BY <1>6
  <2>4. Cardinality(Items(j, "pending")') = IF j = k THEN u + 1 ELSE u
    BY <1>6, <1>8
  <2> HIDE DEF u, v, w
  <2>5. /\ stats'[j].succeeded = v /\ stats'[j].failures = w
        /\ stats'[j].enqueued = IF j = k THEN u + v + w + 1 ELSE u + v + w
    BY <2>1, <2>2 DEF Replays
  <2> QED
    BY <2>1, <2>3, <2>4, <2>5
<1>10. Accounts'
  BY <1>9 DEF Accounts
<1> QED
  BY <1>1, <1>2, <1>4, <1>5, <1>10

\* The item i has been tried once more and is now in status s.
Tried(i, s) ==
  /\ queue' \in Seq(Item) /\ DOMAIN queue' = DOMAIN queue
  /\ \A j \in DOMAIN queue : j # i => queue'[j] = queue[j]
  /\ queue'[i].connector = queue[i].connector
  /\ queue'[i].attempts = queue[i].attempts + 1 /\ queue'[i].status = s

LEMMA TriedAccounts ==
  ASSUME Accounts, TypeOK, NEW i \in Pending, NEW k, k = queue[i].connector, k \in Connector,
         NEW s \in {"pending", "succeeded", "failed"}, Tried(i, s),
         Replays(k, 0, IF s = "succeeded" THEN 1 ELSE 0, IF s = "failed" THEN 1 ELSE 0)
  PROVE  Accounts'
<1>1. i \in DOMAIN queue /\ queue[i].status = "pending"
  BY DEF Pending
<1>2. \A j, t : Items(j, t)' = IF j # k THEN Items(j, t)
                               ELSE IF t = s THEN Items(j, t) \cup {i}
                               ELSE IF t = "pending" THEN Items(j, t) \ {i}
                               ELSE Items(j, t)
  <2> TAKE j, t
  <2>1. Items(j, t)' = {x \in DOMAIN queue : queue'[x].connector = j /\ queue'[x].status = t}
    BY DEF Items, Tried
  <2>2. \A x \in DOMAIN queue : x # i => (x \in Items(j, t)' <=> x \in Items(j, t))
    BY <2>1 DEF Items, Tried
  <2>3. i \in Items(j, t)' <=> j = k /\ t = s
    BY <1>1, <2>1 DEF Tried
  <2>4. i \in Items(j, t) <=> j = k /\ t = "pending"
    BY <1>1 DEF Items
  <2>5. Items(j, t)' \subseteq DOMAIN queue /\ Items(j, t) \subseteq DOMAIN queue
    BY <2>1 DEF Items
  <2> QED
    BY <2>2, <2>3, <2>4, <2>5
<1>3. i \in Items(k, "pending") /\ \A t : t # "pending" => i \notin Items(k, t)
  BY <1>1 DEF Items
<1>4. Cardinality(Items(k, "pending") \ {i}) = Cardinality(Items(k, "pending")) - 1
  BY <1>3, ItemsFinite, FS_RemoveElement
<1>5. s # "pending" => Cardinality(Items(k, s) \cup {i}) = Cardinality(Items(k, s)) + 1
  BY <1>3, ItemsFinite, FS_AddElement
<1>6. Items(k, "pending") \cup {i} = Items(k, "pending")
  BY <1>3
<1>7. ASSUME NEW j \in Connector
      PROVE  /\ stats'[j].succeeded = Cardinality(Items(j, "succeeded")')
             /\ stats'[j].failures = Cardinality(Items(j, "failed")')
             /\ stats'[j].enqueued = Cardinality(Items(j, "pending")')
                  + Cardinality(Items(j, "succeeded")') + Cardinality(Items(j, "failed")')
  <2> DEFINE u == Cardinality(Items(j, "pending"))
             v == Cardinality(Items(j, "succeeded"))
             w == Cardinality(Items(j, "failed"))
             u1 == Cardinality(Items(j, "pending")')
             v1 == Cardinality(Items(j, "succeeded")')
             w1 == Cardinality(Items(j, "failed")')
  <2>1. u \in Nat /\ v \in Nat /\ w \in Nat
    BY ItemsFinite
  <2>2. stats[j].succeeded = v /\ stats[j].failures = w /\ stats[j].enqueued = u + v + w
    BY DEF Accounts
  <2>3. CASE j # k
    <3>1. u1 = u /\ v1 = v /\ w1 = w
      BY <1>2, <2>3
    <3> HIDE DEF u, v, w, u1, v1, w1
    <3>2. /\ stats'[j].succeeded = stats[j].succeeded /\ stats'[j].failures = stats[j].failures
          /\ stats'[j].enqueued = stats[j].enqueued
      BY <2>3 DEF Replays
    <3>3. stats'[j].succeeded = v1 /\ stats'[j].failures = w1 /\ stats'[j].enqueued = u1 + v1 + w1
      BY <2>2, <3>1, <3>2
    <3> QED
      BY <3>3 DEF u1, v1, w1
  <2>4. CASE j = k /\ s = "pending"
    <3>1. u1 = u /\ v1 = v /\ w1 = w
      BY <1>2, <1>6, <2>4
    <3> HIDE DEF u, v, w, u1, v1, w1
    <3>2. /\ stats'[j].succeeded = v /\ stats'[j].failures = w /\ stats'[j].enqueued = u + v + w
      BY <2>1, <2>2, <2>4 DEF Replays
    <3>3. stats'[j].succeeded = v1 /\ stats'[j].failures = w1 /\ stats'[j].enqueued = u1 + v1 + w1
      BY <3>1, <3>2
    <3> QED
      BY <3>3 DEF u1, v1, w1
  <2>5. CASE j = k /\ s = "succeeded"
    <3>1. u1 = u - 1 /\ v1 = v + 1 /\ w1 = w
      BY <1>2, <1>4, <1>5, <2>5
    <3> HIDE DEF u, v, w, u1, v1, w1
    <3>2. stats'[j].succeeded = v + 1 /\ stats'[j].failures = w /\ stats'[j].enqueued = u + v + w
      BY <2>1, <2>2, <2>5 DEF Replays
    <3>3. stats'[j].succeeded = v1 /\ stats'[j].failures = w1 /\ stats'[j].enqueued = u1 + v1 + w1
      BY <2>1, <3>1, <3>2
    <3> QED
      BY <3>3 DEF u1, v1, w1
  <2>6. CASE j = k /\ s = "failed"
    <3>1. u1 = u - 1 /\ v1 = v /\ w1 = w + 1
      BY <1>2, <1>4, <1>5, <2>6
    <3> HIDE DEF u, v, w, u1, v1, w1
    <3>2. stats'[j].succeeded = v /\ stats'[j].failures = w + 1 /\ stats'[j].enqueued = u + v + w
      BY <2>1, <2>2, <2>6 DEF Replays
    <3>3. stats'[j].succeeded = v1 /\ stats'[j].failures = w1 /\ stats'[j].enqueued = u1 + v1 + w1
      BY <2>1, <3>1, <3>2
    <3> QED
      BY <3>3 DEF u1, v1, w1
  <2> QED
    BY <2>3, <2>4, <2>5, <2>6
<1> QED
  BY <1>7 DEF Accounts

LEMMA RetriesType ==
  ASSUME NEW p \in Policies
  PROVE  p.retries \in 0..10 /\ p.retries \in Int
<1>1. p \in PolicySpace
  BY ConnectorsAssumption
<1>2. p.retries \in 0..10
  BY <1>1 DEF PolicySpace
<1> QED
  BY <1>2

\* What replaying an item does, but for the alerts.
LEMMA ReplayFacts ==
  ASSUME Typed, NEW i \in Pending, NEW forced, ReplayItem(i, forced)
  PROVE  LET k == queue[i].connector
         IN /\ k \in Connector
            /\ status' \in [Connector -> {"none", "unknown", "healthy", "degraded"}]
            /\ circuit' \in [Connector -> Circuit]
            /\ Counts(k, 0, 0)
            /\ \E s \in {"pending", "succeeded", "failed"} :
                 /\ Tried(i, s)
                 /\ Replays(k, 0, IF s = "succeeded" THEN 1 ELSE 0, IF s = "failed" THEN 1 ELSE 0)
                 /\ s = "pending" => queue[i].attempts + 1 <= policy[k].retries
<1> DEFINE k == queue[i].connector
           tries == queue[i].attempts + 1
           success == forced \/ status[k] = "healthy"
           gone == GivenUp(k, tries)
           s == IF success THEN "succeeded" ELSE IF gone THEN "failed" ELSE "pending"
<1>0. CallsOK /\ TypeOK /\ QueueOK
  BY TypedCalls, TypedQueue
<1>1. i \in DOMAIN queue /\ queue[i] \in Item /\ queue \in Seq(Item) /\ DOMAIN queue = 1..Len(queue)
  BY <1>0, ListFacts DEF Pending, TypeOK
<1>2. k \in Connector /\ queue[i].attempts \in 0..11
  BY <1>1 DEF Item
<1>3. PICK p \in Policies : queue[i].attempts <= p.retries
  BY <1>0 DEF QueueOK, Retriable
<1>4. tries \in 0..11
  <2>1. p.retries \in 0..10
    BY RetriesType
  <2> QED
    BY <1>2, <1>3, <2>1
<1>5. status' \in [Connector -> {"none", "unknown", "healthy", "degraded"}]
  <2>1. \E t \in {"healthy", "degraded"} : status' = [status EXCEPT ![k] = t]
    BY DEF ReplayItem
  <2> QED
    BY <1>0, <2>1 DEF CallsOK
<1>6. circuit' \in [Connector -> Circuit]
  <2>1. circuit' = [circuit EXCEPT ![k] = IF success THEN [state |-> "closed", failures |-> 0] ELSE Failing(k)]
    BY DEF ReplayItem
  <2>2. [state |-> "closed", failures |-> 0] \in Circuit
    BY SomeCount DEF Circuit
  <2>3. Failing(k) \in Circuit
    BY <1>2, FailingType
  <2> HIDE DEF k, success
  <2> QED
    BY <1>0, <2>1, <2>2, <2>3 DEF CallsOK
<1>7. Counts(k, 0, 0) /\ Replays(k, 0, IF s = "succeeded" THEN 1 ELSE 0, IF s = "failed" THEN 1 ELSE 0)
  <2> DEFINE m == IF s = "succeeded" THEN 1 ELSE 0
             n == IF s = "failed" THEN 1 ELSE 0
  <2>1. stats' = [stats EXCEPT ![k].succeeded = IF success THEN @ + 1 ELSE @,
                               ![k].failures = IF ~success /\ gone THEN @ + 1 ELSE @]
    BY DEF ReplayItem
  <2>2. (m = 1 <=> success) /\ (n = 1 <=> ~success /\ gone)
    OBVIOUS
  <2>3. m \in {0, 1} /\ n \in {0, 1}
    OBVIOUS
  <2> HIDE DEF m, n, k, success, gone
  <2>4. stats' = [stats EXCEPT ![k].succeeded = IF m = 1 THEN @ + 1 ELSE @,
                               ![k].failures = IF n = 1 THEN @ + 1 ELSE @]
    BY <2>1, <2>2
  <2>5. Counts(k, 0, 0) /\ Replays(k, 0, m, n)
    BY <1>0, <1>2, <2>3, <2>4, ReplayedFacts
  <2> QED
    BY <2>5 DEF m, n
<1>8. Tried(i, s)
  <2> DEFINE q == queue[i]
             e == [q EXCEPT !.attempts = tries, !.status = s]
  <2>1. queue' = [queue EXCEPT ![i].attempts = tries, ![i].status = s]
    BY DEF ReplayItem
  <2>2. s \in {"pending", "succeeded", "failed"}
    OBVIOUS
  <2> HIDE DEF s, tries
  <2>3. queue' = [queue EXCEPT ![i] = e]
    BY <1>1, <2>1
  <2>4. e \in Item /\ e.connector = queue[i].connector /\ e.attempts = tries /\ e.status = s
    <3> HIDE DEF q
    <3>1. e = [[q EXCEPT !.attempts = tries] EXCEPT !.status = s]
      OBVIOUS
    <3>2. q \in Item
      BY <1>1 DEF q
    <3> DEFINE d == [q EXCEPT !.attempts = tries]
    <3>3. d \in Item /\ d.connector = q.connector /\ d.attempts = tries
      BY <1>4, <3>2 DEF Item
    <3> HIDE DEF d
    <3>4. /\ [d EXCEPT !.status = s] \in Item /\ [d EXCEPT !.status = s].connector = d.connector
          /\ [d EXCEPT !.status = s].attempts = d.attempts /\ [d EXCEPT !.status = s].status = s
      BY <2>2, <3>3 DEF Item
    <3>5. e = [d EXCEPT !.status = s]
      BY <3>1 DEF d
    <3> HIDE DEF e
    <3> QED
      BY <3>3, <3>4, <3>5 DEF q
  <2> HIDE DEF e
  <2>5. /\ queue' \in Seq(Item) /\ Len(queue') = Len(queue)
        /\ \A j \in 1..Len(queue) : queue'[j] = IF j = i THEN e ELSE queue[j]
    BY <1>1, <2>3, <2>4, ExceptSeq
  <2>6. DOMAIN queue' = DOMAIN queue
    BY <1>1, <2>5, LenProperties
  <2> QED
    BY <1>1, <2>4, <2>5, <2>6 DEF Tried, tries
<1>9. s = "pending" => tries <= policy[k].retries
  <2>1. policy[k].retries \in Int
    <3>1. policy[k] \in Policies
      BY <1>0, <1>2 DEF CallsOK
    <3> QED
      BY <3>1, RetriesType
  <2>2. s = "pending" => ~(tries > policy[k].retries)
    BY DEF GivenUp
  <2> HIDE DEF s, tries, k
  <2>3. tries \in Int
    BY <1>4
  <2> QED
    BY <2>1, <2>2, <2>3
<1>10. s \in {"pending", "succeeded", "failed"}
  OBVIOUS
<1> HIDE DEF s
<1> QED
  BY <1>2, <1>5, <1>6, <1>7, <1>8, <1>9, <1>10 DEF tries, k

\* A step that leaves the queue and the batches alone, and starts no batch.
LEMMA QueueUntouched ==
  ASSUME QueueOK, queue' = queue, batch' = batch,
         \A c \in Calls : pc'[c] = "processing" => pc[c] = "processing"
  PROVE  QueueOK'
<1>1. Pending' = Pending
  BY DEF Pending
<1>2. Retriable' /\ BatchesPending'
  BY <1>1 DEF QueueOK, Retriable, BatchesPending
<1> QED
  BY <1>2 DEF QueueOK

\* An operation is queued.
LEMMA QueueGrows ==
  ASSUME QueueOK, queue' \in Seq(Item), DOMAIN queue \subseteq DOMAIN queue', batch' = batch,
         \A i \in DOMAIN queue : queue'[i] = queue[i],
         \A i \in DOMAIN queue' : i \notin DOMAIN queue => queue'[i].attempts = 0,
         \A c \in Calls : pc'[c] = "processing" => pc[c] = "processing"
  PROVE  QueueOK'
<1>0. DefaultPolicy \in Policies /\ DefaultPolicy.retries \in 0..10
  BY ConnectorsAssumption DEF PolicySpace
<1>1. \A i \in DOMAIN queue' : \E p \in Policies : queue'[i].attempts <= p.retries + 1
  <2>1. ASSUME NEW i \in DOMAIN queue', i \notin DOMAIN queue
        PROVE  queue'[i].attempts <= DefaultPolicy.retries + 1
    BY <1>0, <2>1
  <2> QED
    BY <1>0, <2>1 DEF QueueOK
<1>2. \A i \in Pending' : i \in Pending \/ queue'[i].attempts = 0
  BY DEF Pending
<1>3. Retriable'
  <2>1. ASSUME NEW i \in Pending', i \notin Pending
        PROVE  queue'[i].attempts <= DefaultPolicy.retries
    BY <1>0, <1>2, <2>1
  <2>2. ASSUME NEW i \in Pending
        PROVE  queue'[i] = queue[i]
    BY DEF Pending
  <2> QED
    BY <1>0, <2>1, <2>2 DEF QueueOK, Retriable
<1>4. Pending \subseteq Pending'
  BY DEF Pending
<1>5. BatchesPending'
  BY <1>4 DEF QueueOK, BatchesPending
<1> QED
  BY <1>1, <1>3, <1>5 DEF QueueOK

\* An item is tried, which no batch has yet to process.
LEMMA QueueTried ==
  ASSUME Typed, NEW i \in Pending, NEW s \in {"pending", "succeeded", "failed"}, Tried(i, s),
         s = "pending" => \E p \in Policies : queue[i].attempts + 1 <= p.retries,
         batch' \in [Calls -> Seq(Nat)],
         \A c \in Calls : \A n \in DOMAIN batch'[c] : batch'[c][n] \in DOMAIN queue,
         \A c \in Calls : pc'[c] = "processing" =>
           /\ \A n \in DOMAIN batch'[c] : batch'[c][n] \in Pending \ {i}
           /\ \A m, n \in DOMAIN batch'[c] : m < n => batch'[c][m] < batch'[c][n]
  PROVE  QueueOK'
<1>0. QueueOK
  BY TypedQueue
<1>1. \A j \in DOMAIN queue' : \E p \in Policies : queue'[j].attempts <= p.retries + 1
  <2>1. PICK p \in Policies : queue[i].attempts <= p.retries
    BY <1>0 DEF QueueOK, Retriable
  <2>2. queue[i].attempts \in Int /\ p.retries \in Int
    <3>1. queue[i] \in Item
      BY ListFacts DEF Typed, Pending
    <3>2. queue[i].attempts \in 0..11
      BY <3>1 DEF Item
    <3> QED
      BY <3>2, RetriesType
  <2>3. queue'[i].attempts <= p.retries + 1
    BY <2>1, <2>2 DEF Tried
  <2> QED
    BY <1>0, <2>3 DEF QueueOK, Tried
<1>2. Pending \ {i} \subseteq Pending'
  BY DEF Pending, Tried
<1>3. \A j \in Pending' : (j \in Pending /\ j # i /\ queue'[j] = queue[j]) \/ (j = i /\ s = "pending")
  BY DEF Pending, Tried
<1>4. Retriable'
  <2>1. ASSUME NEW j \in Pending'
        PROVE  \E p \in Policies : queue'[j].attempts <= p.retries
    <3>1. CASE j = i /\ s = "pending"
      BY <3>1 DEF Tried
    <3>2. CASE j \in Pending /\ queue'[j] = queue[j]
      BY <1>0, <3>2 DEF QueueOK, Retriable
    <3> QED
      BY <1>3, <2>1, <3>1, <3>2
  <2> QED
    BY <2>1 DEF Retriable
<1>5. BatchesPending'
  BY <1>2 DEF BatchesPending
<1> QED
  BY <1>1, <1>4, <1>5 DEF QueueOK, Tried

\* The rest of a batch.
LEMMA TailFacts ==
  ASSUME Typed, NEW c \in Calls, pc[c] = "processing", batch[c] # <<>>,
         batch' = [batch EXCEPT ![c] = Tail(@)], pc' = pc
  PROVE  /\ batch' \in [Calls -> Seq(Nat)]
         /\ \A d \in Calls : \A n \in DOMAIN batch'[d] : batch'[d][n] \in DOMAIN queue
         /\ Head(batch[c]) \in Pending
         /\ \A d \in Calls : pc'[d] = "processing" =>
              /\ \A n \in DOMAIN batch'[d] : batch'[d][n] \in Pending \ {Head(batch[c])}
              /\ \A m, n \in DOMAIN batch'[d] : m < n => batch'[d][m] < batch'[d][n]
<1> DEFINE old == batch[c]
           new == Tail(old)
<1>0. CallsOK /\ TypeOK /\ QueueOK
  BY TypedCalls, TypedQueue
<1>1. batch \in [Calls -> Seq(Nat)] /\ old \in Seq(Nat) /\ old # <<>>
  BY <1>0 DEF QueueOK
<1>2. Len(old) \in Nat /\ Len(old) # 0 /\ DOMAIN old = 1..Len(old) /\ \A n \in 1..Len(old) : old[n] \in Nat
  BY <1>1, LenProperties, EmptySeq, ElementOfSeq
<1>3. /\ new \in Seq(Nat) /\ Len(new) = Len(old) - 1
      /\ \A n \in 1..Len(new) : new[n] = old[n + 1]
  BY <1>1, HeadTailProperties
<1>4. Head(old) = old[1]
  BY <1>1
<1>5. DOMAIN new = 1..(Len(old) - 1)
  BY <1>3, LenProperties
<1>6. batch'[c] = new /\ \A d \in Calls : d # c => batch'[d] = batch[d]
  BY <1>1
<1>7. batch' \in [Calls -> Seq(Nat)]
  BY <1>1, <1>3
<1>8. /\ \A n \in DOMAIN old : old[n] \in Pending
      /\ \A m, n \in DOMAIN old : m < n => old[m] < old[n]
  BY <1>0 DEF QueueOK, BatchesPending
<1> HIDE DEF old, new
<1>9. \A n \in DOMAIN new : n + 1 \in DOMAIN old /\ 1 \in DOMAIN old /\ 1 < n + 1 /\ new[n] = old[n + 1]
  BY <1>2, <1>3, <1>5
<1>10. \A n \in DOMAIN new : new[n] \in Pending /\ new[n] # old[1]
  <2> TAKE n \in DOMAIN new
  <2>1. old[1] < old[n + 1] /\ old[1] \in Nat /\ old[n + 1] \in Nat
    BY <1>2, <1>8, <1>9
  <2> QED
    BY <1>8, <1>9, <2>1
<1>11. \A m, n \in DOMAIN new : m < n => new[m] < new[n]
  <2> TAKE m, n \in DOMAIN new
  <2> HAVE m < n
  <2>1. m + 1 < n + 1
    BY <1>5
  <2> QED
    BY <1>8, <1>9, <2>1
<1>12. \A d \in Calls : pc'[d] = "processing" => d = c
  BY <1>0 DEF CallsOK, OneHolder, Holds
<1>13. Head(batch[c]) = old[1] /\ old[1] \in Pending
  <2>1. 1 \in DOMAIN old
    BY <1>2
  <2> QED
    BY <1>4, <1>8, <2>1 DEF old
<1>14. \A d \in Calls : \A n \in DOMAIN batch'[d] : batch'[d][n] \in DOMAIN queue
  <2>1. \A n \in DOMAIN new : new[n] \in DOMAIN queue
    BY <1>10 DEF Pending
  <2> QED
    BY <1>0, <1>6, <2>1 DEF QueueOK
<1> QED
  BY <1>6, <1>7, <1>10, <1>11, <1>12, <1>13, <1>14

\* A batch starts: its items are pending and in the order of the queue.
LEMMA QueueStarts ==
  ASSUME Typed, NEW c \in Calls, NEW items \in SUBSET Pending, NEW forced, ProcessQueue(c, items, forced)
  PROVE  QueueOK'
<1>0. CallsOK /\ TypeOK /\ QueueOK
  BY TypedCalls, TypedQueue
<1>1. /\ Len(queue) \in Nat /\ items \in SUBSET (1..Len(queue)) /\ DOMAIN queue = 1..Len(queue)
  BY <1>0, ListFacts DEF Pending
<1> DEFINE n == Cardinality(items)
           order == InOrder(items)
<1>2. /\ n \in Nat /\ order \in [1..n -> items]
      /\ \A i, j \in 1..n : i < j => order[i] < order[j]
  BY <1>1, InOrderSorts
<1>3. batch' = [batch EXCEPT ![c] = order] /\ queue' = queue /\ pc' = [pc EXCEPT ![c] = "processing"]
      /\ \A d \in Calls : ~Holds(d)
  BY DEF ProcessQueue, Enter, LockFree, lists
<1> HIDE DEF order, n
<1>4. order \in [1..n -> Nat] /\ DOMAIN order = 1..n
  <2>1. \A x \in items : x \in Nat
    BY <1>1
  <2> QED
    BY <1>2, <2>1
<1>5. order \in Seq(Nat)
  BY <1>2, <1>4, SeqDef
<1>6. batch' \in [Calls -> Seq(Nat)] /\ batch'[c] = order /\ \A d \in Calls : d # c => batch'[d] = batch[d]
  BY <1>0, <1>3, <1>5 DEF QueueOK
<1>7. \A d \in Calls : \A m \in DOMAIN batch'[d] : batch'[d][m] \in DOMAIN queue
  <2>1. \A m \in DOMAIN order : order[m] \in DOMAIN queue
    BY <1>1, <1>2, <1>4
  <2> QED
    BY <1>0, <1>6, <2>1 DEF QueueOK
<1>8. \A d \in Calls : pc'[d] = "processing" => d = c
  <2>1. \A d \in Calls : d # c => pc'[d] = pc[d]
    BY <1>0, <1>3 DEF CallsOK
  <2> QED
    BY <1>3, <2>1 DEF Holds
<1>9. Pending' = Pending
  BY <1>3 DEF Pending
<1>10. BatchesPending'
  <2>1. \A m \in DOMAIN order : order[m] \in Pending
    BY <1>2, <1>4
  <2>2. \A i, j \in DOMAIN order : i < j => order[i] < order[j]
    BY <1>2, <1>4
  <2> QED
    BY <1>6, <1>8, <1>9, <2>1, <2>2 DEF BatchesPending
<1>11. Retriable'
  BY <1>0, <1>3, <1>9 DEF QueueOK, Retriable
<1> QED
  BY <1>0, <1>3, <1>6, <1>7, <1>10, <1>11 DEF QueueOK

-----------------------------------------------------------------------------
(* The inductive invariant.                                                *)

IInv == CallsOK /\ QueueOK /\ AlertsOK /\ Accounts

LEMMA IInvTyped ==
  ASSUME IInv
  PROVE  Typed /\ TypeOK
BY DEF IInv, CallsOK, QueueOK, AlertsOK, Typed, TypeOK

\* A breach is counted on an alert of the connector, or the alerts are closed.
LEMMA ReportKeeps ==
  ASSUME IInv, NEW k \in Connector, NEW breach, Report(k, breach), rules' = rules
  PROVE  AlertsOK'
<1>0. TypeOK /\ AlertsOK
  BY IInvTyped DEF IInv
<1>1. CASE breach = {}
  BY <1>0, <1>1, ReportFacts, AlikeAll, ResolvesKeeps
<1>2. CASE breach # {}
  BY <1>0, <1>2, ReportFacts, RecordsKeeps
<1> QED
  BY <1>1, <1>2

LEMMA RecordKeeps ==
  ASSUME IInv, NEW k \in Connector, NEW breach, RecordAlert(k, breach), rules' = rules
  PROVE  AlertsOK'
<1>0. TypeOK /\ AlertsOK
  BY IInvTyped DEF IInv
<1>1. CASE breach = {}
  BY <1>0, <1>1, RecordFacts, AlertsUntouched
<1>2. CASE breach # {}
  BY <1>0, <1>2, RecordFacts, RecordsKeeps
<1> QED
  BY <1>1, <1>2

\* Only connectors, policies or circuits change.
LEMMA SettingsKeep ==
  ASSUME IInv, UNCHANGED <<stats, queue, alerts, rules, events, pc, target, batch, force, view>>,
         status' \in [Connector -> {"none", "unknown", "healthy", "degraded"}],
         policy' \in [Connector -> Policies], circuit' \in [Connector -> Circuit]
  PROVE  IInv'
<1>0. Typed /\ TypeOK
  BY IInvTyped
<1>1. CallsOK'
  BY <1>0, CallsUntouched
<1>2. QueueOK'
  BY QueueUntouched DEF IInv
<1>3. AlertsOK'
  BY AlertsUntouched DEF IInv
<1>4. Accounts'
  BY <1>0, AccountsUntouched DEF IInv
<1> QED
  BY <1>1, <1>2, <1>3, <1>4 DEF IInv

\* Only alerts, events or rules change.
LEMMA AlertsKeep ==
  ASSUME IInv, UNCHANGED <<status, policy, stats, circuit, queue, pc, target, batch, force, view>>,
         AlertsOK'
  PROVE  IInv'
<1>0. Typed /\ TypeOK /\ CallsOK
  BY IInvTyped DEF IInv
<1>1. CallsOK'
  BY <1>0, CallsUntouched DEF CallsOK
<1>2. QueueOK'
  BY QueueUntouched DEF IInv
<1>3. Accounts'
  BY <1>0, AccountsUntouched DEF IInv
<1> QED
  BY <1>1, <1>2, <1>3 DEF IInv

LEMMA SettingsStep ==
  ASSUME IInv,
         \/ \E k \in Connector : Upsert(k) \/ \E p \in Policies : UpdatePolicy(k, p)
         \/ \E targets \in (SUBSET Connector) \ {{}}, p \in Policies : ApplyTemplate(targets, p)
         \/ \E cooled \in (SUBSET Connector) \ {{}} : Reconcile(cooled)
  PROVE  IInv'
<1>0. CallsOK
  BY DEF IInv
<1>1. ASSUME NEW k \in Connector, Upsert(k) PROVE IInv'
  <2>1. UNCHANGED <<stats, queue, alerts, rules, events, pc, target, batch, force, view>>
    BY <1>1 DEF Upsert, lists, locals
  <2>2. /\ status' \in [Connector -> {"none", "unknown", "healthy", "degraded"}]
        /\ policy' \in [Connector -> Policies] /\ circuit' \in [Connector -> Circuit]
    BY <1>0, <1>1 DEF Upsert, CallsOK
  <2> QED
    BY <2>1, <2>2, SettingsKeep
<1>2. ASSUME NEW k \in Connector, NEW p \in Policies, UpdatePolicy(k, p) PROVE IInv'
  <2>1. UNCHANGED <<stats, queue, alerts, rules, events, pc, target, batch, force, view>>
    BY <1>2 DEF UpdatePolicy, lists, locals
  <2>2. /\ status' \in [Connector -> {"none", "unknown", "healthy", "degraded"}]
        /\ policy' \in [Connector -> Policies] /\ circuit' \in [Connector -> Circuit]
    BY <1>0, <1>2 DEF UpdatePolicy, CallsOK
  <2> QED
    BY <2>1, <2>2, SettingsKeep
<1>3. ASSUME NEW targets, NEW p \in Policies, ApplyTemplate(targets, p) PROVE IInv'
  <2>1. UNCHANGED <<stats, queue, alerts, rules, events, pc, target, batch, force, view>>
    BY <1>3 DEF ApplyTemplate, lists, locals
  <2>2. /\ status' \in [Connector -> {"none", "unknown", "healthy", "degraded"}]
        /\ policy' \in [Connector -> Policies] /\ circuit' \in [Connector -> Circuit]
    BY <1>0, <1>3 DEF ApplyTemplate, CallsOK
  <2> QED
    BY <2>1, <2>2, SettingsKeep
<1>4. ASSUME NEW cooled, Reconcile(cooled) PROVE IInv'
  <2>1. UNCHANGED <<stats, queue, alerts, rules, events, pc, target, batch, force, view>>
    BY <1>4 DEF Reconcile, lists, locals
  <2>2. [state |-> "half_open", failures |-> 0] \in Circuit
    BY SomeCount DEF Circuit
  <2>3. /\ status' \in [Connector -> {"none", "unknown", "healthy", "degraded"}]
        /\ policy' \in [Connector -> Policies] /\ circuit' \in [Connector -> Circuit]
    BY <1>0, <1>4, <2>2 DEF Reconcile, CallsOK
  <2> QED
    BY <2>1, <2>3, SettingsKeep
<1> QED
  BY <1>1, <1>2, <1>3, <1>4

LEMMA AlertsStep ==
  ASSUME IInv,
         \/ \E k \in Connector : GetReliability(k)
         \/ \E minimum \in Minimums : CreateRule(minimum)
         \/ \E e \in DOMAIN events : Acknowledge(e)
         \/ AutoResolve
  PROVE  IInv'
<1>0. TypeOK /\ AlertsOK
  BY IInvTyped DEF IInv
<1>1. UNCHANGED <<status, policy, stats, circuit, queue, pc, target, batch, force, view>>
  BY DEF GetReliability, CreateRule, Acknowledge, AutoResolve, locals
<1>2. ASSUME NEW k \in Connector, GetReliability(k) PROVE AlertsOK'
  BY <1>2, ReportKeeps DEF GetReliability
<1>3. ASSUME NEW minimum \in Minimums, CreateRule(minimum) PROVE AlertsOK'
  BY <1>0, <1>3, CreateRuleKeeps
<1>4. ASSUME NEW e \in DOMAIN events, Acknowledge(e) PROVE AlertsOK'
  BY <1>0, <1>4, AcknowledgeKeeps
<1>5. ASSUME AutoResolve PROVE AlertsOK'
  BY <1>0, <1>5, SweepFacts, ResolvesKeeps
<1>6. AlertsOK'
  BY <1>2, <1>3, <1>4, <1>5
<1> QED
  BY <1>1, <1>6, AlertsKeep

\* A request is counted when a call begins.
LEMMA BeginStep ==
  ASSUME IInv, NEW c \in Calls, NEW k \in Connector,
         SimulateFailure(c, k) \/ \E h \in BOOLEAN : HealthCheck(c, k, h)
  PROVE  IInv'
<1>0. Typed /\ TypeOK /\ CallsOK /\ QueueOK /\ AlertsOK /\ Accounts
  BY IInvTyped DEF IInv
<1>1. PICK to \in {"failing", "checking", "checked"} :
        /\ Enter(c, to) /\ Count(k) /\ target' = [target EXCEPT ![c] = k]
        /\ UNCHANGED <<policy, circuit, lists, batch, force, view>>
        /\ status' \in [Connector -> {"none", "unknown", "healthy", "degraded"}]
  <2>1. CASE SimulateFailure(c, k)
    BY <1>0, <2>1 DEF SimulateFailure, CallsOK
  <2>2. ASSUME NEW h \in BOOLEAN, HealthCheck(c, k, h)
        PROVE  \E to \in {"checking", "checked"} :
                 /\ Enter(c, to) /\ Count(k) /\ target' = [target EXCEPT ![c] = k]
                 /\ UNCHANGED <<policy, circuit, lists, batch, force, view>>
                 /\ status' \in [Connector -> {"none", "unknown", "healthy", "degraded"}]
    BY <1>0, <2>2 DEF HealthCheck, CallsOK
  <2> QED
    BY <2>1, <2>2
<1>2. CallsOK'
  BY <1>0, <1>1, EnterCounts
<1>3. QueueOK'
  <2>1. \A d \in Calls : pc'[d] = "processing" => pc[d] = "processing"
    BY <1>0, <1>1 DEF CallsOK, Enter
  <2> QED
    BY <1>0, <1>1, <2>1, QueueUntouched DEF lists
<1>4. AlertsOK'
  BY <1>0, <1>1, AlertsUntouched DEF lists
<1>5. Accounts'
  BY <1>0, <1>1, CountFacts, AccountsUntouched DEF lists
<1> QED
  BY <1>2, <1>3, <1>4, <1>5 DEF IInv

LEMMA RecordFailureStep ==
  ASSUME IInv, NEW c \in Calls, RecordFailure(c)
  PROVE  IInv'
<1>0. Typed /\ TypeOK /\ CallsOK /\ QueueOK /\ AlertsOK /\ Accounts
  BY IInvTyped DEF IInv
<1> DEFINE k == target[c]
           n == IF policy[k].replay THEN 1 ELSE 0
<1>1. /\ Moves(c, "failing", "idle")
      /\ status' = [status EXCEPT ![k] = "degraded"] /\ circuit' = [circuit EXCEPT ![k] = Failing(k)]
      /\ stats' = [stats EXCEPT ![k].failed = @ + 1,
                                ![k].enqueued = IF policy[k].replay THEN @ + 1 ELSE @]
      /\ queue' = IF policy[k].replay
                  THEN Append(queue, [connector |-> k, attempts |-> 0, status |-> "pending"])
                  ELSE queue
      /\ \E breach : RecordAlert(k, breach)
      /\ target' = [target EXCEPT ![c] = None]
      /\ UNCHANGED <<policy, rules, batch, force, view>>
  BY DEF RecordFailure
<1>2. k \in Connector
  BY <1>0, <1>1 DEF CallsOK, CallPlaces, Moves
<1>3. n \in {0, 1} /\ (n = 1 <=> policy[k].replay)
  OBVIOUS
<1> HIDE DEF n
<1>4. Counts(k, 0, 1) /\ Replays(k, n, 0, 0)
  <2>1. stats' = [stats EXCEPT ![k].failed = @ + 1, ![k].enqueued = IF n = 1 THEN @ + 1 ELSE @]
    BY <1>1, <1>3
  <2> QED
    BY <1>0, <1>2, <1>3, <2>1, QueuedFacts
<1>5. CallsOK'
  <2>1. status' \in [Connector -> {"none", "unknown", "healthy", "degraded"}]
    BY <1>0, <1>1 DEF CallsOK
  <2>2. circuit' \in [Connector -> Circuit]
    BY <1>0, <1>1, <1>2, FailingType DEF CallsOK
  <2> QED
    BY <1>0, <1>1, <1>4, <2>1, <2>2, LeaveCounts
<1>6. \A d \in Calls : pc'[d] = "processing" => pc[d] = "processing"
  BY <1>0, <1>1 DEF CallsOK, Moves
<1>7. QueueOK' /\ Accounts'
  <2>1. CASE policy[k].replay
    <3>1. /\ Accounts' /\ queue' \in Seq(Item) /\ DOMAIN queue \subseteq DOMAIN queue'
          /\ \A i \in DOMAIN queue : queue'[i] = queue[i]
          /\ \A i \in DOMAIN queue' : i \notin DOMAIN queue => queue'[i].attempts = 0
      <4>1. Replays(k, 1, 0, 0)
        BY <1>3, <1>4, <2>1
      <4>2. queue' = Append(queue, [connector |-> k, attempts |-> 0, status |-> "pending"])
        BY <1>1, <2>1
      <4> QED
        BY <1>0, <1>2, <4>1, <4>2, AppendAccounts
    <3>2. QueueOK'
      BY <1>0, <1>1, <1>6, <3>1, QueueGrows
    <3> QED
      BY <3>1, <3>2
  <2>2. CASE ~policy[k].replay
    <3>1. Replays(k, 0, 0, 0) /\ queue' = queue
      BY <1>1, <1>3, <1>4, <2>2
    <3> QED
      BY <1>0, <1>1, <1>6, <3>1, QueueUntouched, AccountsUntouched
  <2> QED
    BY <2>1, <2>2
<1>8. AlertsOK'
  BY <1>1, <1>2, RecordKeeps
<1> QED
  BY <1>5, <1>7, <1>8 DEF IInv

LEMMA CountFailedStep ==
  ASSUME IInv, NEW c \in Calls, CountFailed(c)
  PROVE  IInv'
<1>0. Typed /\ TypeOK /\ CallsOK /\ QueueOK /\ AlertsOK /\ Accounts
  BY IInvTyped DEF IInv
<1>1. /\ Moves(c, "checking", "checked") /\ stats' = [stats EXCEPT ![target[c]].failed = @ + 1]
      /\ UNCHANGED <<status, policy, circuit, lists, locals>>
  BY DEF CountFailed
<1>2. target[c] \in Connector
  BY <1>0, <1>1 DEF CallsOK, CallPlaces, Moves
<1>3. Counts(target[c], 0, 1) /\ Replays(target[c], 0, 0, 0)
  BY <1>0, <1>1, <1>2, FailedFacts
<1>4. CallsOK'
  <2>1. UNCHANGED <<policy, force, view>> /\ target' = [target EXCEPT ![c] = target[c]]
    BY <1>0, <1>1 DEF locals, CallsOK
  <2>2. /\ status' \in [Connector -> {"none", "unknown", "healthy", "degraded"}]
        /\ circuit' \in [Connector -> Circuit]
    BY <1>0, <1>1 DEF CallsOK
  <2>3. Typed /\ Moves(c, "checking", "checked") /\ Counts(target[c], 0, 1)
    BY <1>0, <1>1, <1>3
  <2> QED
    BY <2>1, <2>2, <2>3, LeaveCounts
<1>5. QueueOK'
  <2>1. \A d \in Calls : pc'[d] = "processing" => pc[d] = "processing"
    BY <1>0, <1>1 DEF CallsOK, Moves
  <2> QED
    BY <1>0, <1>1, <2>1, QueueUntouched DEF lists, locals
<1>6. AlertsOK'
  BY <1>0, <1>1, AlertsUntouched DEF lists
<1>7. Accounts'
  BY <1>0, <1>1, <1>3, AccountsUntouched DEF lists
<1> QED
  BY <1>4, <1>5, <1>6, <1>7 DEF IInv

\* What a call has read so far is a view, with a policy as long as it reads on.
LEMMA ReadFacts ==
  ASSUME IInv, NEW c \in Calls, ReadPolicy(c) \/ ReadTotal(c) \/ ReadFailed(c) \/ ReadStatus(c)
  PROVE  \E v \in View, from \in {"checked"} \cup Reading, to \in {"read"} \cup Reading :
           /\ Moves(c, from, to) /\ view' = [view EXCEPT ![c] = v]
           /\ to \in Reading => v.policy \in Policies
<1>0. CallsOK
  BY DEF IInv
<1>1. PICK seen : seen = view[c]
  OBVIOUS
<1>2. /\ seen = [policy |-> seen.policy, total |-> seen.total, breach |-> seen.breach]
      /\ seen \in View /\ view \in [Calls -> View]
      /\ pc[c] \in Reading => seen.policy \in Policies
  BY <1>0, <1>1 DEF CallsOK, CallPlaces, View
<1>3. pc[c] \in {"checked"} \cup Reading => target[c] \in Connector
  BY <1>0 DEF CallsOK, CallPlaces, Reading
<1>4. CASE ReadPolicy(c)
  <2>1. /\ Moves(c, "checked", "read_policy")
        /\ view' = [view EXCEPT ![c] = [seen EXCEPT !.policy = policy[target[c]]]]
    BY <1>1, <1>2, <1>4 DEF ReadPolicy
  <2>2. policy[target[c]] \in Policies
    BY <1>0, <1>3, <2>1 DEF CallsOK, Moves
  <2>3. PICK v : v = [seen EXCEPT !.policy = policy[target[c]]]
    OBVIOUS
  <2>4. v \in View /\ v.policy \in Policies
    BY <1>2, <2>2, <2>3 DEF View
  <2> QED
    BY <2>1, <2>3, <2>4 DEF Reading
<1>5. CASE ReadTotal(c)
  <2>1. /\ Moves(c, "read_policy", "read_total")
        /\ view' = [view EXCEPT ![c] = [seen EXCEPT !.total = stats[target[c]].total]]
    BY <1>1, <1>2, <1>5 DEF ReadTotal
  <2>2. pc[c] \in Reading
    BY <2>1 DEF Moves, Reading
  <2>3. stats[target[c]].total \in Nat
    <3>1. stats[target[c]] \in Stats
      BY <1>0, <1>3, <2>2 DEF CallsOK
    <3> QED
      BY <3>1, StatsAre
  <2>4. PICK v : v = [seen EXCEPT !.total = stats[target[c]].total]
    OBVIOUS
  <2>5. v \in View /\ v.policy \in Policies
    BY <1>2, <2>2, <2>3, <2>4 DEF View
  <2> QED
    BY <2>1, <2>4, <2>5 DEF Reading
<1>6. CASE ReadFailed(c)
  <2>1. PICK b : /\ b = {t \in {"availability"} :
                             Unavailable(seen.total, stats[target[c]].failed, seen.policy)}
                 /\ Moves(c, "read_total", "read_failed")
                 /\ view' = [view EXCEPT ![c] = [policy |-> seen.policy, total |-> 0, breach |-> b]]
    BY <1>1, <1>6 DEF ReadFailed
  <2>2. b \in SUBSET Types
    BY <2>1 DEF Types
  <2>3. pc[c] \in Reading
    BY <2>1 DEF Moves, Reading
  <2>4. PICK v : v = [policy |-> seen.policy, total |-> 0, breach |-> b]
    OBVIOUS
  <2>5. v \in View /\ v.policy \in Policies
    BY <1>2, <2>2, <2>3, <2>4 DEF View
  <2> QED
    BY <2>1, <2>4, <2>5 DEF Reading
<1>7. CASE ReadStatus(c)
  <2>1. PICK b : /\ b = seen.breach \cup {t \in {"latency"} : Slow(status[target[c]], seen.policy)}
                 /\ Moves(c, "read_failed", "read")
                 /\ view' = [view EXCEPT ![c] = [policy |-> None, total |-> 0, breach |-> b]]
    BY <1>1, <1>7 DEF ReadStatus
  <2>2. b \in SUBSET Types
    BY <1>2, <2>1 DEF Types, View
  <2>3. PICK v : v = [policy |-> None, total |-> 0, breach |-> b]
    OBVIOUS
  <2>4. v \in View
    BY <2>2, <2>3 DEF View
  <2>5. "read_failed" \in {"checked"} \cup Reading /\ "read" \notin Reading
    BY DEF Reading
  <2> QED
    BY <2>1, <2>3, <2>4, <2>5
<1> QED
  BY <1>4, <1>5, <1>6, <1>7

LEMMA ReadStep ==
  ASSUME IInv, NEW c \in Calls, ReadPolicy(c) \/ ReadTotal(c) \/ ReadFailed(c) \/ ReadStatus(c)
  PROVE  IInv'
<1>0. Typed /\ TypeOK /\ CallsOK /\ QueueOK /\ AlertsOK /\ Accounts
  BY IInvTyped DEF IInv
<1>1. UNCHANGED <<status, policy, stats, circuit, queue, alerts, rules, events, target, batch, force>>
  BY DEF ReadPolicy, ReadTotal, ReadFailed, ReadStatus, lists
<1>2. PICK v \in View, from \in {"checked"} \cup Reading, to \in {"read"} \cup Reading :
        /\ Moves(c, from, to) /\ view' = [view EXCEPT ![c] = v]
        /\ to \in Reading => v.policy \in Policies
  BY ReadFacts
<1>3. CallsOK'
  <2>1. target' = [target EXCEPT ![c] = target[c]]
    BY <1>0, <1>1 DEF CallsOK
  <2>2. to # "idle"
    BY DEF Reading
  <2>3. from \in {"checked", "read"} \cup Reading /\ to \in {"idle", "read"} \cup Reading
    OBVIOUS
  <2> QED
    BY <1>0, <1>1, <1>2, <2>1, <2>2, <2>3, WalkKeeps
<1>4. \A d \in Calls : pc'[d] = "processing" => pc[d] = "processing"
  BY <1>0, <1>2 DEF CallsOK, Moves, Reading
<1> QED
  BY <1>0, <1>1, <1>3, <1>4, QueueUntouched, AlertsUntouched, AccountsUntouched DEF IInv

LEMMA ReportStep ==
  ASSUME IInv, NEW c \in Calls, ReportCheck(c)
  PROVE  IInv'
<1>0. Typed /\ TypeOK /\ CallsOK /\ QueueOK /\ AlertsOK /\ Accounts
  BY IInvTyped DEF IInv
<1>1. /\ Moves(c, "read", "idle") /\ Report(target[c], view[c].breach)
      /\ view' = [view EXCEPT ![c] = BlankView] /\ target' = [target EXCEPT ![c] = None]
      /\ UNCHANGED <<status, policy, stats, circuit, queue, rules, batch, force>>
  BY DEF ReportCheck
<1>2. target[c] \in Connector
  BY <1>0, <1>1 DEF CallsOK, CallPlaces, Moves
<1>3. AlertsOK'
  BY <1>1, <1>2, ReportKeeps
<1>4. CallsOK'
  <2>1. BlankView \in View
    BY DEF BlankView, View
  <2> HIDE DEF BlankView
  <2>2. "read" \in {"checked", "read"} \cup Reading /\ "idle" \in {"idle", "read"} \cup Reading
        /\ "idle" \notin Reading
    BY DEF Reading
  <2> QED
    BY <1>0, <1>1, <2>1, <2>2, WalkKeeps
<1>5. \A d \in Calls : pc'[d] = "processing" => pc[d] = "processing"
  BY <1>0, <1>1 DEF CallsOK, Moves
<1> QED
  BY <1>0, <1>1, <1>3, <1>4, <1>5, QueueUntouched, AccountsUntouched DEF IInv

\* An item is replayed by a call that keeps the other items of its batch.
LEMMA ReplayStep ==
  ASSUME IInv, NEW i \in Pending, NEW forced, ReplayItem(i, forced),
         UNCHANGED <<policy, rules, pc, target, force, view>>,
         batch' \in [Calls -> Seq(Nat)],
         \A c \in Calls : \A n \in DOMAIN batch'[c] : batch'[c][n] \in DOMAIN queue,
         \A c \in Calls : pc'[c] = "processing" =>
           /\ \A n \in DOMAIN batch'[c] : batch'[c][n] \in Pending \ {i}
           /\ \A m, n \in DOMAIN batch'[c] : m < n => batch'[c][m] < batch'[c][n]
  PROVE  IInv'
<1>0. Typed /\ TypeOK /\ CallsOK /\ QueueOK /\ AlertsOK /\ Accounts
  BY IInvTyped DEF IInv
<1>1. PICK k : k = queue[i].connector
  OBVIOUS
<1>2. /\ k \in Connector /\ Counts(k, 0, 0)
      /\ status' \in [Connector -> {"none", "unknown", "healthy", "degraded"}]
      /\ circuit' \in [Connector -> Circuit]
      /\ \E s \in {"pending", "succeeded", "failed"} :
           /\ Tried(i, s)
           /\ Replays(k, 0, IF s = "succeeded" THEN 1 ELSE 0, IF s = "failed" THEN 1 ELSE 0)
           /\ s = "pending" => queue[i].attempts + 1 <= policy[k].retries
  BY <1>0, <1>1, ReplayFacts
<1>3. PICK s \in {"pending", "succeeded", "failed"} :
           /\ Tried(i, s)
           /\ Replays(k, 0, IF s = "succeeded" THEN 1 ELSE 0, IF s = "failed" THEN 1 ELSE 0)
           /\ s = "pending" => queue[i].attempts + 1 <= policy[k].retries
  BY <1>2
<1>4. CallsOK'
  BY <1>0, <1>2, ReplayCalls
<1>5. QueueOK'
  <2>1. policy[k] \in Policies
    BY <1>0, <1>2 DEF CallsOK
  <2> QED
    BY <1>0, <1>3, <2>1, QueueTried
<1>6. Accounts'
  BY <1>0, <1>1, <1>2, <1>3, TriedAccounts
<1>7. AlertsOK'
  <2>1. \E breach : Report(k, breach)
    BY <1>1 DEF ReplayItem
  <2> QED
    BY <1>2, <2>1, ReportKeeps
<1> QED
  BY <1>4, <1>5, <1>6, <1>7 DEF IInv

LEMMA ReplayOneStep ==
  ASSUME IInv, NEW i \in Pending, NEW forced \in BOOLEAN, ReplayOne(i, forced)
  PROVE  IInv'
<1>0. QueueOK
  BY DEF IInv
<1>1. /\ ReplayItem(i, forced) /\ UNCHANGED <<policy, rules, pc, target, force, view, batch>>
      /\ \A c \in Calls : ~Holds(c)
  BY DEF ReplayOne, LockFree, locals
<1>2. \A c \in Calls : pc'[c] # "processing"
  BY <1>1 DEF Holds
<1> QED
  BY <1>0, <1>1, <1>2, ReplayStep DEF QueueOK

LEMMA ProcessStep ==
  ASSUME IInv, NEW c \in Calls, NEW windowed \in BOOLEAN, ProcessItem(c, windowed)
  PROVE  IInv'
<1>0. Typed /\ TypeOK /\ CallsOK /\ QueueOK /\ AlertsOK /\ Accounts
  BY IInvTyped DEF IInv
<1>1. /\ pc[c] = "processing" /\ batch[c] # <<>> /\ batch' = [batch EXCEPT ![c] = Tail(@)]
      /\ UNCHANGED <<policy, rules, pc, target, force, view>>
  BY DEF ProcessItem
<1>2. /\ batch' \in [Calls -> Seq(Nat)]
      /\ \A d \in Calls : \A n \in DOMAIN batch'[d] : batch'[d][n] \in DOMAIN queue
      /\ Head(batch[c]) \in Pending
      /\ \A d \in Calls : pc'[d] = "processing" =>
           /\ \A n \in DOMAIN batch'[d] : batch'[d][n] \in Pending \ {Head(batch[c])}
           /\ \A m, n \in DOMAIN batch'[d] : m < n => batch'[d][m] < batch'[d][n]
  BY <1>0, <1>1, TailFacts
<1>3. CASE windowed
  <2>1. UNCHANGED <<status, stats, circuit, queue, alerts, events>>
    BY <1>3 DEF ProcessItem
  <2>2. CallsOK'
    BY <1>0, <1>1, <2>1, CallsUntouched DEF CallsOK
  <2>3. Pending' = Pending
    BY <2>1 DEF Pending
  <2>4. BatchesPending' /\ Retriable'
    BY <1>0, <1>2, <2>1, <2>3 DEF BatchesPending, QueueOK, Retriable
  <2>5. QueueOK'
    BY <1>0, <1>2, <2>1, <2>4 DEF QueueOK
  <2> QED
    BY <1>0, <1>1, <2>1, <2>2, <2>5, AlertsUntouched, AccountsUntouched DEF IInv
<1>4. CASE ~windowed
  <2>1. ReplayItem(Head(batch[c]), force[c])
    BY <1>4 DEF ProcessItem
  <2> QED
    BY <1>1, <1>2, <2>1, ReplayStep
<1> QED
  BY <1>3, <1>4

LEMMA BatchStep ==
  ASSUME IInv, NEW c \in Calls,
         \/ \E items \in SUBSET Pending, forced \in BOOLEAN : ProcessQueue(c, items, forced)
         \/ ProcessEnd(c)
  PROVE  IInv'
<1>0. Typed /\ TypeOK /\ CallsOK /\ QueueOK /\ AlertsOK /\ Accounts
  BY IInvTyped DEF IInv
<1>1. UNCHANGED <<status, policy, stats, circuit, queue, alerts, rules, events, target, view>>
  BY DEF ProcessQueue, ProcessEnd, lists
<1>2. CallsOK'
  <2>1. PICK f \in BOOLEAN : force' = [force EXCEPT ![c] = f]
    BY DEF ProcessQueue, ProcessEnd
  <2>2. Enter(c, "processing") \/ Moves(c, "processing", "idle")
    BY DEF ProcessQueue, ProcessEnd
  <2> QED
    BY <1>0, <1>1, <2>1, <2>2, ReplayingKeeps
<1>3. QueueOK'
  <2>1. ASSUME NEW items \in SUBSET Pending, NEW forced, ProcessQueue(c, items, forced) PROVE QueueOK'
    BY <1>0, <2>1, QueueStarts
  <2>2. ASSUME ProcessEnd(c) PROVE QueueOK'
    <3>1. \A d \in Calls : pc'[d] = "processing" => pc[d] = "processing"
      BY <1>0, <2>2 DEF CallsOK, ProcessEnd, Moves
    <3> QED
      BY <1>0, <1>1, <2>2, <3>1, QueueUntouched DEF ProcessEnd
  <2> QED
    BY <2>1, <2>2
<1> QED
  BY <1>0, <1>1, <1>2, <1>3, AlertsUntouched, AccountsUntouched DEF IInv

LEMMA Step ==
  ASSUME IInv, [Next]_vars
  PROVE  IInv'
<1>1. CASE UNCHANGED vars
  <2>1. UNCHANGED <<status, policy, stats, circuit, queue, alerts, rules, events, pc, target, batch, force, view>>
    BY <1>1 DEF vars, lists, locals
  <2>2. /\ status' \in [Connector -> {"none", "unknown", "healthy", "degraded"}]
        /\ policy' \in [Connector -> Policies] /\ circuit' \in [Connector -> Circuit]
    BY <2>1 DEF IInv, CallsOK
  <2> QED
    BY <2>1, <2>2, SettingsKeep
<1>2. CASE Next
  BY <1>2, SettingsStep, AlertsStep, BeginStep, RecordFailureStep, CountFailedStep, ReadStep, ReportStep,
     ReplayOneStep, ProcessStep, BatchStep DEF Next
<1> QED
  BY <1>1, <1>2

-----------------------------------------------------------------------------
(* The theorems.                                                           *)

LEMMA Start == Init => IInv
<1> SUFFICES ASSUME Init PROVE IInv
  OBVIOUS
<1>1. /\ \A S : queue \in Seq(S) /\ alerts \in Seq(S) /\ rules \in Seq(S) /\ events \in Seq(S)
      /\ DOMAIN queue = {} /\ DOMAIN alerts = {} /\ DOMAIN rules = {} /\ DOMAIN events = {}
  BY DEF Init
<1>2. CallsOK
  <2>1. /\ [total |-> 0, failed |-> 0, enqueued |-> 0, succeeded |-> 0, failures |-> 0] \in Stats
        /\ [state |-> "closed", failures |-> 0] \in Circuit /\ BlankView \in View
    BY SomeCount DEF Stats, Circuit, BlankView, View
  <2>2. DefaultPolicy \in Policies
    BY ConnectorsAssumption
  <2> HIDE DEF BlankView
  <2>3. /\ stats \in [Connector -> Stats] /\ circuit \in [Connector -> Circuit]
        /\ view \in [Calls -> View] /\ \A k \in Connector : stats[k].failed = 0 /\ stats[k].total = 0
    BY <2>1 DEF Init
  <2>4. OneHolder /\ CallPlaces
    BY DEF Init, OneHolder, Holds, CallPlaces, Reading
  <2> QED
    BY <2>2, <2>3, <2>4 DEF Init, CallsOK, Places
<1>3. QueueOK
  <2>1. batch \in [Calls -> Seq(Nat)] /\ \A c \in Calls : DOMAIN batch[c] = {} /\ pc[c] = "idle"
    BY DEF Init
  <2>2. BatchesPending /\ Retriable
    BY <1>1, <2>1 DEF BatchesPending, Retriable, Pending
  <2> QED
    BY <1>1, <2>1, <2>2 DEF QueueOK
<1>4. AlertsOK
  BY <1>1 DEF AlertsOK, OneOpenAlert, Remembered
<1>5. Accounts
  <2>1. \A k, s : Items(k, s) = {}
    BY <1>1 DEF Items
  <2>2. \A k, s : Cardinality(Items(k, s)) = 0
    BY <2>1, FS_EmptySet
  <2>3. \A k \in Connector : stats[k].succeeded = 0 /\ stats[k].failures = 0 /\ stats[k].enqueued = 0
    BY DEF Init
  <2> QED
    BY <2>2, <2>3 DEF Accounts
<1> QED
  BY <1>2, <1>3, <1>4, <1>5 DEF IInv

\* The inductive invariant: the types and references of every list, one holder of the lock,
\* what each call still owes, the batches, what the alerts remember, and the replay accounts.
THEOREM ConnectorsInvariant == Spec => []IInv
BY Start, Step, PTL DEF Spec

\* A list refers only to what the others hold, a connector never counts more failures than
\* requests although the two are counted in turn, and no item is tried more often than the
\* most generous policy allows.
THEOREM ConnectorsTypeCorrect == Spec => []TypeOK
<1>1. IInv => TypeOK
  BY IInvTyped
<1> QED
  BY <1>1, ConnectorsInvariant, PTL

\* However health checks, failures, replays and sweeps interleave, a connector has at most
\* one open alert of a type.
THEOREM OneAlertOpen == Spec => []OneOpenAlert
<1>1. IInv => OneOpenAlert
  BY DEF IInv, AlertsOK
<1> QED
  BY <1>1, ConnectorsInvariant, PTL

\* What the alerts remember is exactly what was emitted, so each rule notified once.
LEMMA RememberedOnce ==
  ASSUME TypeOK, AlertsOK
  PROVE  EscalatedOnce
<1> SUFFICES ASSUME NEW a \in DOMAIN alerts, NEW r \in DOMAIN rules
             PROVE  LET raised == {e \in DOMAIN events : events[e].alert = a /\ events[e].rule = r}
                    IN /\ Cardinality(raised) = (IF r \in alerts[a].escalated THEN 1 ELSE 0)
                       /\ raised # {} => rules[r] <= alerts[a].breaches
  BY DEF EscalatedOnce
<1> DEFINE raised == {e \in DOMAIN events : events[e].alert = a /\ events[e].rule = r}
<1>1. CASE r \in alerts[a].escalated
  <2>1. PICK e \in DOMAIN events : events[e].alert = a /\ events[e].rule = r
    BY <1>1 DEF AlertsOK, Remembered
  <2>2. \A f \in raised : f = e
    BY <2>1 DEF AlertsOK, Remembered
  <2>3. raised = {e}
    BY <2>1, <2>2
  <2>4. Cardinality(raised) = 1
    BY <2>3, FS_Singleton
  <2>5. rules[r] <= alerts[a].breaches
    BY <1>1 DEF AlertsOK, Remembered
  <2> QED
    BY <1>1, <2>4, <2>5
<1>2. CASE r \notin alerts[a].escalated
  <2>1. raised = {}
    BY <1>2 DEF AlertsOK, Remembered
  <2>2. Cardinality(raised) = 0
    BY <2>1, FS_EmptySet
  <2> QED
    BY <1>2, <2>1, <2>2
<1> QED
  BY <1>1, <1>2

\* A rule notifies once per alert, whenever the rule was added and however often the alert
\* is seen again, and only when the alert had reached it.
THEOREM RulesNotifyOnce == Spec => []EscalatedOnce
<1>1. IInv => EscalatedOnce
  BY IInvTyped, RememberedOnce DEF IInv
<1> QED
  BY <1>1, ConnectorsInvariant, PTL

\* A queued failure is replayed to one end and counted there once, whether the queue or a
\* request by hand replays it.
THEOREM ReplaysBalance == Spec => []ReplaysAccounted
<1>1. IInv => ReplaysAccounted
  BY AccountsAre DEF IInv
<1> QED
  BY <1>1, ConnectorsInvariant, PTL

-----------------------------------------------------------------------------
(* Which steps touch the alerts and the events, and what they report.      *)

Told(k, breach) == Report(k, breach) \/ RecordAlert(k, breach)

\* A call reports the state its connector is in then, or is a health check that reports
\* what it read before.
Reports(k, breach) ==
  /\ Told(k, breach)
  /\ \/ breach = Current(k)'
     \/ \E c \in Calls : /\ pc[c] = "read" /\ pc'[c] = "idle" /\ target[c] = k
                         /\ view[c].breach = breach /\ Current(k)' = Current(k)

\* The steps that leave the alerts and their events alone.
LEMMA AlertsStill ==
  ASSUME \/ \E k \in Connector : Upsert(k) \/ \E p \in Policies : UpdatePolicy(k, p)
         \/ \E targets \in (SUBSET Connector) \ {{}}, p \in Policies : ApplyTemplate(targets, p)
         \/ \E minimum \in Minimums : CreateRule(minimum)
         \/ \E c \in Calls :
              \/ \E k \in Connector : SimulateFailure(c, k) \/ \E h \in BOOLEAN : HealthCheck(c, k, h)
              \/ CountFailed(c) \/ ReadPolicy(c) \/ ReadTotal(c) \/ ReadFailed(c) \/ ReadStatus(c)
              \/ \E items \in SUBSET Pending, forced \in BOOLEAN : ProcessQueue(c, items, forced)
              \/ ProcessEnd(c)
         \/ \E cooled \in (SUBSET Connector) \ {{}} : Reconcile(cooled)
         \/ UNCHANGED vars
  PROVE  UNCHANGED <<alerts, events>>
<1>1. ASSUME NEW k \in Connector, Upsert(k) \/ \E p \in Policies : UpdatePolicy(k, p) PROVE UNCHANGED <<alerts, events>>
  BY <1>1 DEF Upsert, UpdatePolicy, lists
<1>2. ASSUME NEW targets, NEW p, ApplyTemplate(targets, p) PROVE UNCHANGED <<alerts, events>>
  BY <1>2 DEF ApplyTemplate, lists
<1>3. ASSUME NEW minimum, CreateRule(minimum) PROVE UNCHANGED <<alerts, events>>
  BY <1>3 DEF CreateRule
<1>4. ASSUME NEW c \in Calls, NEW k \in Connector, SimulateFailure(c, k) \/ \E h \in BOOLEAN : HealthCheck(c, k, h)
      PROVE  UNCHANGED <<alerts, events>>
  BY <1>4 DEF SimulateFailure, HealthCheck, lists
<1>5. ASSUME NEW c \in Calls, CountFailed(c) \/ ReadPolicy(c) \/ ReadTotal(c)
                              \/ ReadFailed(c) \/ ReadStatus(c) \/ ProcessEnd(c)
      PROVE  UNCHANGED <<alerts, events>>
  BY <1>5 DEF CountFailed, ReadPolicy, ReadTotal, ReadFailed, ReadStatus, ProcessEnd, lists
<1>6. ASSUME NEW c \in Calls, NEW items, NEW forced, ProcessQueue(c, items, forced) PROVE UNCHANGED <<alerts, events>>
  BY <1>6 DEF ProcessQueue, lists
<1>7. ASSUME NEW cooled, Reconcile(cooled) PROVE UNCHANGED <<alerts, events>>
  BY <1>7 DEF Reconcile, lists
<1>8. ASSUME UNCHANGED vars PROVE UNCHANGED <<alerts, events>>
  BY <1>8 DEF vars, lists
<1> QED
  BY <1>1, <1>2, <1>3, <1>4, <1>5, <1>6, <1>7, <1>8

\* A replay reports the state it leaves its connector in.
LEMMA ReplayReports ==
  ASSUME Typed, NEW i \in Pending, NEW forced, ReplayItem(i, forced), policy' = policy
  PROVE  \E k \in Connector : \E breach : Reports(k, breach)
<1>1. TypeOK
  BY DEF Typed
<1>2. PICK j : j = queue[i].connector
  OBVIOUS
<1>3. j \in Connector /\ Counts(j, 0, 0)
  BY <1>1, <1>2, ReplayFacts
<1>4. stats'[j].total = stats[j].total /\ stats'[j].failed = stats[j].failed
  <2>1. stats[j].total \in Nat /\ stats[j].failed \in Nat
    <3>1. stats[j] \in Stats
      BY <1>1, <1>3 DEF TypeOK
    <3> QED
      BY <3>1, StatsAre
  <2> QED
    BY <1>3, <2>1 DEF Counts
<1>5. PICK breach : breach = SnapshotAfter(j, status'[j])
  OBVIOUS
<1>6. Report(j, breach)
  BY <1>2, <1>5 DEF ReplayItem
<1>7. breach = Current(j)'
  BY <1>4, <1>5 DEF SnapshotAfter, Current
<1> QED
  BY <1>3, <1>6, <1>7 DEF Reports, Told

\* So does a failure.
LEMMA FailureReports ==
  ASSUME Typed, NEW c \in Calls, RecordFailure(c)
  PROVE  \E k \in Connector : \E breach : Reports(k, breach)
<1>0. TypeOK
  BY DEF Typed
<1>1. PICK j : j = target[c]
  OBVIOUS
<1>2. j \in Connector
  BY <1>1 DEF Typed, CallPlaces, RecordFailure, Moves
<1>3. PICK breach : breach = Breach(stats'[j].total, stats'[j].failed, "degraded", policy[j])
  OBVIOUS
<1>4. /\ RecordAlert(j, breach) /\ policy' = policy
      /\ status' = [status EXCEPT ![j] = "degraded"]
  BY <1>1, <1>3 DEF RecordFailure
<1>5. status'[j] = "degraded"
  BY <1>0, <1>2, <1>4 DEF TypeOK
<1>6. breach = Current(j)'
  BY <1>3, <1>4, <1>5 DEF Current
<1> QED
  BY <1>2, <1>4, <1>6 DEF Reports, Told

\* A health check reports its view.
LEMMA CheckReports ==
  ASSUME Typed, NEW c \in Calls, ReportCheck(c)
  PROVE  \E k \in Connector : \E breach : Reports(k, breach)
<1>0. TypeOK
  BY DEF Typed
<1>1. /\ Moves(c, "read", "idle") /\ Report(target[c], view[c].breach)
      /\ UNCHANGED <<status, policy, stats>>
  BY DEF ReportCheck
<1>2. pc[c] = "read" /\ pc'[c] = "idle"
  BY <1>0, <1>1 DEF Moves, TypeOK
<1>3. target[c] \in Connector
  BY <1>2 DEF Typed, CallPlaces
<1>4. PICK k, breach : k = target[c] /\ breach = view[c].breach
  OBVIOUS
<1>5. Current(k)' = Current(k)
  BY <1>1 DEF Current
<1> QED
  BY <1>1, <1>2, <1>3, <1>4, <1>5 DEF Reports, Told

LEMMA StepKinds ==
  ASSUME IInv, [Next]_vars
  PROVE  \/ UNCHANGED <<alerts, events>>
         \/ \E e \in DOMAIN events : Acknowledge(e)
         \/ AutoResolve
         \/ \E k \in Connector : \E breach : Reports(k, breach)
<1> DEFINE Some == \E k \in Connector : \E breach : Reports(k, breach)
<1>0. Typed /\ TypeOK
  BY IInvTyped
<1>1. ASSUME NEW j \in Connector, GetReliability(j) PROVE Some
  <2>1. Report(j, Current(j)) /\ UNCHANGED <<status, policy, stats>>
    BY <1>1 DEF GetReliability
  <2>2. Current(j)' = Current(j)
    BY <2>1 DEF Current
  <2>3. PICK breach : breach = Current(j)
    OBVIOUS
  <2> QED
    BY <2>1, <2>2, <2>3 DEF Reports, Told
<1>2. ASSUME NEW c \in Calls, RecordFailure(c) PROVE Some
  BY <1>0, <1>2, FailureReports
<1>3. ASSUME NEW c \in Calls, ReportCheck(c) PROVE Some
  BY <1>0, <1>3, CheckReports
<1>4. ASSUME NEW i \in Pending, NEW forced \in BOOLEAN, ReplayOne(i, forced) PROVE Some
  <2>1. ReplayItem(i, forced) /\ policy' = policy
    BY <1>4 DEF ReplayOne
  <2> QED
    BY <1>0, <2>1, ReplayReports
<1>5. ASSUME NEW c \in Calls, NEW windowed \in BOOLEAN, ProcessItem(c, windowed)
      PROVE  UNCHANGED <<alerts, events>> \/ Some
  <2>1. CASE windowed
    BY <1>5, <2>1 DEF ProcessItem
  <2>2. CASE ~windowed
    <3>1. ReplayItem(Head(batch[c]), force[c]) /\ policy' = policy
      BY <1>5, <2>2 DEF ProcessItem
    <3>2. Head(batch[c]) \in Pending
      BY <1>0, <1>5, TailFacts DEF ProcessItem
    <3> QED
      BY <1>0, <3>1, <3>2, ReplayReports
  <2> QED
    BY <2>1, <2>2
<1> DEFINE Kinds == UNCHANGED <<alerts, events>> \/ (\E e \in DOMAIN events : Acknowledge(e)) \/ AutoResolve \/ Some
<1>6. Some => Kinds
  OBVIOUS
<1>7. UNCHANGED <<alerts, events>> => Kinds
  OBVIOUS
<1>8. (\E e \in DOMAIN events : Acknowledge(e)) \/ AutoResolve => Kinds
  OBVIOUS
<1> SUFFICES Kinds
  OBVIOUS
<1> HIDE DEF Some, Kinds
<1>9. CASE Next
  BY <1>1, <1>2, <1>3, <1>4, <1>5, <1>6, <1>7, <1>8, <1>9, AlertsStill DEF Next
<1>10. CASE UNCHANGED vars
  BY <1>7, <1>10, AlertsStill
<1> QED
  BY <1>9, <1>10

\* An alert that is not among the resolved ones, or was resolved already, stays as it is.
LEMMA ResolvesOnly ==
  ASSUME TypeOK, NEW closed, Resolves(closed), NEW a \in DOMAIN alerts,
         a \notin closed \/ alerts[a].status = "resolved"
  PROVE  alerts'[a] = alerts[a]
<1>1. \A x, y \in Alert :
        /\ x.connector = y.connector /\ x.type = y.type /\ x.status = y.status
        /\ x.breaches = y.breaches /\ x.escalated = y.escalated
        => x = y
  BY DEF Alert
<1>2. alerts[a] \in Alert /\ alerts'[a] \in Alert
  <2>1. \A b \in DOMAIN alerts' : alerts'[b] \in Alert
    BY LenProperties, ElementOfSeq DEF Resolves
  <2> QED
    BY <2>1, ListFacts DEF Resolves
<1>3. /\ alerts'[a].connector = alerts[a].connector /\ alerts'[a].type = alerts[a].type
      /\ alerts'[a].breaches = alerts[a].breaches /\ alerts'[a].escalated = alerts[a].escalated
      /\ alerts'[a].status = alerts[a].status
  BY DEF Resolves
<1>4. PICK x, y : x = alerts'[a] /\ y = alerts[a]
  OBVIOUS
<1> QED
  BY <1>1, <1>2, <1>3, <1>4

-----------------------------------------------------------------------------
(* Closed alerts stay closed.                                              *)

\* An event is resolved only with its alert, by the sweep.
EventsFollow ==
  \A e \in DOMAIN events :
    events[e].status = "resolved" => alerts[events[e].alert].status = "resolved"

\* What the property says of a step.
Closes ==
  /\ \A a \in DOMAIN alerts : alerts[a].status = "resolved" => alerts'[a] = alerts[a]
  /\ \A e \in DOMAIN events' \ DOMAIN events : alerts'[events'[e].alert].status = "open"
  /\ \A e \in DOMAIN events' : events'[e].status = "resolved" =>
                                  alerts'[events'[e].alert].status = "resolved"

LEMMA AcknowledgeCloses ==
  ASSUME TypeOK, EventsFollow, NEW e \in DOMAIN events, Acknowledge(e)
  PROVE  Closes
<1>1. /\ alerts' = alerts /\ events' = [events EXCEPT ![e].status = "acknowledged"]
      /\ DOMAIN events' = DOMAIN events
  BY DEF Acknowledge
<1>2. events'[e].status = "acknowledged"
  <2>1. events[e] \in Event
    BY ListFacts
  <2>2. [events[e] EXCEPT !.status = "acknowledged"].status = "acknowledged"
    BY <2>1 DEF Event
  <2> QED
    BY <1>1, <2>2
<1>3. \A f \in DOMAIN events : f # e => events'[f] = events[f]
  BY <1>1
<1> QED
  BY <1>1, <1>2, <1>3 DEF Closes, EventsFollow

LEMMA SweepCloses ==
  ASSUME TypeOK, EventsFollow, AutoResolve
  PROVE  Closes
<1>1. PICK closed : Resolves(closed)
  BY SweepFacts
<1>2. /\ DOMAIN events' = DOMAIN events
      /\ \A e \in DOMAIN events : events'[e].alert = events[e].alert /\ events[e].alert \in DOMAIN alerts
      /\ \A e \in DOMAIN events : alerts'[events[e].alert].status = "open" => events'[e] = events[e]
  BY SweepFacts DEF Alike, TypeOK
<1>3. \A a \in DOMAIN alerts : alerts[a].status = "resolved" => alerts'[a] = alerts[a]
  BY <1>1, ResolvesOnly
<1>4. \A a \in DOMAIN alerts : alerts'[a].status \in {"open", "resolved"}
  <2>1. \A a \in DOMAIN alerts : alerts[a].status \in {"open", "resolved"}
    BY ListFacts DEF Alert
  <2> QED
    BY <1>1, <2>1 DEF Resolves
<1>5. ASSUME NEW e \in DOMAIN events, events'[e].status = "resolved",
             alerts'[events[e].alert].status = "open"
      PROVE  FALSE
  <2>1. events[e].status = "resolved"
    BY <1>2, <1>5
  <2>2. alerts[events[e].alert].status = "resolved"
    BY <2>1 DEF EventsFollow
  <2> QED
    BY <1>2, <1>3, <1>5, <2>2
<1> QED
  BY <1>2, <1>3, <1>4, <1>5 DEF Closes

LEMMA ReportsClose ==
  ASSUME TypeOK, EventsFollow, NEW k \in Connector, NEW breach, Told(k, breach)
  PROVE  Closes
<1>0. \A e \in DOMAIN events : events[e].alert \in DOMAIN alerts
  BY DEF TypeOK
<1>1. CASE UNCHANGED <<alerts, events>>
  BY <1>1 DEF Closes, EventsFollow
<1>2. ASSUME NEW closed, Resolves(closed), events' = events PROVE Closes
  <2>1. \A a \in DOMAIN alerts : alerts[a].status = "resolved" => alerts'[a] = alerts[a]
    BY <1>2, ResolvesOnly
  <2> QED
    BY <1>0, <1>2, <2>1 DEF Closes, EventsFollow
<1>3. ASSUME NEW a, NEW fired, Records(k, breach, a, fired) PROVE Closes
  <2>1. /\ a \in Nat /\ fired \in SUBSET DOMAIN rules /\ Emit(fired, a)
        /\ DOMAIN alerts' = DOMAIN alerts \cup {a} /\ alerts'[a].status = "open"
        /\ a \in DOMAIN alerts => alerts[a].status = "open"
        /\ \A b \in DOMAIN alerts : b # a => alerts'[b] = alerts[b]
    BY <1>3, ListFacts DEF Records
  <2>2. /\ \A e \in DOMAIN events : e \in DOMAIN events' /\ events'[e] = events[e]
        /\ \A e \in DOMAIN events' \ DOMAIN events :
             events'[e].alert = a /\ events'[e].status = "triggered"
    BY <2>1, EmitFacts
  <2>3. \A b \in DOMAIN alerts : alerts[b].status = "resolved" => alerts'[b] = alerts[b]
    BY <2>1
  <2> QED
    BY <1>0, <2>1, <2>2, <2>3 DEF Closes, EventsFollow
<1> QED
  BY <1>1, <1>2, <1>3, ReportFacts, RecordFacts DEF Told

LEMMA StepCloses ==
  ASSUME IInv, EventsFollow, [Next]_vars
  PROVE  Closes
<1>1. TypeOK
  BY IInvTyped
<1>2. CASE UNCHANGED <<alerts, events>>
  BY <1>2 DEF Closes, EventsFollow
<1>3. CASE \E e \in DOMAIN events : Acknowledge(e)
  BY <1>1, <1>3, AcknowledgeCloses
<1>4. CASE AutoResolve
  BY <1>1, <1>4, SweepCloses
<1>5. CASE \E k \in Connector : \E breach : Reports(k, breach)
  BY <1>1, <1>5, ReportsClose DEF Reports
<1> QED
  BY <1>2, <1>3, <1>4, <1>5, StepKinds

\* Nothing takes up an alert that was closed, and nobody is notified of it again: not the
\* late report of a health check, nor a rule added since, nor the sweep.
THEOREM ClosedStaysClosed == Spec => ClosedForGood
<1>1. Init => EventsFollow
  BY DEF Init, EventsFollow
<1>2. IInv /\ EventsFollow /\ [Next]_vars => EventsFollow'
  BY StepCloses DEF Closes, EventsFollow
<1>3. Spec => []EventsFollow
  BY <1>1, <1>2, ConnectorsInvariant, PTL DEF Spec
<1>4. IInv /\ EventsFollow /\ [Next]_vars => Closes
  BY StepCloses
<1> QED
  BY <1>3, <1>4, ConnectorsInvariant, PTL DEF Spec, ClosedForGood, Closes

-----------------------------------------------------------------------------
(* An alert tells the state of its connector.                              *)

\* What a step tells of k by the alerts it touches is the state k is in.
Tells(k) ==
  LET now == Current(k)'
      mine == {a \in DOMAIN alerts' : alerts'[a].connector = k}
  IN \A a \in mine :
       \/ a \in DOMAIN alerts /\ alerts'[a] = alerts[a]
       \/ now # {} /\ alerts'[a].status = "open" /\ alerts'[a].type = AlertType(now)
       \/ now = {} /\ \A b \in mine : alerts'[b].status = "resolved"

\* A report touches alerts of its connector alone, and makes them tell what it reports.
LEMMA ToldTells ==
  ASSUME TypeOK, NEW j \in Connector, NEW breach, Told(j, breach),
         NEW k \in Connector, k = j => breach = Current(k)'
  PROVE  Tells(k)
<1>1. CASE UNCHANGED alerts
  BY <1>1 DEF Tells
<1>2. ASSUME NEW a, NEW fired, Records(j, breach, a, fired), breach # {} PROVE Tells(k)
  <2>1. /\ DOMAIN alerts' = DOMAIN alerts \cup {a}
        /\ \A b \in DOMAIN alerts : b # a => alerts'[b] = alerts[b]
        /\ alerts'[a].connector = j /\ alerts'[a].status = "open"
        /\ alerts'[a].type = AlertType(breach)
    BY <1>2 DEF Records
  <2> QED
    BY <1>2, <2>1 DEF Tells
<1>3. ASSUME breach = {},
             Resolves({a \in DOMAIN alerts : alerts[a].connector = j /\ alerts[a].status = "open"})
      PROVE  Tells(k)
  <2> DEFINE closed == {a \in DOMAIN alerts : alerts[a].connector = j /\ alerts[a].status = "open"}
  <2>1. /\ DOMAIN alerts' = DOMAIN alerts
        /\ \A a \in DOMAIN alerts : alerts'[a].connector = alerts[a].connector
        /\ \A a \in DOMAIN alerts : alerts'[a].status = IF a \in closed THEN "resolved" ELSE alerts[a].status
    BY <1>3 DEF Resolves
  <2>2. \A a \in DOMAIN alerts : alerts[a].status \in {"open", "resolved"}
    BY ListFacts DEF Alert
  <2>3. \A a \in DOMAIN alerts : a \notin closed => alerts'[a] = alerts[a]
    <3> HIDE DEF closed
    <3> QED
      BY <1>3, ResolvesOnly DEF closed
  <2>4. \A a \in DOMAIN alerts : alerts[a].connector = j => alerts'[a].status = "resolved"
    BY <2>1, <2>2
  <2> QED
    BY <1>3, <2>1, <2>3, <2>4 DEF Tells
<1> QED
  BY <1>1, <1>2, <1>3, ReportFacts, RecordFacts DEF Told

\* The sweep resolves every open alert of the connectors that have recovered.
LEMMA SweepTells ==
  ASSUME TypeOK, AutoResolve, NEW k \in Connector
  PROVE  Tells(k)
<1> DEFINE closed == {a \in DOMAIN alerts : Recovered(a)}
<1>1. /\ Resolves(closed) /\ DOMAIN alerts' = DOMAIN alerts
      /\ \A a \in DOMAIN alerts : alerts'[a].connector = alerts[a].connector
      /\ \A a \in DOMAIN alerts : alerts'[a].status = IF a \in closed THEN "resolved" ELSE alerts[a].status
  BY SweepFacts DEF Resolves
<1>2. \A a \in DOMAIN alerts : alerts[a].status \in {"open", "resolved"}
  BY ListFacts DEF Alert
<1>3. \A a \in DOMAIN alerts : a \notin closed => alerts'[a] = alerts[a]
  <2> HIDE DEF closed
  <2> QED
    BY <1>1, ResolvesOnly
<1>4. Current(k)' = Current(k)
  BY DEF AutoResolve, Current
<1>5. CASE Current(k) = {}
  <2>1. \A a \in DOMAIN alerts : alerts[a].connector = k => alerts'[a].status = "resolved"
    BY <1>1, <1>2, <1>5 DEF Recovered
  <2> QED
    BY <1>1, <1>4, <1>5, <2>1 DEF Tells
<1>6. CASE Current(k) # {}
  <2>1. \A a \in DOMAIN alerts : alerts[a].connector = k => a \notin closed
    BY <1>6 DEF Recovered
  <2> QED
    BY <1>1, <1>3, <2>1 DEF Tells
<1> QED
  BY <1>5, <1>6

LEMMA StepTells ==
  ASSUME IInv, [Next]_vars, NEW k \in Connector
  PROVE  Tells(k) \/ Misreports(k)
<1>1. TypeOK
  BY IInvTyped
<1>2. ASSUME alerts' = alerts PROVE Tells(k)
  BY <1>2 DEF Tells
<1>3. CASE \E e \in DOMAIN events : Acknowledge(e)
  BY <1>2, <1>3 DEF Acknowledge
<1>4. CASE AutoResolve
  BY <1>1, <1>4, SweepTells
<1>5. ASSUME NEW j \in Connector, NEW breach, Reports(j, breach) PROVE Tells(k) \/ Misreports(k)
  <2>1. CASE k = j => breach = Current(k)'
    BY <1>1, <1>5, <2>1, ToldTells DEF Reports
  <2>2. CASE k = j /\ breach # Current(k)'
    BY <1>5, <2>2 DEF Reports, Misreports
  <2> QED
    BY <2>1, <2>2
<1> QED
  BY <1>2, <1>3, <1>4, <1>5, StepKinds

\* An alert that a step opens, counts, escalates or closes tells the state its connector is
\* in, unless the step is the report of a health check that read another one.
THEOREM AlertsTellTheState == Spec => OnlyChecksMislead
<1> DEFINE Body == \A k \in Connector :
             LET now == Current(k)'
                 mine == {a \in DOMAIN alerts' : alerts'[a].connector = k}
             IN \A a \in mine :
                  \/ a \in DOMAIN alerts /\ alerts'[a] = alerts[a]
                  \/ Misreports(k)
                  \/ now # {} /\ alerts'[a].status = "open" /\ alerts'[a].type = AlertType(now)
                  \/ now = {} /\ \A b \in mine : alerts'[b].status = "resolved"
<1>1. ASSUME IInv, [Next]_vars PROVE Body
  <2>1. \A k \in Connector : Tells(k) \/ Misreports(k)
    BY <1>1, StepTells
  <2> QED
    BY <2>1 DEF Tells
<1> QED
  BY <1>1, ConnectorsInvariant, PTL DEF Spec, OnlyChecksMislead
=============================================================================
