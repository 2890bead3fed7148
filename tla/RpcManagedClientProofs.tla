------------------------ MODULE RpcManagedClientProofs ------------------------
(***************************************************************************)
(* The connection pool of RpcManagedClient keeps its books, for every      *)
(* number of tasks, endpoints, connections and waiters, however the        *)
(* servers behave.                                                         *)
(***************************************************************************)
EXTENDS RpcManagedClient, FiniteSetTheorems, SequenceTheorems, WellFoundedInduction, TLAPS

\* The tasks that have a connection of endpoint e.
Holders(e) == {t \in Clients : Holds(t, e)}

Bucket == [available : Nat, in_use : Nat, total : Nat, waiters : Seq(Clients)]

\* A bucket that n tasks hold connections of.
Counted(b, n) ==
    /\ b \in Bucket
    /\ b.in_use = n /\ b.total = n + b.available /\ b.total <= MaxConnections
    /\ b.waiters # <<>> => b.available = 0 /\ b.total = MaxConnections

IType ==
    /\ next_index \in Nat
    /\ endpoint \in [Clients -> Servers]
    /\ DOMAIN callPc = Clients /\ DOMAIN grant = Clients

\* A grant is a connection, for a task that waits for it.
IGrant ==
    \A t \in Clients : grant[t] = "none" \/ (grant[t] = "lease" /\ callPc[t] = "waiting")

\* A queue holds tasks that wait for the queue's endpoint, each one once.
QueueOf(e) ==
    LET w == bucket[e].waiters
    IN  /\ \A i \in 1..Len(w) :
              callPc[w[i]] = "waiting" /\ grant[w[i]] = "none" /\ endpoint[w[i]] = e
        /\ \A i, j \in 1..Len(w) : w[i] = w[j] => i = j
IQueue == \A e \in Servers : QueueOf(e)

ICount ==
    /\ DOMAIN bucket = Servers
    /\ \A e \in Servers : Counted(bucket[e], Cardinality(Holders(e)))

IInv == ~m_shutdown => IType /\ IGrant /\ IQueue /\ ICount

-----------------------------------------------------------------------------
(* Lemmas *)

\* selectEndpoint() chooses an endpoint: the first of a set of positions is
\* one of them.
LEMMA FirstIn ==
    ASSUME NEW S \in SUBSET Nat, S # {}
    PROVE  First(S) \in S
  <1>1. \E x \in S : \A y \in S : ~(<<y, x>> \in OpToRel(<, Nat))
    BY NatLessThanWellFounded, WFMin
  <1>2. PICK x \in S : \A y \in S : ~(<<y, x>> \in OpToRel(<, Nat))
    BY <1>1
  <1>3. ASSUME NEW y \in S
        PROVE  x <= y
    <2>1. x \in Nat /\ y \in Nat
      OBVIOUS
    <2>2. ~(y < x)
      BY <1>2, <2>1, Zenon DEF OpToRel
    <2> QED
      BY <2>1, <2>2
  <1> QED
    BY <1>3 DEF First

\* The endpoint that selectEndpoint() takes is one of the snapshot.
LEMMA Selected ==
    ASSUME NEW t \in Clients, NEW start \in Nat, endpoint \in [Clients -> Servers],
           selectEndpoint(t, start)
    PROVE  /\ next_index' \in Nat
           /\ endpoint' \in [Clients -> Servers]
           /\ \A u \in Clients : u # t => endpoint'[u] = endpoint[u]
  <1> DEFINE allowed == Skips(start, m_unavailable_endpoints)
             i == IF allowed = {} THEN 1 ELSE First(allowed)
  <1>1. Len(Endpoints) \in Nat \ {0} /\ DOMAIN Endpoints = 1..Len(Endpoints)
    BY RpcAssumption, LenProperties
  <1>2. allowed \in SUBSET Nat /\ allowed \subseteq 1..Len(Endpoints)
    BY <1>1 DEF Skips
  <1>3. i \in 1..Len(Endpoints)
    BY <1>1, <1>2, FirstIn
  <1> HIDE DEF i
  <1>4. Order(start)[i] \in 1..Len(Endpoints)
    <2>1. (start + i - 1) % Len(Endpoints) \in 0..(Len(Endpoints) - 1)
      BY <1>1, <1>3
    <2>2. Order(start)[i] = ((start + i - 1) % Len(Endpoints)) + 1
      BY <1>3 DEF Order
    <2> QED
      BY <1>1, <2>1, <2>2
  <1>5. Endpoints[Order(start)[i]] \in Servers
    BY <1>1, <1>4 DEF Servers
  <1>6. (start + i) % Len(Endpoints) \in Nat
    BY <1>1, <1>3
  <1>7. /\ endpoint' = [endpoint EXCEPT ![t] = Endpoints[Order(start)[i]]]
        /\ next_index' = (start + i) % Len(Endpoints)
    BY DEF selectEndpoint, i
  <1> QED
    BY <1>5, <1>6, <1>7

\* The tasks that hold a connection are finitely many.
LEMMA HoldersFinite ==
    ASSUME NEW e
    PROVE  IsFiniteSet(Holders(e)) /\ Cardinality(Holders(e)) \in Nat
  BY RpcAssumption, FS_Subset, FS_CardinalityType DEF Holders

\* ensureEndpoint() adds connections that nobody holds, and none beside a
\* queue.
LEMMA PrewarmedCounted ==
    ASSUME NEW b, NEW n \in Nat, Counted(b, n)
    PROVE  Counted(Prewarmed(b), n) /\ Prewarmed(b).waiters = b.waiters
  <1>1. CASE b.total < MinConnections
    <2> DEFINE r == Prewarmed(b)
               more == b.available + MinConnections - b.total
    <2>1. b.total \in Nat /\ b.available \in Nat /\ MinConnections \in Nat
      BY RpcAssumption DEF Counted, Bucket
    <2>2. more \in Nat
      BY <1>1, <2>1
    <2>3. r = [b EXCEPT !.available = more, !.total = MinConnections]
      BY <1>1 DEF Prewarmed
    <2> HIDE DEF more, r
    <2>4. r \in Bucket
      BY <2>1, <2>2, <2>3 DEF Counted, Bucket
    <2>5. r.available = more /\ r.total = MinConnections /\ r.in_use = b.in_use
          /\ r.waiters = b.waiters
      BY <2>3 DEF Counted, Bucket
    <2>6. r.total = n + r.available /\ r.total <= MaxConnections /\ b.waiters = <<>>
      BY <1>1, <2>1, <2>5, RpcAssumption DEF Counted, more
    <2> QED
      BY <2>4, <2>5, <2>6 DEF Counted, r
  <1>2. CASE ~(b.total < MinConnections)
    BY <1>2 DEF Prewarmed
  <1> QED
    BY <1>1, <1>2

\* release() counts the connection out first.
LEMMA Returning ==
    ASSUME NEW b, NEW n \in Nat \ {0}, Counted(b, n)
    PROVE  LET q == [b EXCEPT !.in_use = Dec(@)]
           IN  /\ q \in Bucket /\ q.in_use = n - 1
               /\ q.available = b.available /\ q.total = b.total /\ q.waiters = b.waiters
               /\ b.available \in Nat /\ b.total \in Nat \ {0}
  <1>1. b \in Bucket /\ b.in_use = n /\ b.total = n + b.available
    BY DEF Counted
  <1>2. b.available \in Nat /\ b.total \in Nat \ {0}
    BY <1>1 DEF Bucket
  <1>3. Dec(b.in_use) = n - 1 /\ n - 1 \in Nat
    BY <1>1 DEF Dec
  <1> QED
    BY <1>1, <1>2, <1>3 DEF Bucket

\* release() without a waiter gives one connection back.
LEMMA ReleasedAlone ==
    ASSUME NEW b, NEW n \in Nat \ {0}, Counted(b, n), NEW broken \in BOOLEAN, ~m_shutdown,
           b.waiters = <<>>
    PROVE  Counted(Released(b, broken), n - 1) /\ Released(b, broken).waiters = <<>>
  <1> DEFINE q == [b EXCEPT !.in_use = Dec(@)]
             r == Released(b, broken)
  <1>1. /\ q \in Bucket /\ q.in_use = n - 1
        /\ q.available = b.available /\ q.total = b.total /\ q.waiters = <<>>
        /\ b.available \in Nat /\ b.total \in Nat \ {0}
    BY Returning
  <1>2. CASE broken
    <2>1. r = [q EXCEPT !.total = Dec(@)]
      BY <1>2 DEF Released
    <2> HIDE DEF q, r
    <2>2. Dec(q.total) = b.total - 1 /\ b.total - 1 \in Nat
      BY <1>1 DEF Dec
    <2>3. r \in Bucket /\ r.available = b.available /\ r.total = b.total - 1
          /\ r.in_use = n - 1 /\ r.waiters = <<>>
      BY <1>1, <2>1, <2>2 DEF Bucket
    <2> QED
      BY <1>1, <2>3, RpcAssumption DEF Counted, r
  <1>3. CASE ~broken
    <2>1. r = [q EXCEPT !.available = @ + 1]
      BY <1>3 DEF Released
    <2> HIDE DEF q, r
    <2>2. r \in Bucket /\ r.available = b.available + 1 /\ r.total = b.total
          /\ r.in_use = n - 1 /\ r.waiters = <<>>
      BY <1>1, <2>1 DEF Bucket
    <2> QED
      BY <1>1, <2>2, RpcAssumption DEF Counted, r
  <1> QED
    BY <1>2, <1>3

\* release() with a waiter hands the connection, or a new one, to the first.
LEMMA ReleasedHanded ==
    ASSUME NEW b, NEW n \in Nat \ {0}, Counted(b, n), NEW broken \in BOOLEAN, ~m_shutdown,
           b.waiters # <<>>
    PROVE  Counted(Released(b, broken), n) /\ Released(b, broken).waiters = Tail(b.waiters)
  <1> DEFINE q == [b EXCEPT !.in_use = Dec(@)]
             r == Released(b, broken)
  <1>1. /\ q \in Bucket /\ q.in_use = n - 1
        /\ q.available = b.available /\ q.total = b.total /\ q.waiters = b.waiters
    BY Returning
  <1>2. Tail(b.waiters) \in Seq(Clients)
    BY HeadTailProperties DEF Counted, Bucket
  <1>3. r = [q EXCEPT !.in_use = @ + 1, !.waiters = Tail(@)]
    BY DEF Released
  <1> HIDE DEF q, r
  <1>4. q.in_use + 1 = n /\ n \in Nat
    BY <1>1
  <1>5. r \in Bucket
    BY <1>1, <1>2, <1>3, <1>4 DEF Bucket
  <1>6. r.available = b.available /\ r.total = b.total /\ r.waiters = Tail(b.waiters)
    BY <1>1, <1>3 DEF Bucket
  <1>7. r.in_use = n
    BY <1>1, <1>3, <1>4 DEF Bucket
  <1> QED
    BY <1>5, <1>6, <1>7 DEF Counted, r

-----------------------------------------------------------------------------
(* The kinds of steps *)

Busy == {"connect", "call", "close"}

\* The buckets as they are, or after ensureEndpoint().
Filled == bucket' = bucket \/ bucket' = [e \in Servers |-> Prewarmed(bucket[e])]

\* When the same tasks hold the same connections, filling the buckets keeps
\* the counts and the queues.
LEMMA FilledCounts ==
    ASSUME ICount, Filled, \A e \in Servers : Holders(e)' = Holders(e)
    PROVE  ICount' /\ \A e \in Servers : bucket'[e].waiters = bucket[e].waiters
  <1>1. CASE bucket' = bucket
    BY <1>1 DEF ICount
  <1>2. CASE bucket' = [e \in Servers |-> Prewarmed(bucket[e])]
    BY <1>2, PrewarmedCounted, HoldersFinite DEF ICount
  <1> QED
    BY <1>1, <1>2 DEF Filled

\* Who is in a queue is a task that waits, so not one that is running.
LEMMA Queued ==
    ASSUME IQueue, ICount, NEW e \in Servers, NEW i \in 1..Len(bucket[e].waiters)
    PROVE  LET u == bucket[e].waiters[i]
           IN  u \in Clients /\ callPc[u] = "waiting" /\ grant[u] = "none" /\ endpoint[u] = e
  <1>1. bucket[e].waiters[i] \in Clients
    BY ElementOfSeq DEF ICount, Counted, Bucket
  <1>2. QueueOf(e)
    BY DEF IQueue
  <1> QED
    BY <1>1, <1>2 DEF QueueOf

\* A queue stays sound when nothing happens to it and to the tasks in it.
LEMMA SameQueue ==
    ASSUME IQueue, NEW e \in Servers, bucket'[e].waiters = bucket[e].waiters,
           \A i \in 1..Len(bucket[e].waiters) :
              LET u == bucket[e].waiters[i]
              IN  callPc'[u] = callPc[u] /\ grant'[u] = grant[u] /\ endpoint'[u] = endpoint[u]
    PROVE  QueueOf(e)'
  <1>1. QueueOf(e)
    BY DEF IQueue
  <1> QED
    BY <1>1 DEF QueueOf

\* A step of a task that has nothing to do with the pool.
LEMMA StepElsewhere ==
    ASSUME IType, IGrant, IQueue, ICount, NEW t \in Clients, NEW l,
           callPc[t] \notin Busy \cup {"waiting"}, l \notin Busy \cup {"waiting"}, Goto(t, l),
           UNCHANGED grant, next_index' \in Nat, endpoint' \in [Clients -> Servers],
           \A u \in Clients : u # t => endpoint'[u] = endpoint[u],
           Filled
    PROVE  IType' /\ IGrant' /\ IQueue' /\ ICount'
  <1> USE DEF Goto
  <1>1. IType'
    BY DEF IType
  <1>2. callPc'[t] = l /\ \A u \in Clients : u # t => callPc'[u] = callPc[u]
    BY DEF IType
  <1>3. IGrant'
    BY <1>2 DEF IGrant
  <1>4. ASSUME NEW e \in Servers
        PROVE  Holders(e)' = Holders(e)
    <2>1. ~Holds(t, e) /\ ~Holds(t, e)'
      BY <1>2 DEF Holds, IGrant, Busy
    <2>2. ASSUME NEW u \in Clients, u # t
          PROVE  Holds(u, e)' <=> Holds(u, e)
      BY <1>2, <2>2 DEF Holds
    <2> QED
      BY <2>1, <2>2 DEF Holders
  <1>5. ICount' /\ \A e \in Servers : bucket'[e].waiters = bucket[e].waiters
    BY <1>4, FilledCounts
  <1>6. ASSUME NEW e \in Servers
        PROVE  QueueOf(e)'
    <2>1. ASSUME NEW i \in 1..Len(bucket[e].waiters)
          PROVE  bucket[e].waiters[i] \in Clients \ {t}
      BY Queued
    <2> QED
      BY <1>2, <1>5, <2>1, SameQueue
  <1>7. IQueue'
    BY <1>6 DEF IQueue
  <1> QED
    BY <1>1, <1>3, <1>5, <1>7

\* refresh() moves no task.
LEMMA StepRefresh ==
    ASSUME IType, IGrant, IQueue, ICount, UNCHANGED <<callPc, grant, endpoint>>,
           next_index' \in Nat, Filled
    PROVE  IType' /\ IGrant' /\ IQueue' /\ ICount'
  <1>1. IType' /\ IGrant'
    BY DEF IType, IGrant
  <1>2. ASSUME NEW e \in Servers
        PROVE  Holders(e)' = Holders(e)
    BY DEF Holders, Holds
  <1>3. ICount' /\ \A e \in Servers : bucket'[e].waiters = bucket[e].waiters
    BY <1>2, FilledCounts
  <1>4. ASSUME NEW e \in Servers
        PROVE  QueueOf(e)'
    BY <1>3, SameQueue
  <1>5. IQueue'
    BY <1>4 DEF IQueue
  <1> QED
    BY <1>1, <1>3, <1>5

\* A task goes on with the connection it has, or takes up the one it was given.
LEMMA StepHolding ==
    ASSUME IType, IGrant, IQueue, ICount, NEW t \in Clients, NEW l \in Busy, Goto(t, l),
           UNCHANGED <<endpoint, next_index, bucket>>,
           \/ callPc[t] \in Busy /\ UNCHANGED grant
           \/ grant[t] = "lease" /\ grant' = [grant EXCEPT ![t] = "none"]
    PROVE  IType' /\ IGrant' /\ IQueue' /\ ICount'
  <1> USE DEF Goto
  <1>1. IType'
    BY DEF IType
  <1>2. callPc'[t] = l /\ grant'[t] = "none"
    BY DEF IType, IGrant, Busy
  <1>3. \A u \in Clients : u # t => callPc'[u] = callPc[u] /\ grant'[u] = grant[u]
    BY DEF IType
  <1>4. IGrant'
    BY <1>2, <1>3 DEF IGrant
  <1>5. ASSUME NEW e \in Servers
        PROVE  Holders(e)' = Holders(e)
    <2>1. Holds(t, e)' <=> Holds(t, e)
      BY <1>2 DEF Holds, Busy
    <2>2. ASSUME NEW u \in Clients, u # t
          PROVE  Holds(u, e)' <=> Holds(u, e)
      BY <1>3, <2>2 DEF Holds
    <2> QED
      BY <2>1, <2>2 DEF Holders
  <1>6. ICount'
    BY <1>5, FilledCounts DEF Filled
  <1>7. ASSUME NEW e \in Servers
        PROVE  QueueOf(e)'
    <2>1. ASSUME NEW i \in 1..Len(bucket[e].waiters)
          PROVE  bucket[e].waiters[i] \in Clients \ {t}
      BY Queued DEF Busy
    <2> QED
      BY <1>3, <2>1, SameQueue
  <1>8. IQueue'
    BY <1>7 DEF IQueue
  <1> QED
    BY <1>1, <1>4, <1>6, <1>8

\* acquire() with a connection to be had, which is only so without a queue.
LEMMA StepTake ==
    ASSUME IType, IGrant, IQueue, ICount, NEW t \in Clients, NEW new,
           callPc[t] = "acquire", Goto(t, "connect"), UNCHANGED <<endpoint, next_index, grant>>,
           bucket' = [bucket EXCEPT ![endpoint[t]] = new],
           bucket[endpoint[t]].waiters = <<>>, new.waiters = <<>>,
           Counted(new, Cardinality(Holders(endpoint[t])) + 1)
    PROVE  IType' /\ IGrant' /\ IQueue' /\ ICount'
  <1> USE DEF Goto
  <1> DEFINE e == endpoint[t]
  <1>1. IType' /\ e \in Servers
    BY DEF IType
  <1>2. callPc'[t] = "connect" /\ \A u \in Clients : u # t => callPc'[u] = callPc[u]
    BY DEF IType
  <1>3. IGrant'
    BY <1>2 DEF IGrant
  <1>4. bucket'[e] = new /\ \A f \in Servers : f # e => bucket'[f] = bucket[f]
    BY <1>1 DEF ICount
  <1>5. Holders(e)' = Holders(e) \cup {t} /\ t \notin Holders(e)
    BY <1>2 DEF Holders, Holds, IGrant
  <1>6. ASSUME NEW f \in Servers, f # e
        PROVE  Holders(f)' = Holders(f)
    BY <1>2, <1>6 DEF Holders, Holds
  <1>7. Cardinality(Holders(e)') = Cardinality(Holders(e)) + 1
    BY <1>5, HoldersFinite, FS_AddElement
  <1>8. ICount'
    <2>1. Counted(bucket'[e], Cardinality(Holders(e)'))
      BY <1>4, <1>7
    <2>2. ASSUME NEW f \in Servers, f # e
          PROVE  Counted(bucket'[f], Cardinality(Holders(f)'))
      BY <1>4, <1>6, <2>2 DEF ICount
    <2>3. DOMAIN bucket' = Servers
      BY DEF ICount
    <2> QED
      BY <2>1, <2>2, <2>3 DEF ICount
  <1>9. \A f \in Servers : bucket'[f].waiters = bucket[f].waiters
    BY <1>4
  <1>10. \A f \in Servers : \A i \in 1..Len(bucket[f].waiters) :
            bucket[f].waiters[i] \in Clients \ {t}
    BY Queued
  <1>11. ASSUME NEW f \in Servers
         PROVE  QueueOf(f)'
    BY <1>2, <1>9, <1>10, SameQueue
  <1>12. IQueue'
    BY <1>11 DEF IQueue
  <1> QED
    BY <1>1, <1>3, <1>8, <1>12

\* acquire() with nothing to be had: the task joins the queue.
LEMMA StepWait ==
    ASSUME IType, IGrant, IQueue, ICount, NEW t \in Clients,
           callPc[t] = "acquire", Goto(t, "waiting"), UNCHANGED <<endpoint, next_index, grant>>,
           bucket' = [bucket EXCEPT ![endpoint[t]].waiters = Append(@, t)],
           bucket[endpoint[t]].available = 0, bucket[endpoint[t]].total >= MaxConnections
    PROVE  IType' /\ IGrant' /\ IQueue' /\ ICount'
  <1> USE DEF Goto
  <1>0. PICK e \in Servers : e = endpoint[t]
    BY DEF IType
  <1> DEFINE w == bucket[e].waiters
  <1>1. IType' /\ e \in Servers
    BY DEF IType
  <1>2. callPc'[t] = "waiting" /\ \A u \in Clients : u # t => callPc'[u] = callPc[u]
    BY DEF IType
  <1>3. IGrant'
    BY <1>2 DEF IGrant
  <1>4. bucket'[e] = [bucket[e] EXCEPT !.waiters = Append(w, t)]
        /\ \A f \in Servers : f # e => bucket'[f] = bucket[f]
    BY <1>0, <1>1 DEF ICount
  <1>5. ASSUME NEW f \in Servers
        PROVE  Holders(f)' = Holders(f)
    BY <1>2 DEF Holders, Holds, IGrant
  <1>6. w \in Seq(Clients) /\ bucket[e] \in Bucket /\ Counted(bucket[e], Cardinality(Holders(e)))
    BY <1>1 DEF ICount, Counted, Bucket
  <1>7. /\ Append(w, t) \in Seq(Clients) /\ Len(Append(w, t)) = Len(w) + 1 /\ Len(w) \in Nat
        /\ \A i \in 1..Len(w) : Append(w, t)[i] = w[i]
        /\ Append(w, t)[Len(w) + 1] = t
    BY <1>6, AppendProperties, LenProperties
  <1>8. bucket'[e] \in Bucket /\ bucket'[e].waiters = Append(w, t)
        /\ bucket'[e].available = 0 /\ bucket'[e].total = bucket[e].total
        /\ bucket'[e].in_use = bucket[e].in_use
    <2> DEFINE b == bucket[e]
               r == bucket'[e]
               queue == Append(w, t)
    <2>1. r = [b EXCEPT !.waiters = queue] /\ b \in Bucket /\ queue \in Seq(Clients)
          /\ b.available = 0
      BY <1>0, <1>4, <1>6, <1>7
    <2> HIDE DEF b, r, queue
    <2>2. r \in Bucket /\ r.waiters = queue /\ r.available = 0 /\ r.total = b.total
          /\ r.in_use = b.in_use
      BY <2>1 DEF Bucket
    <2> QED
      BY <2>2 DEF b, r, queue
  <1>9. bucket[e].total = MaxConnections
    BY <1>0, <1>6, RpcAssumption DEF Counted, Bucket
  <1>10. ICount'
    <2>1. Counted(bucket'[e], Cardinality(Holders(e)'))
      BY <1>1, <1>5, <1>6, <1>8, <1>9 DEF Counted
    <2>2. ASSUME NEW f \in Servers, f # e
          PROVE  Counted(bucket'[f], Cardinality(Holders(f)'))
      BY <1>4, <1>5, <2>2 DEF ICount
    <2>3. DOMAIN bucket' = Servers
      BY DEF ICount
    <2> QED
      BY <2>1, <2>2, <2>3 DEF ICount
  <1>11. \A f \in Servers : \A i \in 1..Len(bucket[f].waiters) :
            bucket[f].waiters[i] \in Clients \ {t}
    BY Queued
  <1>12. IQueue'
    <2> DEFINE v == bucket'[e].waiters
    <2>1. ASSUME NEW i \in 1..Len(v)
          PROVE  callPc'[v[i]] = "waiting" /\ grant'[v[i]] = "none" /\ endpoint'[v[i]] = e
      <3>1. CASE i = Len(w) + 1
        BY <1>0, <1>2, <1>7, <1>8, <3>1 DEF IGrant
      <3>2. CASE i \in 1..Len(w)
        <4>1. v[i] = w[i]
          BY <1>7, <1>8, <3>2
        <4>2. /\ callPc[w[i]] = "waiting" /\ grant[w[i]] = "none" /\ endpoint[w[i]] = e
              /\ w[i] \in Clients \ {t}
          BY <1>1, <1>11, <3>2, Queued
        <4> QED
          BY <1>2, <4>1, <4>2
      <3>3. Len(v) = Len(w) + 1 /\ Len(w) \in Nat
        BY <1>7, <1>8
      <3>4. i = Len(w) + 1 \/ i \in 1..Len(w)
        <4> HIDE DEF v, w
        <4> QED
          BY <3>3
      <3> QED
        BY <3>1, <3>2, <3>4
    <2>2. ASSUME NEW i \in 1..Len(v), NEW j \in 1..Len(v), v[i] = v[j]
          PROVE  i = j
      <3>1. v = Append(w, t) /\ Len(v) = Len(w) + 1 /\ Len(w) \in Nat
        BY <1>7, <1>8
      <3>2. \A k, m \in 1..Len(w) : w[k] = w[m] => k = m
        BY <1>1 DEF IQueue, QueueOf
      <3>3. \A k \in 1..Len(w) : w[k] # t /\ v[k] = w[k]
        BY <1>1, <1>7, <1>8, <1>11
      <3>4. v[Len(w) + 1] = t
        BY <1>7, <1>8
      <3> HIDE DEF v, w
      <3> QED
        BY <2>2, <3>1, <3>2, <3>3, <3>4
    <2>3. ASSUME NEW f \in Servers, f # e
          PROVE  QueueOf(f)'
      BY <1>2, <1>4, <1>11, <2>3, SameQueue
    <2>4. QueueOf(e)'
      <3>1. /\ \A i \in 1..Len(v) :
                  callPc'[v[i]] = "waiting" /\ grant'[v[i]] = "none" /\ endpoint'[v[i]] = e
            /\ \A i, j \in 1..Len(v) : v[i] = v[j] => i = j
        <4> HIDE DEF v
        <4> QED
          BY <2>1, <2>2
      <3> QED
        BY <3>1 DEF QueueOf
    <2> QED
      BY <2>3, <2>4 DEF IQueue
  <1> QED
    BY <1>1, <1>3, <1>10, <1>12

\* release() by a task that has a connection: it goes back, or to the first of
\* the queue.
LEMMA StepRelease ==
    ASSUME IType, IGrant, IQueue, ICount, ~m_shutdown, NEW t \in Clients,
           NEW broken \in BOOLEAN, callPc[t] \in Busy, Goto(t, "endpointDone"),
           UNCHANGED <<endpoint, next_index>>, release(t, broken)
    PROVE  IType' /\ IGrant' /\ IQueue' /\ ICount'
  <1> USE DEF Goto
  <1>0. PICK e \in Servers : e = endpoint[t]
    BY DEF IType
  <1> DEFINE w == bucket[e].waiters
             r == Released(bucket[e], broken)
             n == Cardinality(Holders(e))
             g == Head(w)
  <1>1. /\ bucket' = [bucket EXCEPT ![e] = r]
        /\ grant' = IF Len(r.waiters) < Len(w) THEN [grant EXCEPT ![g] = "lease"] ELSE grant
    BY <1>0 DEF release
  <1>2. bucket'[e] = r /\ DOMAIN bucket' = Servers
        /\ \A f \in Servers : f # e => bucket'[f] = bucket[f]
    BY <1>1 DEF ICount
  <1>3. IType'
    BY <1>1 DEF IType
  <1>4. callPc'[t] = "endpointDone" /\ \A u \in Clients : u # t => callPc'[u] = callPc[u]
    BY DEF IType
  <1>5. grant[t] = "none" /\ callPc[t] # "waiting"
    BY DEF IGrant, Busy
  <1>6. t \in Holders(e) /\ \A f \in Servers : f # e => t \notin Holders(f)
    BY <1>0 DEF Holders, Holds, Busy
  <1>7. n \in Nat \ {0}
    BY <1>6, HoldersFinite, FS_EmptySet
  <1>8. Counted(bucket[e], n) /\ w \in Seq(Clients)
    BY DEF ICount, Counted, Bucket
  <1>9. \A f \in Servers : \A i \in 1..Len(bucket[f].waiters) :
            /\ bucket[f].waiters[i] \in Clients \ {t}
            /\ callPc[bucket[f].waiters[i]] = "waiting" /\ grant[bucket[f].waiters[i]] = "none"
            /\ endpoint[bucket[f].waiters[i]] = f
    BY <1>5, Queued
  <1>10. CASE w = <<>>
    <2>1. Counted(r, n - 1) /\ r.waiters = <<>>
      BY <1>7, <1>8, <1>10, ReleasedAlone
    <2>2. grant' = grant
      <3>1. ~(Len(r.waiters) < Len(w))
        BY <1>10, <2>1
      <3> QED
        BY <1>1, <3>1
    <2> HIDE DEF r
    <2>3. IGrant'
      BY <1>4, <1>5, <2>2 DEF IGrant
    <2>4. Holders(e)' = Holders(e) \ {t}
      BY <1>4, <1>5, <2>2 DEF Holders, Holds
    <2>5. ASSUME NEW f \in Servers, f # e
          PROVE  Holders(f)' = Holders(f)
      BY <1>0, <1>4, <1>5, <2>2, <2>5 DEF Holders, Holds
    <2>6. Cardinality(Holders(e)') = n - 1
      <3>1. IsFiniteSet(Holders(e))
        BY HoldersFinite
      <3>2. Cardinality(Holders(e) \ {t}) = n - 1
        BY <1>6, <3>1, FS_RemoveElement
      <3> QED
        BY <2>4, <3>2
    <2>7. ICount'
      BY <1>2, <2>1, <2>5, <2>6 DEF ICount
    <2>8. \A f \in Servers : bucket'[f].waiters = bucket[f].waiters
      BY <1>2, <1>10, <2>1
    <2>9. ASSUME NEW f \in Servers
          PROVE  QueueOf(f)'
      BY <1>4, <1>9, <2>2, <2>8, SameQueue
    <2>10. IQueue'
      BY <2>9 DEF IQueue
    <2> QED
      BY <1>3, <2>3, <2>7, <2>10
  <1>11. CASE w # <<>>
    <2>1. Counted(r, n) /\ r.waiters = Tail(w)
      BY <1>7, <1>8, <1>11, ReleasedHanded
    <2>2. /\ Len(w) \in Nat \ {0} /\ g = w[1] /\ Len(Tail(w)) = Len(w) - 1
          /\ \A i \in 1..Len(Tail(w)) : Tail(w)[i] = w[i + 1]
      BY <1>8, <1>11, EmptySeq, HeadTailProperties
    <2>3. g \in Clients \ {t} /\ callPc[g] = "waiting" /\ grant[g] = "none" /\ endpoint[g] = e
      BY <1>9, <2>2
    <2>4. grant' = [grant EXCEPT ![g] = "lease"]
      BY <1>1, <2>1, <2>2
    <2>5. grant'[g] = "lease" /\ \A u \in Clients : u # g => grant'[u] = grant[u]
      BY <2>3, <2>4 DEF IType
    <2> HIDE DEF r, g
    <2>6. IGrant'
      BY <1>4, <1>5, <2>3, <2>5 DEF IGrant
    <2>7. Holders(e)' = (Holders(e) \ {t}) \cup {g} /\ g \notin Holders(e)
      BY <1>4, <1>5, <2>3, <2>5 DEF Holders, Holds
    <2>8. ASSUME NEW f \in Servers, f # e
          PROVE  Holders(f)' = Holders(f)
      BY <1>0, <1>4, <1>5, <2>3, <2>5, <2>8 DEF Holders, Holds
    <2>9. Cardinality(Holders(e)') = n
      <3>1. IsFiniteSet(Holders(e) \ {t}) /\ Cardinality(Holders(e) \ {t}) = n - 1
        BY <1>6, HoldersFinite, FS_RemoveElement
      <3>2. g \notin Holders(e) \ {t}
        BY <2>7
      <3>3. Cardinality((Holders(e) \ {t}) \cup {g}) = (n - 1) + 1
        BY <3>1, <3>2, FS_AddElement
      <3> QED
        BY <1>7, <2>7, <3>3
    <2>10. ICount'
      BY <1>2, <2>1, <2>8, <2>9 DEF ICount
    <2>11. ASSUME NEW f \in Servers, f # e
           PROVE  QueueOf(f)'
      <3>1. \A i \in 1..Len(bucket[f].waiters) : bucket[f].waiters[i] # g
        BY <1>9, <2>3, <2>11
      <3> QED
        BY <1>2, <1>4, <1>9, <2>5, <2>11, <3>1, SameQueue
    <2>12. QueueOf(e)'
      <3>1. bucket'[e].waiters = Tail(w)
        BY <1>2, <2>1
      <3>2. \A i \in 1..Len(Tail(w)) : i + 1 \in 1..Len(w) /\ i + 1 # 1
        BY <2>2
      <3>3. \A i, j \in 1..Len(w) : w[i] = w[j] => i = j
        BY DEF IQueue, QueueOf
      <3>4. \A i \in 1..Len(Tail(w)) : Tail(w)[i] # g
        BY <2>2, <3>2, <3>3
      <3>5. ASSUME NEW i \in 1..Len(Tail(w))
            PROVE  LET u == Tail(w)[i]
                   IN  callPc'[u] = "waiting" /\ grant'[u] = "none" /\ endpoint'[u] = e
        BY <1>4, <1>9, <2>2, <2>5, <3>2, <3>4
      <3>6. \A i, j \in 1..Len(Tail(w)) : Tail(w)[i] = Tail(w)[j] => i = j
        BY <2>2, <3>2, <3>3
      <3> QED
        BY <3>1, <3>5, <3>6 DEF QueueOf
    <2>13. IQueue'
      BY <2>11, <2>12 DEF IQueue
    <2> QED
      BY <1>3, <2>6, <2>10, <2>13
  <1> QED
    BY <1>10, <1>11

-----------------------------------------------------------------------------
(* The invariant *)

LEMMA InitIInv == RpcInit => IInv
  <1> SUFFICES ASSUME RpcInit
               PROVE  IType /\ IGrant /\ IQueue /\ ICount
    BY DEF IInv
  <1> USE DEF RpcInit
  <1>1. Endpoints[1] \in Servers
    BY RpcAssumption, LenProperties DEF Servers
  <1>2. IType /\ IGrant
    BY <1>1 DEF IType, IGrant
  <1>3. ASSUME NEW e \in Servers
        PROVE  Holders(e) = {} /\ bucket[e] = EmptyBucket /\ bucket[e].waiters = <<>>
    BY DEF Holders, Holds, EmptyBucket
  <1>4. IQueue
    BY <1>3 DEF IQueue, QueueOf
  <1>5. Counted(EmptyBucket, 0)
    BY RpcAssumption, EmptySeq DEF Counted, EmptyBucket, Bucket
  <1>6. ICount
    BY <1>3, <1>5, FS_EmptySet DEF ICount
  <1> QED
    BY <1>2, <1>4, <1>6

\* A step of a call before shutdown() is one of the kinds above.
LEMMA CallKeeps ==
    ASSUME IType, IGrant, IQueue, ICount, ~m_shutdown, NEW t \in Clients, Call(t) \/ CallStep(t)
    PROVE  IType' /\ IGrant' /\ IQueue' /\ ICount'
  <1>0. endpoint \in [Clients -> Servers] /\ next_index \in Nat
    BY DEF IType
  <1> USE DEF snapshot, pool, call, Filled
  <1>1. CASE Call(t)
    BY <1>0, <1>1, StepElsewhere DEF Call, Busy
  <1>2. CASE AttemptDone(t)
    BY <1>0, <1>2, StepElsewhere DEF AttemptDone, Busy
  <1>3. CASE SleepOver(t)
    BY <1>0, <1>3, StepElsewhere DEF SleepOver, Busy
  <1>4. CASE Returned(t)
    <2>1. Endpoints[1] \in Servers
      BY RpcAssumption, LenProperties DEF Servers
    <2>2. endpoint' \in [Clients -> Servers]
          /\ \A u \in Clients : u # t => endpoint'[u] = endpoint[u]
      BY <1>0, <1>4, <2>1 DEF Returned
    <2> QED
      BY <1>0, <1>4, <2>2, StepElsewhere DEF Returned, Busy
  <1>5. CASE CallOnce(t)
    <2>1. CASE callPc[t] = "once" /\ Goto(t, "acquire")
               /\ selectEndpoint(t, IF cached THEN next_index ELSE 0)
      <3>1. (IF cached THEN next_index ELSE 0) \in Nat
        BY <1>0
      <3>2. /\ next_index' \in Nat /\ endpoint' \in [Clients -> Servers]
            /\ \A u \in Clients : u # t => endpoint'[u] = endpoint[u]
        BY <1>0, <2>1, <3>1, Selected
      <3>3. Filled /\ UNCHANGED grant
        BY <1>5 DEF CallOnce
      <3> QED
        BY <2>1, <3>2, <3>3, StepElsewhere DEF Busy
    <2>2. CASE Goto(t, "attemptDone") /\ UNCHANGED <<next_index, endpoint, bucket>>
      BY <1>0, <1>5, <2>2, StepElsewhere DEF CallOnce, Busy
    <2> QED
      BY <1>5, <2>1, <2>2 DEF CallOnce
  <1>6. CASE EndpointDone(t)
    <2>1. CASE Goto(t, "acquire") /\ selectEndpoint(t, next_index)
      <3>1. /\ next_index' \in Nat /\ endpoint' \in [Clients -> Servers]
            /\ \A u \in Clients : u # t => endpoint'[u] = endpoint[u]
        BY <1>0, <2>1, Selected
      <3> QED
        BY <1>6, <2>1, <3>1, StepElsewhere DEF EndpointDone, Busy
    <2>2. CASE Goto(t, "attemptDone") /\ UNCHANGED <<endpoint, next_index>>
      BY <1>0, <1>6, <2>2, StepElsewhere DEF EndpointDone, Busy
    <2> QED
      BY <1>6, <2>1, <2>2 DEF EndpointDone
  <1>7. CASE acquire(t)
    <2> DEFINE e == endpoint[t]
               b == bucket[e]
               n == Cardinality(Holders(e))
               reused == [b EXCEPT !.available = @ - 1, !.in_use = @ + 1]
               made == [b EXCEPT !.total = @ + 1, !.in_use = @ + 1]
    <2>1. callPc[t] = "acquire" /\ UNCHANGED <<endpoint, next_index, grant>>
      BY <1>7 DEF acquire
    <2>2. Counted(b, n) /\ b \in Bucket /\ n \in Nat /\ b.available \in Nat /\ b.total \in Nat
      BY <1>0, HoldersFinite DEF ICount, Counted, Bucket
    <2>3. CASE Goto(t, "endpointDone") /\ UNCHANGED bucket
      BY <1>0, <2>1, <2>3, StepElsewhere DEF Busy
    <2>4. CASE b.available > 0 /\ bucket' = [bucket EXCEPT ![e] = reused] /\ Goto(t, "connect")
      <3> HIDE DEF b, n
      <3>1. reused \in Bucket /\ reused.available = b.available - 1 /\ reused.in_use = n + 1
            /\ reused.total = b.total /\ reused.waiters = b.waiters
        <4> DEFINE one == b.available - 1
                   held == b.in_use + 1
        <4>1. one \in Nat /\ held \in Nat /\ held = n + 1
          BY <2>2, <2>4 DEF Counted
        <4>2. reused = [b EXCEPT !.available = one, !.in_use = held]
          OBVIOUS
        <4> HIDE DEF one, held, reused
        <4>3. reused \in Bucket /\ reused.in_use = held /\ reused.waiters = b.waiters
          BY <2>2, <4>1, <4>2 DEF Bucket
        <4>4. reused.available = one /\ reused.total = b.total
          BY <2>2, <4>1, <4>2 DEF Bucket
        <4> QED
          BY <4>1, <4>3, <4>4, <2>4 DEF one
      <3>2. Counted(reused, n + 1) /\ b.waiters = <<>>
        BY <2>2, <2>4, <3>1 DEF Counted
      <3> HIDE DEF reused
      <3> QED
        BY <2>1, <2>4, <3>1, <3>2, StepTake DEF b, n
    <2>5. CASE b.available = 0 /\ b.total < MaxConnections
               /\ bucket' = [bucket EXCEPT ![e] = made] /\ Goto(t, "connect")
      <3> HIDE DEF b, n
      <3>1. made \in Bucket /\ made.available = 0 /\ made.in_use = n + 1
            /\ made.total = b.total + 1 /\ made.waiters = b.waiters
        <4> DEFINE one == b.total + 1
                   held == b.in_use + 1
        <4>1. one \in Nat /\ held \in Nat /\ held = n + 1
          BY <2>2, <2>5 DEF Counted
        <4>2. made = [b EXCEPT !.total = one, !.in_use = held]
          OBVIOUS
        <4> HIDE DEF one, held, made
        <4>3. made \in Bucket /\ made.in_use = held /\ made.waiters = b.waiters
          BY <2>2, <4>1, <4>2 DEF Bucket
        <4>4. made.total = one /\ made.available = b.available
          BY <2>2, <4>1, <4>2 DEF Bucket
        <4> QED
          BY <4>1, <4>3, <4>4, <2>5 DEF one
      <3>2. Counted(made, n + 1) /\ b.waiters = <<>>
        BY <2>2, <2>5, <3>1, RpcAssumption DEF Counted
      <3> HIDE DEF made
      <3> QED
        BY <2>1, <2>5, <3>1, <3>2, StepTake DEF b, n
    <2>6. CASE b.available = 0 /\ b.total >= MaxConnections /\ Goto(t, "waiting")
               /\ bucket' = [bucket EXCEPT ![e].waiters = Append(@, t)]
      BY <2>1, <2>6, StepWait
    <2> QED
      BY <1>7, <2>3, <2>4, <2>5, <2>6 DEF acquire
  <1>8. CASE Granted(t)
    <2>1. grant[t] = "lease" /\ Goto(t, "connect")
      BY <1>8 DEF Granted, IGrant
    <2> QED
      BY <1>8, <2>1, StepHolding DEF Granted, Busy
  <1>9. CASE Connect(t)
    <2>1. CASE Goto(t, "call") /\ UNCHANGED <<bucket, grant>>
      BY <1>9, <2>1, StepHolding DEF Connect, Busy
    <2>2. CASE Goto(t, "endpointDone") /\ release(t, TRUE)
      <3>1. callPc[t] \in Busy /\ UNCHANGED <<endpoint, next_index>>
        BY <1>9 DEF Connect, Busy
      <3> QED
        BY <2>2, <3>1, StepRelease
    <2> QED
      BY <1>9, <2>1, <2>2 DEF Connect
  <1>10. CASE CallServer(t)
    BY <1>10, StepHolding DEF CallServer, Busy
  <1>11. CASE Close(t)
    <2>1. PICK broken \in BOOLEAN : release(t, broken)
      BY <1>11 DEF Close
    <2> QED
      BY <1>11, <2>1, StepRelease DEF Close, Busy
  <1> QED
    BY <1>1, <1>2, <1>3, <1>4, <1>5, <1>6, <1>7, <1>8, <1>9, <1>10, <1>11 DEF CallStep

\* Every step keeps the books until shutdown(), which drops them.
LEMMA NextIInv ==
    ASSUME IInv, [RpcNext]_rpcVars
    PROVE  IInv'
  <1>1. CASE Shutdown
    BY <1>1 DEF Shutdown, IInv
  <1>2. CASE m_shutdown /\ UNCHANGED m_shutdown
    BY <1>2 DEF IInv
  <1>3. ASSUME NEW t \in Clients, Call(t) \/ CallStep(t)
        PROVE  UNCHANGED m_shutdown
    BY <1>3 DEF CallStep, Call, AttemptDone, SleepOver, Returned, CallOnce, EndpointDone, acquire,
                Granted, Connect, CallServer, Close, pool
  <1>4. ASSUME NEW t \in Clients, Call(t) \/ CallStep(t), ~m_shutdown
        PROVE  IInv'
    BY <1>4, CallKeeps DEF IInv
  <1>5. CASE Refresh /\ ~m_shutdown
    <2>1. Filled /\ next_index' \in Nat /\ UNCHANGED <<callPc, grant, endpoint>>
      BY <1>5 DEF Refresh, Refreshed, Filled, call
    <2> QED
      BY <1>5, <2>1, StepRefresh DEF IInv
  <1>6. Refresh => UNCHANGED m_shutdown
    BY DEF Refresh
  <1>7. CASE UNCHANGED rpcVars
    <2>1. UNCHANGED <<next_index, endpoint, callPc, grant, bucket, m_shutdown>>
      BY <1>7 DEF rpcVars, snapshot, pool, call
    <2> QED
      BY <2>1, StepRefresh DEF IInv, IType, Filled
  <1> QED
    BY <1>1, <1>2, <1>3, <1>4, <1>5, <1>6, <1>7 DEF RpcNext

-----------------------------------------------------------------------------
(* Theorem *)

\* Until shutdown() the pool's counts say who has a connection, no endpoint has
\* more than its maximum, and nobody waits beside a connection that could be
\* had (acquire(), release(), ensureEndpoint()).
THEOREM PoolKeepsBooks == RpcSpec => []PoolAccounted
  <1>1. RpcInit => IInv
    BY InitIInv
  <1>2. IInv /\ [RpcNext]_rpcVars => IInv'
    BY NextIInv
  <1>3. IInv => PoolAccounted
    BY DEF IInv, ICount, Counted, PoolAccounted, Holders
  <1> QED
    BY <1>1, <1>2, <1>3, PTL DEF RpcSpec
=============================================================================
