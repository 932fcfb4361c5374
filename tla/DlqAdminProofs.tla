--------------------------- MODULE DlqAdminProofs ---------------------------
(* Theorems about DlqAdmin: the limits of a batch, what a cleanup leaves,     *)
(* what the pages of GET /dlq show, that no deletion is counted twice, and    *)
(* that batches come to their end, for all callers, limits and page sizes.    *)
EXTENDS DlqAdmin, FiniteSetTheorems, WellFoundedInduction, TLAPS

-----------------------------------------------------------------------------
(* The order by failed_at.                                                  *)

LEMMA LeastNumber ==
    ASSUME NEW T \in SUBSET Nat, T # {}
    PROVE  \E m \in T : \A n \in T : m <= n
  <1> DEFINE R == StrictSubsetOrdering(Nat)
             Starts == {0..n : n \in T}
  <1>1. Starts \subseteq FiniteSubsetsOf(Nat) /\ Starts # {}
    <2>1. ASSUME NEW n \in T PROVE IsFiniteSet(0..n) /\ 0..n \subseteq Nat
      BY FS_Interval
    <2>2. \A n \in T : 0..n \in FiniteSubsetsOf(Nat)
      BY <2>1 DEF FiniteSubsetsOf
    <2>3. QED
      BY <2>2
  <1>2. IsWellFoundedOn(R, FiniteSubsetsOf(Nat))
    BY FS_StrictSubsetOrderingWellFounded
  <1>3. \A U, V \in SUBSET Nat : U \subseteq V /\ U # V => <<U, V>> \in R
    BY DEF StrictSubsetOrdering
  <1> HIDE DEF R
  <1>4. PICK U \in Starts : \A V \in Starts : ~ (<<V, U>> \in R)
    BY <1>1, <1>2, WFMin
  <1>5. PICK m \in T : U = 0..m
    BY <1>4
  <1>6. ASSUME NEW n \in T, n < m PROVE FALSE
    <2>1. 0..n \subseteq 0..m /\ m \in 0..m /\ m \notin 0..n
      BY <1>6
    <2>2. 0..n \in Starts /\ 0..n \in SUBSET Nat /\ 0..m \in SUBSET Nat
      OBVIOUS
    <2>3. QED
      BY <1>3, <1>4, <1>5, <2>1, <2>2
  <1>7. QED
    BY <1>6

LEMMA GreatestNumber ==
    ASSUME NEW T \in SUBSET Nat, T # {}, NEW k \in Nat, \A n \in T : n <= k
    PROVE  \E m \in T : \A n \in T : n <= m
  <1> DEFINE U == {k - n : n \in T}
  <1>1. \A n \in T : k - n \in Nat
    OBVIOUS
  <1>2. PICK u \in U : \A v \in U : u <= v
    <2>1. U \in SUBSET Nat /\ U # {}
      BY <1>1
    <2> HIDE DEF U
    <2>2. QED
      BY <2>1, LeastNumber
  <1>3. PICK m \in T : u = k - m
    OBVIOUS
  <1>4. \A n \in T : k - m <= k - n
    BY <1>2, <1>3
  <1>5. QED
    BY <1>4

\* Among rows that are numbered, one has the greatest number, and one the least.
LEMMA Extremes ==
    ASSUME NEW S, S # {}, NEW f, NEW k \in Nat, \A d \in S : f[d] \in 0..k
    PROVE  /\ \E d \in S : \A e \in S : f[e] <= f[d]
           /\ \E d \in S : \A e \in S : f[d] <= f[e]
  <1> DEFINE T == {f[d] : d \in S}
  <1>1. T \in SUBSET Nat /\ T # {} /\ (\A n \in T : n <= k)
    OBVIOUS
  <1>2. PICK m \in T : \A n \in T : n <= m
    BY <1>1, GreatestNumber
  <1>3. PICK l \in T : \A n \in T : l <= n
    BY <1>1, LeastNumber
  <1>4. QED
    BY <1>2, <1>3

-----------------------------------------------------------------------------
(* The listing.                                                             *)

\* Rows have a failed_at of their own, none later than the last capture.
Stamped ==
    /\ \A d \in DOMAIN dlq : dlq[d].failedAt \in 1..now
    /\ \A d, e \in DOMAIN dlq : dlq[d].failedAt = dlq[e].failedAt => d = e

LEMMA RowsAreFinite ==
    ASSUME TypeOK, NEW S \in SUBSET DOMAIN dlq
    PROVE  /\ IsFiniteSet(S) /\ Cardinality(S) \in 0..MaxRows /\ S \in SUBSET Ids
           /\ \A d : /\ IsFiniteSet(Before(S, d)) /\ Before(S, d) \subseteq S
                     /\ Cardinality(Before(S, d)) \in Nat
  <1>1. MaxRows \in Nat /\ S \in SUBSET (1..MaxRows)
    BY DlqAdminAssumption DEF TypeOK
  <1>2. IsFiniteSet(1..MaxRows) /\ Cardinality(1..MaxRows) = MaxRows
    BY <1>1, FS_Interval
  <1>3. IsFiniteSet(S) /\ Cardinality(S) <= MaxRows
    BY <1>1, <1>2, FS_Subset
  <1>4. Cardinality(S) \in Nat
    BY <1>3, FS_CardinalityType
  <1>5. ASSUME NEW d
        PROVE  /\ IsFiniteSet(Before(S, d)) /\ Before(S, d) \subseteq S
               /\ Cardinality(Before(S, d)) \in Nat
    <2>1. Before(S, d) \in SUBSET S
      BY DEF Before
    <2>2. QED
      BY <1>3, <2>1, FS_Subset, FS_CardinalityType
  <1>6. QED
    BY <1>1, <1>3, <1>4, <1>5 DEF Ids

LEMMA OldestAndNewest ==
    ASSUME TypeOK, Stamped, NEW S \in SUBSET DOMAIN dlq, S # {}
    PROVE  /\ \E d \in S : \A e \in S : dlq[e].failedAt <= dlq[d].failedAt
           /\ \E d \in S : \A e \in S : dlq[d].failedAt <= dlq[e].failedAt
  <1> DEFINE f == [d \in DOMAIN dlq |-> dlq[d].failedAt]
  <1>1. \A d \in S : f[d] \in 0..now /\ f[d] = dlq[d].failedAt
    BY DEF Stamped
  <1>2. now \in Nat
    BY DlqAdminAssumption DEF TypeOK
  <1> HIDE DEF f
  <1>3. /\ \E d \in S : \A e \in S : f[e] <= f[d]
        /\ \E d \in S : \A e \in S : f[d] <= f[e]
    BY <1>1, <1>2, Extremes
  <1>4. QED
    BY <1>1, <1>3

\* At most LIMIT rows are listed.
LEMMA SliceIsShort ==
    ASSUME TypeOK, Stamped, NEW S \in SUBSET DOMAIN dlq
    PROVE  /\ Slice(S, Limit, 0) \subseteq S /\ IsFiniteSet(Slice(S, Limit, 0))
           /\ Cardinality(Slice(S, Limit, 0)) \in 0..Limit
  <1> DEFINE L == Slice(S, Limit, 0)
  <1>1. L \in SUBSET S /\ L \in SUBSET DOMAIN dlq
    BY DEF Slice
  <1>2. IsFiniteSet(L) /\ Cardinality(L) \in Nat /\ Limit \in Nat
    BY <1>1, RowsAreFinite, DlqAdminAssumption
  <1>3. CASE L = {}
    BY <1>1, <1>2, <1>3, FS_EmptySet
  <1>4. CASE L # {}
    <2>1. PICK d \in L : \A e \in L : dlq[d].failedAt <= dlq[e].failedAt
      BY <1>1, <1>4, OldestAndNewest
    <2>2. L \ {d} \in SUBSET Before(S, d)
      BY <1>1, <2>1 DEF Before, Stamped
    <2>3. IsFiniteSet(Before(S, d)) /\ Cardinality(Before(S, d)) \in Nat
      BY RowsAreFinite
    <2>4. Cardinality(Before(S, d)) \in 0..(Limit - 1)
      BY <1>2 DEF Slice
    <2>5. Cardinality(L \ {d}) <= Cardinality(Before(S, d))
      BY <2>2, <2>3, FS_Subset
    <2>6. Cardinality(L \ {d}) = Cardinality(L) - 1
      BY <1>2, FS_RemoveElement
    <2>7. QED
      BY <1>1, <1>2, <2>3, <2>4, <2>5, <2>6
  <1>5. QED
    BY <1>3, <1>4

\* A listing that is shorter than its LIMIT holds all there is.
LEMMA ShortSliceIsAll ==
    ASSUME TypeOK, Stamped, NEW S \in SUBSET DOMAIN dlq,
           Cardinality(Slice(S, Limit, 0)) # Limit
    PROVE  Slice(S, Limit, 0) = S
  <1> DEFINE L == Slice(S, Limit, 0)
  <1>1. L \subseteq S /\ IsFiniteSet(L) /\ Cardinality(L) \in 0..Limit /\ Limit \in Nat
    BY SliceIsShort, DlqAdminAssumption
  <1> SUFFICES ASSUME L # S PROVE FALSE
    OBVIOUS
  <1>2. S \ L \in SUBSET DOMAIN dlq /\ S \ L # {}
    BY <1>1
  <1>3. PICK d \in S \ L : \A e \in S \ L : dlq[e].failedAt <= dlq[d].failedAt
    BY <1>2, OldestAndNewest
  <1>4. \A e \in DOMAIN dlq : dlq[e].failedAt \in Nat
    BY DEF Stamped
  <1>5. Before(S, d) \in SUBSET L
    <2>1. ASSUME NEW e \in Before(S, d), e \notin L PROVE FALSE
      <3>1. e \in S \ L /\ dlq[e].failedAt > dlq[d].failedAt
        BY <2>1 DEF Before
      <3>2. dlq[e].failedAt <= dlq[d].failedAt
        BY <1>3, <3>1
      <3>3. dlq[e].failedAt \in Nat /\ dlq[d].failedAt \in Nat
        BY <1>2, <1>3, <1>4, <3>1
      <3>4. QED
        BY <3>1, <3>2, <3>3
    <2>2. QED
      BY <2>1
  <1>6. Cardinality(Before(S, d)) <= Cardinality(L)
    BY <1>1, <1>5, FS_Subset
  <1>7. Cardinality(Before(S, d)) \in Nat
    BY RowsAreFinite
  <1>8. Cardinality(Before(S, d)) \notin 0..(Limit - 1)
    <2>1. d \in S /\ d \notin Slice(S, Limit, 0)
      BY <1>3
    <2>2. Cardinality(Before(S, d)) \notin 0..(0 + Limit - 1)
      BY <2>1 DEF Slice
    <2>3. 0 + Limit - 1 = Limit - 1
      BY <1>1
    <2>4. QED
      BY <2>2, <2>3
  <1>9. QED
    BY <1>1, <1>6, <1>7, <1>8

-----------------------------------------------------------------------------
(* Types.  The parts of TypeOK, and how rows, requests and history change.  *)

Handled(k) == Cardinality(DOMAIN k.todo) + k.deleted + k.requeued + k.failed

TableOK ==
    /\ dlq \in [DOMAIN dlq -> Row]
    /\ nextDlq \in 1..(MaxRows + 1) /\ DOMAIN dlq \subseteq 1..(nextDlq - 1)
    /\ now \in 0..MaxCaptures
CallsOK ==
    /\ call \in [Callers -> Calls]
    /\ \A c \in Callers : call[c].cutoff <= now /\ Handled(call[c]) <= Limit
HistoryOK ==
    /\ batches \in 0..MaxBatches /\ shifted \subseteq Callers
    /\ answered \in [deleted : Nat, requeued : Nat] /\ lost \in Nat
    /\ owed \in [Callers -> SUBSET DOMAIN dlq]

LEMMA TypeParts ==
    /\ TypeOK <=> TableOK /\ CallsOK /\ HistoryOK
    /\ TypeOK' <=> TableOK' /\ CallsOK' /\ HistoryOK'
  BY DEF TypeOK, TableOK, CallsOK, HistoryOK, Handled, Left

\* How the table may change.
Deleted(d) == dlq' = Without(dlq, d) /\ UNCHANGED <<nextDlq, now>>
SameTable == UNCHANGED <<dlq, nextDlq, now>>

LEMMA DeletedKeeps ==
    ASSUME TableOK, Stamped, NEW d, Deleted(d)
    PROVE  /\ TableOK' /\ Stamped'
           /\ DOMAIN dlq' = DOMAIN dlq \ {d} /\ (\A e \in DOMAIN dlq' : dlq'[e] = dlq[e])
  BY DEF Deleted, Without, Restrict, TableOK, Stamped

LEMMA CaptureKeeps ==
    ASSUME TableOK, Stamped, Capture
    PROVE  /\ TableOK' /\ Stamped' /\ now' = now + 1
           /\ \A e \in DOMAIN dlq' :
                 (e \in DOMAIN dlq /\ dlq'[e] = dlq[e]) \/ dlq'[e].failedAt = now'
           /\ \/ /\ DOMAIN dlq' = DOMAIN dlq \cup {nextDlq} /\ nextDlq \notin DOMAIN dlq
                 /\ (\A e \in DOMAIN dlq : dlq'[e] = dlq[e]) /\ UNCHANGED owed
              \/ /\ DOMAIN dlq' = DOMAIN dlq
                 /\ \E d \in DOMAIN dlq :
                       /\ \A e \in DOMAIN dlq \ {d} : dlq'[e] = dlq[e]
                       /\ owed' = [c \in Callers |-> owed[c] \ {d}]
  <1>1. now \in Nat /\ now' = now + 1 /\ now' \in Times /\ MaxRows \in Nat /\ nextDlq \in Nat
    BY DlqAdminAssumption DEF TableOK, Capture, Times
  <1>2. CASE /\ nextDlq <= MaxRows /\ nextDlq' = nextDlq + 1 /\ UNCHANGED pages
             /\ dlq' = Put(dlq, nextDlq, [failedAt |-> now', requeued |-> 0])
    <2>1. /\ DOMAIN dlq' = DOMAIN dlq \cup {nextDlq} /\ nextDlq \notin DOMAIN dlq
          /\ dlq'[nextDlq] = [failedAt |-> now', requeued |-> 0]
          /\ \A e \in DOMAIN dlq : dlq'[e] = dlq[e]
          /\ dlq' = [e \in DOMAIN dlq' |-> dlq'[e]]
      BY <1>1, <1>2 DEF Put, TableOK
    <2>2. dlq'[nextDlq] \in Row
      BY <1>1, <2>1 DEF Row, Times
    <2>3. dlq' \in [DOMAIN dlq' -> Row]
      BY <2>1, <2>2 DEF TableOK
    <2>4. TableOK'
      BY <1>1, <1>2, <2>1, <2>3 DEF TableOK, Times
    <2>5. Stamped'
      BY <1>1, <2>1 DEF Stamped
    <2>6. QED
      BY <1>1, <1>2, <2>1, <2>4, <2>5 DEF pages
  <1>3. ASSUME NEW d \in DOMAIN dlq, dlq' = [dlq EXCEPT ![d].failedAt = now'],
               owed' = [c \in Callers |-> owed[c] \ {d}], UNCHANGED nextDlq
        PROVE  /\ TableOK' /\ Stamped'
               /\ DOMAIN dlq' = DOMAIN dlq /\ dlq'[d].failedAt = now'
               /\ \A e \in DOMAIN dlq \ {d} : dlq'[e] = dlq[e]
    <2>1. dlq[d] \in Row
      BY DEF TableOK
    <2>2. /\ DOMAIN dlq' = DOMAIN dlq /\ dlq'[d] = [dlq[d] EXCEPT !.failedAt = now']
          /\ \A e \in DOMAIN dlq \ {d} : dlq'[e] = dlq[e]
          /\ dlq' = [e \in DOMAIN dlq' |-> dlq'[e]]
      BY <1>3 DEF TableOK
    <2>3. dlq'[d] \in Row /\ dlq'[d].failedAt = now'
      BY <1>1, <2>1, <2>2 DEF Row, Times
    <2>4. dlq' \in [DOMAIN dlq' -> Row]
      BY <2>2, <2>3 DEF TableOK
    <2>5. TableOK'
      BY <1>1, <1>3, <2>2, <2>4 DEF TableOK, Times
    <2>6. \A e \in DOMAIN dlq \ {d} : dlq'[e].failedAt = dlq[e].failedAt /\ dlq[e].failedAt \in 1..now
      BY <2>2 DEF Stamped
    <2>7. \A e \in DOMAIN dlq : dlq'[e].failedAt \in 1..now'
      BY <1>1, <2>3, <2>6
    <2>8. \A e, f \in DOMAIN dlq : dlq'[e].failedAt = dlq'[f].failedAt => e = f
      BY <1>1, <2>3, <2>6 DEF Stamped
    <2>9. QED
      BY <2>2, <2>3, <2>5, <2>7, <2>8 DEF Stamped
  <1>4. QED
    BY <1>1, <1>2, <1>3 DEF Capture

LEMMA BookKeeps ==
    ASSUME TableOK, Stamped, NEW c, RequeueBook(c)
    PROVE  /\ TableOK' /\ Stamped' /\ DOMAIN dlq' = DOMAIN dlq
           /\ \A e \in DOMAIN dlq : dlq'[e].failedAt = dlq[e].failedAt
  <1>1. CASE UNCHANGED dlq
    BY <1>1 DEF RequeueBook, TableOK, Stamped
  <1>2. ASSUME NEW d \in DOMAIN dlq, dlq' = [dlq EXCEPT ![d].requeued = @ + 1]
        PROVE  /\ DOMAIN dlq' = DOMAIN dlq /\ dlq' \in [DOMAIN dlq' -> Row]
               /\ \A e \in DOMAIN dlq : dlq'[e].failedAt = dlq[e].failedAt
    BY <1>2 DEF TableOK, Row
  <1>3. QED
    BY <1>1, <1>2 DEF RequeueBook, TableOK, Stamped

\* How a request may change.
LEMMA TodoIsFinite ==
    ASSUME NEW k \in Calls
    PROVE  /\ k.todo \in [DOMAIN k.todo -> Times] /\ DOMAIN k.todo \in SUBSET Ids
           /\ IsFiniteSet(DOMAIN k.todo) /\ Cardinality(DOMAIN k.todo) \in Nat
  <1>1. k.todo \in Todos
    BY DEF Calls
  <1>2. k.todo \in [DOMAIN k.todo -> Times] /\ DOMAIN k.todo \in SUBSET Ids
    BY <1>1 DEF Todos
  <1>3. IsFiniteSet(Ids)
    BY FS_Interval, DlqAdminAssumption DEF Ids
  <1>4. QED
    BY <1>2, <1>3, FS_Subset, FS_CardinalityType

LEMMA FirstIsLeft ==
    ASSUME CallsOK, NEW c \in Callers, Left(c) # {}
    PROVE  First(c) \in Left(c)
  <1> DEFINE f == call[c].todo
  <1>1. f \in [Left(c) -> Times]
    BY TodoIsFinite DEF CallsOK, Left
  <1>2. \A d \in Left(c) : f[d] \in 0..MaxCaptures
    BY <1>1 DEF Times
  <1>3. MaxCaptures \in Nat
    BY DlqAdminAssumption
  <1> HIDE DEF f
  <1>4. \E d \in Left(c) : \A e \in Left(c) : f[e] <= f[d]
    BY <1>2, <1>3, Extremes
  <1>5. QED
    BY <1>4 DEF First, f

LEMMA RestIsShorter ==
    ASSUME CallsOK, NEW c \in Callers, Left(c) # {}
    PROVE  /\ Rest(c) \in Todos /\ DOMAIN Rest(c) = Left(c) \ {First(c)}
           /\ Cardinality(DOMAIN Rest(c)) = Cardinality(Left(c)) - 1
           /\ Cardinality(Left(c)) \in Nat
  <1>1. /\ call[c].todo \in [Left(c) -> Times] /\ Left(c) \in SUBSET Ids
        /\ IsFiniteSet(Left(c)) /\ Cardinality(Left(c)) \in Nat
    BY TodoIsFinite DEF CallsOK, Left
  <1>2. DOMAIN Rest(c) = Left(c) \ {First(c)} /\ Rest(c) \in [Left(c) \ {First(c)} -> Times]
    BY <1>1 DEF Rest, Without, Restrict, Left
  <1>3. Rest(c) \in Todos
    BY <1>1, <1>2 DEF Todos
  <1>4. Cardinality(Left(c) \ {First(c)}) = Cardinality(Left(c)) - 1
    BY <1>1, FirstIsLeft, FS_RemoveElement
  <1>5. QED
    BY <1>1, <1>2, <1>3, <1>4

LEMMA Advances ==
    ASSUME TableOK, CallsOK, now' \in Nat, now' >= now, NEW c \in Callers,
           NEW k \in Calls, k.cutoff <= now, Handled(k) <= Limit, Advance(c, k)
    PROVE  CallsOK'
  <1>1. call' \in [Callers -> Calls] /\ call'[c] = k
        /\ \A v \in Callers \ {c} : call'[v] = call[v]
    BY DEF Advance, CallsOK
  <1>2. now \in Nat
    BY DlqAdminAssumption DEF TableOK
  <1>3. ASSUME NEW v \in Callers PROVE call'[v].cutoff <= now' /\ Handled(call'[v]) <= Limit
    <2>1. call'[v].cutoff \in Nat /\ call'[v].cutoff <= now /\ Handled(call'[v]) <= Limit
      BY <1>1, DlqAdminAssumption DEF CallsOK, Calls
    <2>2. QED
      BY <1>2, <2>1
  <1>4. QED
    BY <1>1, <1>3 DEF CallsOK

LEMMA IdleFits ==
    ASSUME TableOK
    PROVE  Idle \in Calls /\ Idle.cutoff <= now /\ Handled(Idle) <= Limit /\ Handled(Idle) = 0
           /\ DOMAIN Idle.todo = {}
  <1>1. Nothing \in Todos /\ DOMAIN Nothing = {}
    BY DEF Nothing, Todos
  <1>2. Handled(Idle) = 0
    BY <1>1, FS_EmptySet DEF Handled, Idle
  <1>3. Idle \in Calls
    BY <1>1, DlqAdminAssumption DEF Idle, Calls
  <1>4. Idle.cutoff = 0 /\ Idle.todo = Nothing
    BY DEF Idle
  <1>5. 0 <= now /\ 0 <= Limit
    BY DlqAdminAssumption DEF TableOK
  <1>6. QED
    BY <1>1, <1>2, <1>3, <1>4, <1>5

LEMMA CallFields ==
    ASSUME NEW k \in Calls
    PROVE  /\ k = [op |-> k.op, step |-> k.step, todo |-> k.todo, cutoff |-> k.cutoff,
                   full |-> k.full, erred |-> k.erred, deleted |-> k.deleted,
                   requeued |-> k.requeued, failed |-> k.failed, offset |-> k.offset,
                   seen |-> k.seen]
           /\ k.op \in {"idle", "cleanup", "delete", "requeue", "page"}
           /\ k.step \in {"next", "enqueue", "book", "count"} /\ k.todo \in Todos
           /\ k.cutoff \in 0..MaxCaptures /\ k.cutoff \in Nat
           /\ k.full \in BOOLEAN /\ k.erred \in BOOLEAN
           /\ k.deleted \in Nat /\ k.requeued \in Nat /\ k.failed \in Nat
           /\ k.offset \in 0..MaxRows /\ k.seen \in SUBSET Ids
  BY DlqAdminAssumption DEF Calls

\* A row done with, in whichever way, is counted at most once.
LEMMA RowDone ==
    ASSUME TableOK, CallsOK, NEW c \in Callers, Left(c) # {}, now' \in Nat, now' >= now,
           NEW k \in Calls, k.todo = Rest(c), k.cutoff = call[c].cutoff,
           k.deleted + k.requeued + k.failed
              <= call[c].deleted + call[c].requeued + call[c].failed + 1,
           Advance(c, k)
    PROVE  CallsOK'
  <1>1. call[c] \in Calls /\ call[c].cutoff <= now /\ Handled(call[c]) <= Limit
    BY DEF CallsOK
  <1>2. /\ Cardinality(DOMAIN Rest(c)) = Cardinality(Left(c)) - 1
        /\ Cardinality(Left(c)) \in Nat
    BY RestIsShorter
  <1>3. /\ call[c].deleted \in Nat /\ call[c].requeued \in Nat /\ call[c].failed \in Nat
        /\ k.deleted \in Nat /\ k.requeued \in Nat /\ k.failed \in Nat
    BY <1>1, CallFields
  <1>4. Handled(k) <= Limit
    BY <1>1, <1>2, <1>3, DlqAdminAssumption DEF Handled, Left
  <1>5. QED
    BY <1>1, <1>4, Advances

LEMMA NowIsNat == ASSUME TableOK PROVE now \in Nat
  BY DlqAdminAssumption DEF TableOK

\* A page of rows is a set of row ids.
LEMMA SliceTypes ==
    ASSUME TableOK, NEW limit, NEW offset
    PROVE  Slice(DOMAIN dlq, limit, offset) \in SUBSET Ids
  BY DlqAdminAssumption DEF Slice, TableOK, Ids

\* A step of the loop that keeps the counts.
LEMMA SameCounts ==
    ASSUME TableOK, CallsOK, NEW c \in Callers, now' \in Nat, now' >= now,
           NEW k \in Calls, k.todo = call[c].todo, k.cutoff = call[c].cutoff,
           k.deleted = call[c].deleted, k.requeued = call[c].requeued, k.failed = call[c].failed,
           Advance(c, k)
    PROVE  CallsOK'
  <1>1. k.cutoff <= now /\ Handled(k) <= Limit
    BY DEF CallsOK, Handled
  <1>2. QED
    BY <1>1, Advances

LEMMA LoopCalls ==
    ASSUME TypeOK, NEW c \in Callers, Loop(c)
    PROVE  CallsOK'
  <1>1. TableOK /\ CallsOK /\ HistoryOK
    BY TypeParts
  <1>2. now' = now /\ now \in Nat /\ now >= now /\ now' >= now
    BY <1>1, NowIsNat
    DEF Loop, DeleteRow, DeleteFails, RequeueRead, RequeueEnqueue, RequeueFails, RequeueBook,
        Answer, ReadPage, NextPage, LastPage, PageFails
  <1>3. call[c] \in Calls
    BY <1>1 DEF CallsOK
  <1>0. /\ call[c] = [op |-> call[c].op, step |-> call[c].step, todo |-> call[c].todo,
                      cutoff |-> call[c].cutoff, full |-> call[c].full, erred |-> call[c].erred,
                      deleted |-> call[c].deleted, requeued |-> call[c].requeued,
                      failed |-> call[c].failed, offset |-> call[c].offset, seen |-> call[c].seen]
             /\ call[c].op \in {"idle", "cleanup", "delete", "requeue", "page"}
             /\ call[c].step \in {"next", "enqueue", "book", "count"} /\ call[c].todo \in Todos
             /\ call[c].cutoff \in 0..MaxCaptures
             /\ call[c].full \in BOOLEAN /\ call[c].erred \in BOOLEAN
             /\ call[c].deleted \in Nat /\ call[c].requeued \in Nat /\ call[c].failed \in Nat
             /\ call[c].offset \in 0..MaxRows /\ call[c].seen \in SUBSET Ids
    BY <1>3, CallFields
  <1> USE <1>1, <1>2, <1>3
  <1>4. CASE DeleteRow(c)
    <2> DEFINE k == [call[c] EXCEPT !.todo = Rest(c),
                        !.deleted = @ + IF First(c) \in DOMAIN dlq THEN 1 ELSE 0]
    <2>1. Left(c) # {} /\ Advance(c, k)
      BY <1>4 DEF DeleteRow, Deleting
    <2>2. k \in Calls
      <3>1. Rest(c) \in Todos
        BY <2>1, RestIsShorter
      <3>2. call[c].deleted + (IF First(c) \in DOMAIN dlq THEN 1 ELSE 0) \in Nat
        BY <1>0
      <3>3. QED
        BY <3>1, <3>2, <1>0 DEF Calls
    <2>3. /\ k.todo = Rest(c) /\ k.cutoff = call[c].cutoff
          /\ k.deleted + k.requeued + k.failed
                <= call[c].deleted + call[c].requeued + call[c].failed + 1
      BY <1>0
    <2> HIDE DEF k
    <2>4. QED
      BY <2>1, <2>2, <2>3, RowDone
  <1>5. CASE DeleteFails(c)
    <2> DEFINE k == [call[c] EXCEPT !.todo = Rest(c), !.erred = TRUE]
    <2>1. Left(c) # {} /\ Advance(c, k)
      BY <1>5 DEF DeleteFails, Deleting
    <2>2. k \in Calls
      <3>1. Rest(c) \in Todos
        BY <2>1, RestIsShorter
      <3>2. QED
        BY <3>1, <1>0 DEF Calls
    <2>3. /\ k.todo = Rest(c) /\ k.cutoff = call[c].cutoff
          /\ k.deleted + k.requeued + k.failed
                <= call[c].deleted + call[c].requeued + call[c].failed + 1
      BY <1>0
    <2> HIDE DEF k
    <2>4. QED
      BY <2>1, <2>2, <2>3, RowDone
  <1>6. CASE RequeueFails(c)
    <2> DEFINE k == [call[c] EXCEPT !.step = "next", !.todo = Rest(c), !.failed = @ + 1]
    <2>1. Left(c) # {} /\ Advance(c, k)
      BY <1>6 DEF RequeueFails, Requeueing
    <2>2. k \in Calls
      <3>1. Rest(c) \in Todos
        BY <2>1, RestIsShorter
      <3>2. call[c].failed + 1 \in Nat
        BY <1>0
      <3>3. QED
        BY <3>1, <3>2, <1>0 DEF Calls
    <2>3. /\ k.todo = Rest(c) /\ k.cutoff = call[c].cutoff
          /\ k.deleted + k.requeued + k.failed
                <= call[c].deleted + call[c].requeued + call[c].failed + 1
      BY <1>0
    <2> HIDE DEF k
    <2>4. QED
      BY <2>1, <2>2, <2>3, RowDone
  <1>7. CASE RequeueBook(c)
    <2> DEFINE k == [call[c] EXCEPT !.step = "next", !.todo = Rest(c), !.requeued = @ + 1]
    <2>1. Left(c) # {} /\ Advance(c, k)
      BY <1>7 DEF RequeueBook, Requeueing
    <2>2. k \in Calls
      <3>1. Rest(c) \in Todos
        BY <2>1, RestIsShorter
      <3>2. call[c].requeued + 1 \in Nat
        BY <1>0
      <3>3. QED
        BY <3>1, <3>2, <1>0 DEF Calls
    <2>3. /\ k.todo = Rest(c) /\ k.cutoff = call[c].cutoff
          /\ k.deleted + k.requeued + k.failed
                <= call[c].deleted + call[c].requeued + call[c].failed + 1
      BY <1>0
    <2> HIDE DEF k
    <2>4. QED
      BY <2>1, <2>2, <2>3, RowDone
  <1>8. ASSUME NEW step \in {"enqueue", "book"}, Advance(c, [call[c] EXCEPT !.step = step])
        PROVE  CallsOK'
    <2> DEFINE k == [call[c] EXCEPT !.step = step]
    <2>1. k \in Calls
      BY <1>0 DEF Calls
    <2>2. /\ k.todo = call[c].todo /\ k.cutoff = call[c].cutoff
          /\ k.deleted = call[c].deleted /\ k.requeued = call[c].requeued
          /\ k.failed = call[c].failed
      BY <1>0
    <2>3. Advance(c, k)
      BY <1>8
    <2> HIDE DEF k
    <2>4. QED
      BY <2>1, <2>2, <2>3, SameCounts
  <1>9. CASE ReadPage(c)
    <2> DEFINE page == Slice(DOMAIN dlq, PageSize, call[c].offset)
               k == [call[c] EXCEPT !.step = "count", !.seen = @ \cup page]
    <2>1. page \in SUBSET Ids
      BY SliceTypes
    <2>2. Advance(c, k)
      BY <1>9 DEF ReadPage
    <2> HIDE DEF page
    <2>3. k \in Calls
      BY <2>1, <1>0 DEF Calls
    <2>4. /\ k.todo = call[c].todo /\ k.cutoff = call[c].cutoff
          /\ k.deleted = call[c].deleted /\ k.requeued = call[c].requeued
          /\ k.failed = call[c].failed
      BY <1>0
    <2> HIDE DEF k
    <2>5. QED
      BY <2>2, <2>3, <2>4, SameCounts
  <1>10. CASE NextPage(c)
    <2> DEFINE k == [call[c] EXCEPT !.step = "next", !.offset = @ + PageSize]
    <2>1. Cardinality(DOMAIN dlq) \in 0..MaxRows
      BY RowsAreFinite
    <2>2. call[c].offset + PageSize \in 0..MaxRows
      BY <1>10, <2>1, <1>0, DlqAdminAssumption DEF NextPage, HasMore
    <2>3. k \in Calls
      BY <2>2, <1>0 DEF Calls
    <2>4. Advance(c, k)
      BY <1>10 DEF NextPage
    <2>5. /\ k.todo = call[c].todo /\ k.cutoff = call[c].cutoff
          /\ k.deleted = call[c].deleted /\ k.requeued = call[c].requeued
          /\ k.failed = call[c].failed
      BY <1>0
    <2> HIDE DEF k
    <2>6. QED
      BY <2>3, <2>4, <2>5, SameCounts
  <1>11. CASE Advance(c, Idle)
    BY <1>11, IdleFits, Advances
  <1>12. QED
    BY <1>4, <1>5, <1>6, <1>7, <1>8, <1>9, <1>10, <1>11
    DEF Loop, RequeueRead, RequeueEnqueue, Answer, LastPage, PageFails

LEMMA RequestCalls ==
    ASSUME TypeOK, Stamped, NEW c \in Callers, NEW op \in {"cleanup", "delete", "requeue"},
           Request(c, op)
    PROVE  CallsOK'
  <1>1. TableOK /\ CallsOK /\ now' = now /\ now \in Nat /\ now >= now
    BY TypeParts, NowIsNat DEF Request
  <1>2. CASE UNCHANGED call
    BY <1>1, <1>2 DEF CallsOK, Handled
  <1>3. ASSUME NEW from \in 0..MaxCaptures, NEW to \in 0..MaxCaptures,
               Advance(c, [Idle EXCEPT !.op = op, !.cutoff = Past(to),
                              !.todo = [d \in Listed(from, to) |-> dlq[d].failedAt],
                              !.full = Cardinality(Listed(from, to)) = Limit])
        PROVE  CallsOK'
    <2> DEFINE L == Listed(from, to)
               full == Cardinality(L) = Limit
               todo == [d \in L |-> dlq[d].failedAt]
               past == Past(to)
               k == [Idle EXCEPT !.op = op, !.cutoff = past, !.todo = todo, !.full = full]
    <2>1. FailedBetween(from, to) \in SUBSET DOMAIN dlq
      BY DEF FailedBetween
    <2>2. L \in SUBSET DOMAIN dlq /\ Cardinality(L) \in 0..Limit
      BY <2>1, SliceIsShort DEF Listed
    <2>3. L \in SUBSET Ids
      BY <2>2, RowsAreFinite
    <2>4. todo \in [L -> Times]
      BY <1>1, <2>2 DEF TableOK, Row, Times
    <2>5. todo \in Todos /\ DOMAIN todo = L
      BY <2>3, <2>4 DEF Todos
    <2>6. full \in BOOLEAN
      OBVIOUS
    <2>7. past \in 0..MaxCaptures /\ past <= now
      BY <1>1, DlqAdminAssumption DEF TableOK, Past
    <2>8. Advance(c, k)
      BY <1>3
    <2> HIDE DEF L, full, todo, past
    <2>9. k.todo = todo /\ k.cutoff = past /\ k.deleted = 0 /\ k.requeued = 0 /\ k.failed = 0
      BY DEF Idle
    <2>10. k \in Calls
      BY <1>1, <2>5, <2>6, <2>7, IdleFits DEF Calls
    <2>11. k.cutoff <= now /\ Handled(k) <= Limit
      BY <2>2, <2>5, <2>7, <2>9, DlqAdminAssumption DEF Handled
    <2> HIDE DEF k
    <2>12. QED
      BY <1>1, <2>8, <2>10, <2>11, Advances
  <1>4. QED
    BY <1>2, <1>3 DEF Request, Advance

LEMMA StartPagingCalls ==
    ASSUME TypeOK, NEW c \in Callers, StartPaging(c)
    PROVE  CallsOK'
  <1>1. TableOK /\ CallsOK /\ now' = now /\ now \in Nat /\ now >= now
    BY TypeParts, NowIsNat DEF StartPaging
  <1> DEFINE k == [Idle EXCEPT !.op = "page"]
  <1>2. k \in Calls
    BY <1>1, IdleFits DEF Calls
  <1>3. k.cutoff <= now /\ Handled(k) <= Limit
    BY <1>1, IdleFits DEF Handled, Idle
  <1>4. Advance(c, k)
    BY DEF StartPaging
  <1> HIDE DEF k
  <1>5. QED
    BY <1>1, <1>2, <1>3, <1>4, Advances

\* What a step of a loop does to the table.
LEMMA LoopTable ==
    ASSUME TableOK, NEW c \in Callers, Loop(c)
    PROVE  \/ UNCHANGED <<dlq, nextDlq, now>>
           \/ (DeleteRow(c) \/ DeleteFails(c)) /\ Deleted(First(c)) /\ Shift(First(c))
           \/ RequeueBook(c)
  <1>1. CASE DeleteRow(c)
    <2>1. CASE First(c) \in DOMAIN dlq
      BY <1>1, <2>1 DEF DeleteRow, Deleted
    <2>2. CASE First(c) \notin DOMAIN dlq
      BY <1>1, <2>2 DEF DeleteRow, Without, Restrict, TableOK
    <2>3. QED
      BY <2>1, <2>2
  <1>2. CASE DeleteFails(c)
    BY <1>2 DEF DeleteFails, Deleted
  <1>3. QED
    BY <1>1, <1>2 DEF Loop, RequeueRead, RequeueEnqueue, RequeueFails, Answer,
                ReadPage, NextPage, LastPage, PageFails

LEMMA TableStep ==
    ASSUME TableOK, Stamped, [Next]_vars
    PROVE  TableOK' /\ Stamped'
  <1>1. CASE Capture
    BY <1>1, CaptureKeeps
  <1>2. CASE DeleteElsewhere
    <2>1. PICK d : Deleted(d)
      BY <1>2 DEF DeleteElsewhere, Deleted
    <2>2. QED
      BY <2>1, DeletedKeeps
  <1>3. CASE UNCHANGED <<dlq, nextDlq, now>>
    BY <1>3 DEF TableOK, Stamped
  <1>4. ASSUME NEW c \in Callers, Loop(c) PROVE TableOK' /\ Stamped'
    BY <1>3, <1>4, LoopTable, DeletedKeeps, BookKeeps
  <1>5. QED
    BY <1>1, <1>2, <1>3, <1>4 DEF Next, Request, StartPaging, vars

LEMMA ShiftKeeps ==
    ASSUME TableOK, Stamped, HistoryOK, NEW d, Deleted(d), Shift(d)
    PROVE  shifted' \subseteq Callers /\ owed' \in [Callers -> SUBSET DOMAIN dlq']
  BY DeletedKeeps DEF Shift, HistoryOK

LEMMA LoopHistory ==
    ASSUME TypeOK, Stamped, NEW c \in Callers, Loop(c)
    PROVE  HistoryOK'
  <1> TableOK /\ CallsOK /\ HistoryOK
    BY TypeParts
  <1>1. CASE DeleteRow(c)
    <2>1. CASE First(c) \in DOMAIN dlq
      <3>1. Deleted(First(c)) /\ Shift(First(c))
        BY <1>1, <2>1 DEF DeleteRow, Deleted
      <3>2. QED
        BY <1>1, <3>1, ShiftKeeps DEF DeleteRow, HistoryOK
    <2>2. CASE First(c) \notin DOMAIN dlq
      <3>1. UNCHANGED <<dlq, pages>>
        BY <1>1, <2>2 DEF DeleteRow, Without, Restrict, TableOK
      <3>2. QED
        BY <1>1, <3>1 DEF DeleteRow, HistoryOK, pages
    <2>3. QED
      BY <2>1, <2>2
  <1>2. CASE RequeueBook(c)
    <2>1. DOMAIN dlq' = DOMAIN dlq
      BY <1>2, BookKeeps
    <2>2. QED
      BY <1>2, <2>1 DEF RequeueBook, HistoryOK, pages
  <1>f. CASE DeleteFails(c)
    <2>1. CASE UNCHANGED <<dlq, lost, pages>>
      BY <1>f, <2>1 DEF DeleteFails, HistoryOK, pages
    <2>2. CASE Deleted(First(c)) /\ Shift(First(c)) /\ lost' = lost + 1
      BY <1>f, <2>2, ShiftKeeps DEF DeleteFails, HistoryOK
    <2>3. QED
      BY <1>f, <2>1, <2>2 DEF DeleteFails, Deleted
  <1>3. CASE RequeueRead(c) \/ RequeueEnqueue(c) \/ RequeueFails(c) \/ ReadPage(c) \/ NextPage(c)
    BY <1>3 DEF RequeueRead, RequeueEnqueue, RequeueFails, ReadPage, NextPage, HistoryOK, pages
  <1>4. CASE Answer(c)
    <2>1. call[c].deleted \in Nat /\ call[c].requeued \in Nat
      BY CallFields DEF CallsOK
    <2>2. QED
      BY <1>4, <2>1 DEF Answer, HistoryOK, pages
  <1>5. CASE LastPage(c) \/ PageFails(c)
    BY <1>5 DEF LastPage, PageFails, EndPaging, HistoryOK
  <1>6. QED
    BY <1>1, <1>2, <1>f, <1>3, <1>4, <1>5 DEF Loop

LEMMA TypeStep ==
    ASSUME TypeOK, Stamped, [Next]_vars
    PROVE  TypeOK' /\ Stamped'
  <1>1. TableOK /\ CallsOK /\ HistoryOK /\ TableOK' /\ Stamped' /\ now \in Nat
    BY TypeParts, TableStep, NowIsNat
  <1>2. CASE Capture
    <2>1. now' = now + 1 /\ UNCHANGED <<call, batches, answered, lost>>
      BY <1>2, CaptureKeeps, <1>1 DEF Capture
    <2>2. CallsOK'
      <3>1. ASSUME NEW c \in Callers PROVE call[c].cutoff <= now'
        BY <1>1, <2>1, CallFields DEF CallsOK
      <3>2. QED
        BY <1>1, <2>1, <3>1 DEF CallsOK, Handled
    <2>3. shifted' \subseteq Callers /\ owed' \in [Callers -> SUBSET DOMAIN dlq']
      BY <1>1, <1>2, CaptureKeeps DEF Capture, HistoryOK, pages
    <2>4. HistoryOK'
      BY <1>1, <2>1, <2>3 DEF HistoryOK
    <2>5. QED
      BY <1>1, <2>2, <2>4, TypeParts
  <1>3. CASE DeleteElsewhere
    <2>1. PICK d : Deleted(d) /\ Shift(d)
      BY <1>3 DEF DeleteElsewhere, Deleted
    <2>2. shifted' \subseteq Callers /\ owed' \in [Callers -> SUBSET DOMAIN dlq']
      BY <1>1, <2>1, ShiftKeeps
    <2>3. HistoryOK' /\ CallsOK'
      BY <1>1, <1>3, <2>2 DEF DeleteElsewhere, HistoryOK, CallsOK, Handled
    <2>4. QED
      BY <1>1, <2>3, TypeParts
  <1>4. ASSUME NEW c \in Callers, NEW op \in {"cleanup", "delete", "requeue"}, Request(c, op)
        PROVE  TypeOK'
    <2>1. CallsOK'
      BY <1>4, RequestCalls
    <2>2. HistoryOK'
      BY <1>1, <1>4, DlqAdminAssumption DEF Request, HistoryOK, pages
    <2>3. QED
      BY <1>1, <2>1, <2>2, TypeParts
  <1>5. ASSUME NEW c \in Callers, StartPaging(c) PROVE TypeOK'
    <2>1. CallsOK'
      BY <1>5, StartPagingCalls
    <2>2. HistoryOK'
      BY <1>1, <1>5, DlqAdminAssumption DEF StartPaging, HistoryOK
    <2>3. QED
      BY <1>1, <2>1, <2>2, TypeParts
  <1>6. ASSUME NEW c \in Callers, Loop(c) PROVE TypeOK'
    BY <1>1, <1>6, LoopCalls, LoopHistory, TypeParts
  <1>7. CASE UNCHANGED vars
    BY <1>1, <1>7 DEF vars, pages, TypeOK, Left
  <1>8. QED
    BY <1>1, <1>2, <1>3, <1>4, <1>5, <1>6, <1>7 DEF Next

LEMMA TypeInit == ASSUME Init PROVE TypeOK /\ Stamped
  <1>1. TableOK /\ Stamped
    BY DlqAdminAssumption DEF Init, TableOK, Stamped
  <1>2. CallsOK
    BY <1>1, IdleFits DEF Init, CallsOK
  <1>3. HistoryOK
    BY DlqAdminAssumption DEF Init, HistoryOK
  <1>4. QED
    BY <1>1, <1>2, <1>3, TypeParts

\* Whatever number of callers, limits and statements that fail: a batch never has more
\* rows to handle, and handles none more, than its max_jobs.
THEOREM TypeCorrect == Spec => []TypeOK
  <1>1. TypeOK /\ Stamped /\ [Next]_vars => (TypeOK /\ Stamped)'
    BY TypeStep
  <1>2. QED
    BY <1>1, TypeInit, PTL DEF Spec

-----------------------------------------------------------------------------
(* A cleanup that is through with its listing.                              *)

\* A row that is there after a step was there before, or has failed in this step.
LEMMA RowsAge ==
    ASSUME TypeOK, Stamped, [Next]_vars, NEW d \in DOMAIN dlq'
    PROVE  \/ d \in DOMAIN dlq /\ dlq'[d].failedAt = dlq[d].failedAt
           \/ dlq'[d].failedAt = now + 1
  <1>1. TableOK
    BY TypeParts
  <1>2. CASE Capture
    BY <1>1, <1>2, CaptureKeeps
  <1>3. CASE DeleteElsewhere
    <2>1. PICK e : Deleted(e)
      BY <1>3 DEF DeleteElsewhere, Deleted
    <2>2. QED
      BY <1>1, <2>1, DeletedKeeps
  <1>4. CASE UNCHANGED dlq
    BY <1>4
  <1>5. ASSUME NEW c \in Callers, Loop(c)
        PROVE  d \in DOMAIN dlq /\ dlq'[d].failedAt = dlq[d].failedAt
    BY <1>1, <1>5, LoopTable, DeletedKeeps, BookKeeps
  <1>6. QED
    BY <1>2, <1>3, <1>4, <1>5 DEF Next, Request, StartPaging, vars

LEMMA PastShrinks ==
    ASSUME TypeOK, Stamped, [Next]_vars, NEW to \in Nat, to <= now
    PROVE  FailedBetween(0, to)' \subseteq FailedBetween(0, to)
  <1> SUFFICES ASSUME NEW d \in DOMAIN dlq', dlq'[d].failedAt \in 0..to
               PROVE  d \in FailedBetween(0, to)
    BY DEF FailedBetween
  <1>1. now \in Nat
    BY TypeParts, NowIsNat
  <1>2. dlq'[d].failedAt # now + 1
    BY <1>1
  <1>3. d \in DOMAIN dlq /\ dlq'[d].failedAt = dlq[d].failedAt
    BY <1>2, RowsAge
  <1>4. QED
    BY <1>3 DEF FailedBetween

\* Old rows are among those a cleanup without an error has still to delete, if its
\* listing was not cut off.
Thorough(c) == call[c].op = "cleanup" /\ ~call[c].full /\ ~call[c].erred
OldRowsListed ==
    \A c \in Callers : Thorough(c) => FailedBetween(0, call[c].cutoff) \subseteq Left(c)

\* What a caller's own steps make of the request.
LEMMA LoopRequests ==
    ASSUME TypeOK, NEW c \in Callers, Loop(c)
    PROVE  /\ \A v \in Callers \ {c} : call'[v] = call[v]
           /\ \/ call'[c].op = "idle"
              \/ call'[c].op = call[c].op /\ call[c].op \in {"requeue", "page"}
              \/ DeleteFails(c) /\ call'[c].op = call[c].op /\ call'[c].erred
              \/ /\ DeleteRow(c)
                 /\ call'[c].op = call[c].op /\ call'[c].todo = Rest(c)
                 /\ call'[c].full = call[c].full /\ call'[c].erred = call[c].erred
                 /\ call'[c].cutoff = call[c].cutoff
  <1>1. call \in [Callers -> Calls] /\ call[c] \in Calls
    BY DEF TypeOK
  <1>2. ASSUME NEW k, Advance(c, k)
        PROVE  call'[c] = k /\ (\A v \in Callers \ {c} : call'[v] = call[v])
    BY <1>1, <1>2 DEF Advance
  <1>3. CASE DeleteRow(c)
    <2> DEFINE k == [call[c] EXCEPT !.todo = Rest(c),
                        !.deleted = @ + IF First(c) \in DOMAIN dlq THEN 1 ELSE 0]
    <2>1. Advance(c, k)
      BY <1>3 DEF DeleteRow
    <2>2. /\ k.op = call[c].op /\ k.todo = Rest(c) /\ k.full = call[c].full
          /\ k.erred = call[c].erred /\ k.cutoff = call[c].cutoff
      BY <1>1 DEF Calls
    <2> HIDE DEF k
    <2>3. QED
      BY <1>2, <1>3, <2>1, <2>2
  <1>4. CASE DeleteFails(c)
    <2> DEFINE k == [call[c] EXCEPT !.todo = Rest(c), !.erred = TRUE]
    <2>1. Advance(c, k)
      BY <1>4 DEF DeleteFails
    <2>2. k.op = call[c].op /\ k.erred
      BY <1>1 DEF Calls
    <2> HIDE DEF k
    <2>3. QED
      BY <1>2, <1>4, <2>1, <2>2
  <1>5. ASSUME call[c].op \in {"requeue", "page"}, NEW k, Advance(c, k), k.op = call[c].op
        PROVE  /\ call'[c].op = call[c].op /\ call[c].op \in {"requeue", "page"}
               /\ \A v \in Callers \ {c} : call'[v] = call[v]
    BY <1>2, <1>5
  <1>6. CASE RequeueRead(c) \/ RequeueEnqueue(c) \/ RequeueFails(c) \/ RequeueBook(c)
    <2>1. call[c].op = "requeue"
      BY <1>6 DEF RequeueRead, RequeueEnqueue, RequeueFails, RequeueBook, Requeueing
    <2>2. \A step : [call[c] EXCEPT !.step = step].op = call[c].op
      BY <1>1 DEF Calls
    <2>3. [call[c] EXCEPT !.step = "next", !.todo = Rest(c), !.failed = @ + 1].op = call[c].op
      BY <1>1 DEF Calls
    <2>4. [call[c] EXCEPT !.step = "next", !.todo = Rest(c), !.requeued = @ + 1].op = call[c].op
      BY <1>1 DEF Calls
    <2>5. CASE RequeueRead(c) \/ RequeueEnqueue(c)
      BY <1>5, <2>1, <2>2, <2>5 DEF RequeueRead, RequeueEnqueue
    <2>6. CASE RequeueFails(c)
      BY <1>5, <2>1, <2>3, <2>6 DEF RequeueFails
    <2>7. CASE RequeueBook(c)
      BY <1>5, <2>1, <2>4, <2>7 DEF RequeueBook
    <2>8. QED
      BY <1>6, <2>5, <2>6, <2>7
  <1>7. CASE ReadPage(c)
    <2> DEFINE k == [call[c] EXCEPT !.step = "count",
                        !.seen = @ \cup Slice(DOMAIN dlq, PageSize, call[c].offset)]
    <2>1. Advance(c, k) /\ call[c].op = "page"
      BY <1>7 DEF ReadPage
    <2>2. k.op = call[c].op
      BY <1>1 DEF Calls
    <2> HIDE DEF k
    <2>3. QED
      BY <1>5, <2>1, <2>2
  <1>8. CASE NextPage(c)
    <2> DEFINE k == [call[c] EXCEPT !.step = "next", !.offset = @ + PageSize]
    <2>1. Advance(c, k) /\ call[c].op = "page"
      BY <1>8 DEF NextPage
    <2>2. k.op = call[c].op
      BY <1>1 DEF Calls
    <2> HIDE DEF k
    <2>3. QED
      BY <1>5, <2>1, <2>2
  <1>9. CASE Answer(c) \/ LastPage(c) \/ PageFails(c)
    <2>1. Idle.op = "idle"
      BY DEF Idle
    <2>2. QED
      BY <1>2, <1>9, <2>1 DEF Answer, LastPage, PageFails
  <1>10. QED
    BY <1>3, <1>4, <1>6, <1>7, <1>8, <1>9 DEF Loop

LEMMA OldRowsStep ==
    ASSUME TypeOK, Stamped, OldRowsListed, [Next]_vars
    PROVE  OldRowsListed'
  <1> SUFFICES ASSUME NEW c \in Callers, Thorough(c)',
                      NEW d \in DOMAIN dlq', dlq'[d].failedAt \in 0..call'[c].cutoff
               PROVE  d \in DOMAIN call'[c].todo
    BY DEF OldRowsListed, FailedBetween, Left
  <1>1. /\ call \in [Callers -> Calls] /\ call[c] \in Calls /\ TableOK
        /\ call[c].cutoff \in Nat /\ call[c].cutoff <= now
    BY TypeParts, CallFields DEF TypeOK
  <1>2. ASSUME Thorough(c), call'[c].cutoff = call[c].cutoff
        PROVE  d \in Left(c)
    <2>1. PICK to \in Nat : to = call[c].cutoff
      BY <1>1
    <2>2. FailedBetween(0, to)' \subseteq FailedBetween(0, to)
      BY <1>1, <2>1, PastShrinks
    <2>3. d \in FailedBetween(0, to)
      BY <1>2, <2>1, <2>2 DEF FailedBetween
    <2>4. QED
      BY <1>2, <2>1, <2>3 DEF OldRowsListed
  <1>3. CASE call'[c] = call[c]
    BY <1>2, <1>3 DEF Thorough, Left
  <1>4. ASSUME NEW op \in {"cleanup", "delete", "requeue"}, Request(c, op), call'[c] # call[c]
        PROVE  d \in DOMAIN call'[c].todo
    <2>1. PICK from \in 0..MaxCaptures, to \in 0..MaxCaptures :
             /\ op = "cleanup" => from = 0
             /\ call' = [call EXCEPT ![c] =
                  [Idle EXCEPT !.op = op, !.cutoff = Past(to),
                               !.todo = [e \in Listed(from, to) |-> dlq[e].failedAt],
                               !.full = Cardinality(Listed(from, to)) = Limit]]
      BY <1>4 DEF Request
    <2> DEFINE full == Cardinality(Listed(from, to)) = Limit
               todo == [e \in Listed(from, to) |-> dlq[e].failedAt]
               k == [Idle EXCEPT !.op = op, !.cutoff = Past(to), !.todo = todo, !.full = full]
    <2>2. call'[c] = k /\ DOMAIN todo = Listed(from, to)
      BY <1>1, <2>1
    <2> HIDE DEF full, todo
    <2>3. k.op = op /\ k.cutoff = Past(to) /\ k.todo = todo /\ k.full = full
      BY DEF Idle
    <2> HIDE DEF k
    <2>4. from = 0 /\ ~full
      BY <2>1, <2>2, <2>3 DEF Thorough
    <2>5. FailedBetween(0, to) \in SUBSET DOMAIN dlq
      BY DEF FailedBetween
    <2>6. Listed(0, to) = FailedBetween(0, to)
      BY <2>4, <2>5, ShortSliceIsAll DEF Listed, full
    <2>7. d \in FailedBetween(0, to)
      <3>1. dlq' = dlq /\ call'[c].cutoff = Past(to)
        BY <1>4, <2>2, <2>3 DEF Request
      <3>2. d \in DOMAIN dlq /\ dlq[d].failedAt \in 0..Past(to)
        BY <3>1
      <3>3. to \in Nat /\ Past(to) \in Nat /\ Past(to) <= to
        BY <1>1, NowIsNat DEF Past
      <3>4. 0..Past(to) \subseteq 0..to
        BY <3>3
      <3>5. QED
        BY <3>2, <3>4 DEF FailedBetween
    <2>8. QED
      BY <2>2, <2>3, <2>4, <2>6, <2>7
  <1>5. CASE StartPaging(c)
    <2> DEFINE k == [Idle EXCEPT !.op = "page"]
    <2>1. call'[c] = k
      BY <1>1, <1>5 DEF StartPaging, Advance
    <2>2. k.op = "page"
      BY DEF Idle
    <2>3. QED
      BY <2>1, <2>2 DEF Thorough
  <1>6. CASE Loop(c)
    <2>1. /\ DeleteRow(c) /\ call'[c].todo = Rest(c) /\ call'[c].cutoff = call[c].cutoff
          /\ Thorough(c)
      BY <1>6, LoopRequests DEF Thorough
    <2>2. d \in Left(c)
      BY <1>2, <2>1
    <2>3. dlq' = Without(dlq, First(c)) /\ Left(c) # {}
      BY <2>1 DEF DeleteRow, Deleting
    <2>4. d # First(c)
      BY <2>3 DEF Without, Restrict
    <2>5. DOMAIN Rest(c) = Left(c) \ {First(c)}
      BY <2>3, RestIsShorter, TypeParts
    <2>6. QED
      BY <2>1, <2>2, <2>4, <2>5
  <1>7. ASSUME NEW v \in Callers \ {c}, NEW op \in {"cleanup", "delete", "requeue"},
               Request(v, op) \/ StartPaging(v) \/ Loop(v)
        PROVE  call'[c] = call[c]
    BY <1>1, <1>7, LoopRequests DEF Request, StartPaging, Advance
  <1>8. CASE Capture \/ DeleteElsewhere \/ UNCHANGED vars
    BY <1>3, <1>8 DEF Capture, DeleteElsewhere, vars
  <1>9. QED
    BY <1>3, <1>4, <1>5, <1>6, <1>7, <1>8 DEF Next

\* Whatever is captured, requeued and deleted meanwhile, by however many callers: a
\* cleanup whose listing was not cut off and that has met no error leaves no row that
\* failed at or before its cutoff.
THEOREM CleanupsAreComplete == Spec => []CleanupComplete
  <1> DEFINE Inv == TypeOK /\ Stamped /\ OldRowsListed
  <1>1. Init => Inv
    BY TypeInit DEF Init, Idle, OldRowsListed, Thorough
  <1>2. Inv /\ [Next]_vars => Inv'
    BY TypeStep, OldRowsStep
  <1>3. Inv => CleanupComplete
    BY DEF OldRowsListed, Thorough, CleanupComplete
  <1>4. QED
    BY <1>1, <1>2, <1>3, PTL DEF Spec

-----------------------------------------------------------------------------
(* The pages of GET /dlq.                                                   *)

\* How many rows are before those the pages have to show and have not yet shown.
Deep(c) == call[c].offset + (IF call[c].step = "count" THEN PageSize ELSE 0)
Unseen(c) == owed[c] \ call[c].seen
PagesGoOn ==
    \A c \in Callers : call[c].op = "page" /\ c \notin shifted
       => \A d \in Unseen(c) : Cardinality(Before(DOMAIN dlq, d)) >= Deep(c)

\* Rows that fail later push a row back, and none that was before it comes after it.
LEMMA BeforeGrows ==
    ASSUME TypeOK, TypeOK', Stamped, Stamped', NEW d \in DOMAIN dlq,
           DOMAIN dlq \subseteq DOMAIN dlq', dlq'[d].failedAt = dlq[d].failedAt,
           \A e \in DOMAIN dlq : dlq'[e].failedAt >= dlq[e].failedAt
    PROVE  /\ Cardinality(Before(DOMAIN dlq, d)) \in Nat
           /\ Cardinality(Before(DOMAIN dlq, d)') \in Nat
           /\ Cardinality(Before(DOMAIN dlq, d)) <= Cardinality(Before(DOMAIN dlq, d)')
  <1>1. \A e \in DOMAIN dlq : dlq[e].failedAt \in Nat /\ dlq'[e].failedAt \in Nat
    BY DEF Stamped
  <1>2. Before(DOMAIN dlq, d) \in SUBSET (Before(DOMAIN dlq, d)')
    BY <1>1 DEF Before
  <1>3. DOMAIN dlq' \in SUBSET (1..MaxRows) /\ MaxRows \in Nat
    BY DlqAdminAssumption DEF TypeOK
  <1>4. IsFiniteSet(1..MaxRows)
    BY <1>3, FS_Interval
  <1>5. IsFiniteSet(DOMAIN dlq')
    BY <1>3, <1>4, FS_Subset
  <1>6. Before(DOMAIN dlq, d)' \in SUBSET DOMAIN dlq'
    BY DEF Before
  <1>7. IsFiniteSet(Before(DOMAIN dlq, d)')
    BY <1>5, <1>6, FS_Subset
  <1>8. QED
    BY <1>2, <1>7, FS_Subset, FS_CardinalityType

\* The order is kept by every step that deletes no row.
LEMMA OrderKept ==
    ASSUME TypeOK, Stamped, PagesGoOn, [Next]_vars, NEW c \in Callers,
           call[c].op = "page", c \notin shifted, DOMAIN dlq \subseteq DOMAIN dlq',
           \A e \in DOMAIN dlq : dlq'[e].failedAt >= dlq[e].failedAt,
           NEW d \in Unseen(c), dlq'[d].failedAt = dlq[d].failedAt
    PROVE  /\ Cardinality(Before(DOMAIN dlq, d)') \in Nat
           /\ Cardinality(Before(DOMAIN dlq, d)') >= Deep(c)
  <1>1. d \in DOMAIN dlq
    BY DEF Unseen, TypeOK
  <1>2. TypeOK' /\ Stamped'
    BY TypeStep
  <1>3. /\ Cardinality(Before(DOMAIN dlq, d)) \in Nat
        /\ Cardinality(Before(DOMAIN dlq, d)') \in Nat
        /\ Cardinality(Before(DOMAIN dlq, d)) <= Cardinality(Before(DOMAIN dlq, d)')
    BY <1>1, <1>2, BeforeGrows
  <1>4. Cardinality(Before(DOMAIN dlq, d)) >= Deep(c)
    BY DEF PagesGoOn
  <1>5. Deep(c) \in Nat
    BY CallFields, DlqAdminAssumption DEF Deep, TypeOK
  <1>6. QED
    BY <1>3, <1>4, <1>5

\* A deletion is noted of every caller that is paging.
LEMMA ShiftIsNoted ==
    ASSUME TypeOK, NEW c \in Callers, NEW e, Shift(e), call[c].op = "page"
    PROVE  c \in shifted'
  BY DEF Shift

LEMMA PagesStep ==
    ASSUME TypeOK, Stamped, PagesGoOn, [Next]_vars
    PROVE  PagesGoOn'
  <1> SUFFICES ASSUME NEW c \in Callers, call'[c].op = "page", c \notin shifted',
                      NEW d \in owed'[c], d \notin call'[c].seen
               PROVE  Cardinality(Before(DOMAIN dlq, d)') >= Deep(c)'
    BY DEF PagesGoOn, Unseen
  <1>1. /\ call \in [Callers -> Calls] /\ call[c] \in Calls /\ TableOK /\ CallsOK
        /\ owed \in [Callers -> SUBSET DOMAIN dlq]
        /\ PageSize \in Nat \ {0} /\ call[c].offset \in Nat
    BY TypeParts, CallFields, DlqAdminAssumption DEF TypeOK
  <1>2. \A e \in DOMAIN dlq : dlq[e].failedAt \in Nat /\ dlq[e].failedAt <= now /\ now \in Nat
    BY <1>1, NowIsNat DEF Stamped
  \* Nobody deletes, and the caller has read nothing.
  <1>3. ASSUME call'[c] = call[c], c \notin shifted, d \in owed[c],
               DOMAIN dlq \subseteq DOMAIN dlq',
               \A e \in DOMAIN dlq : dlq'[e].failedAt >= dlq[e].failedAt,
               dlq'[d].failedAt = dlq[d].failedAt
        PROVE  Cardinality(Before(DOMAIN dlq, d)') >= Deep(c)'
    <2>1. d \in Unseen(c) /\ call[c].op = "page"
      BY <1>3 DEF Unseen
    <2>2. Deep(c)' = Deep(c)
      BY <1>3 DEF Deep
    <2>3. QED
      BY <1>3, <2>1, <2>2, OrderKept
  <1>4. ASSUME call'[c] = call[c], UNCHANGED <<dlq, shifted>>, owed'[c] = owed[c]
        PROVE  Cardinality(Before(DOMAIN dlq, d)') >= Deep(c)'
    <2>1. \A e \in DOMAIN dlq : dlq[e].failedAt >= dlq[e].failedAt
      BY <1>2
    <2>2. QED
      BY <1>3, <1>4, <2>1
  <1>5. CASE Capture
    <2>1. UNCHANGED <<call, shifted>>
      BY <1>5 DEF Capture, pages
    <2>2. /\ DOMAIN dlq \subseteq DOMAIN dlq' /\ now' = now + 1
          /\ d \in owed[c] /\ dlq'[d] = dlq[d]
          /\ \A e \in DOMAIN dlq : dlq'[e] = dlq[e] \/ dlq'[e].failedAt = now'
      BY <1>1, <1>5, CaptureKeeps
    <2>3. \A e \in DOMAIN dlq : dlq'[e].failedAt >= dlq[e].failedAt
      BY <1>2, <2>2
    <2>4. QED
      BY <1>3, <2>1, <2>2, <2>3
  <1>6. CASE DeleteElsewhere
    BY <1>6, ShiftIsNoted DEF DeleteElsewhere
  <1>7. ASSUME NEW v \in Callers, NEW op \in {"cleanup", "delete", "requeue"}, Request(v, op)
        PROVE  Cardinality(Before(DOMAIN dlq, d)') >= Deep(c)'
    <2>1. UNCHANGED <<dlq, owed, shifted>>
      BY <1>7 DEF Request, pages
    <2>2. call'[c] = call[c]
      <3>1. ASSUME v = c, NEW k, call' = [call EXCEPT ![c] = k], k.op = op PROVE FALSE
        BY <1>1, <3>1
      <3>2. \A cutoff, todo, full :
               [Idle EXCEPT !.op = op, !.cutoff = cutoff, !.todo = todo, !.full = full].op = op
        BY DEF Idle
      <3>3. CASE v = c
        <4>1. PICK from, to \in 0..MaxCaptures :
                 \/ call' = [call EXCEPT ![c] =
                       [Idle EXCEPT !.op = op, !.cutoff = Past(to),
                                    !.todo = [e \in Listed(from, to) |-> dlq[e].failedAt],
                                    !.full = Cardinality(Listed(from, to)) = Limit]]
                 \/ UNCHANGED call
          BY <1>7, <3>3 DEF Request
        <4> DEFINE todo == [e \in Listed(from, to) |-> dlq[e].failedAt]
                   full == Cardinality(Listed(from, to)) = Limit
                   k == [Idle EXCEPT !.op = op, !.cutoff = Past(to), !.todo = todo, !.full = full]
        <4>2. k.op = op
          BY <3>2
        <4>3. call' = [call EXCEPT ![c] = k] \/ UNCHANGED call
          BY <4>1
        <4> HIDE DEF k
        <4>4. call' # [call EXCEPT ![c] = k]
          BY <3>1, <3>3, <4>2
        <4>5. QED
          BY <4>3, <4>4
      <3>4. CASE v # c
        BY <1>1, <1>7, <3>4 DEF Request
      <3>5. QED
        BY <3>3, <3>4
    <2>3. QED
      BY <1>4, <2>1, <2>2
  <1>8. ASSUME NEW v \in Callers, StartPaging(v)
        PROVE  Cardinality(Before(DOMAIN dlq, d)') >= Deep(c)'
    <2>1. CASE v # c
      BY <1>1, <1>4, <1>8, <2>1 DEF StartPaging, Advance
    <2>2. CASE v = c
      <3> DEFINE k == [Idle EXCEPT !.op = "page"]
      <3>1. call'[c] = k /\ k.offset = 0 /\ k.step = "next" /\ UNCHANGED dlq
        BY <1>1, <1>8, <2>2 DEF StartPaging, Advance, Idle
      <3>2. Deep(c)' = 0
        BY <3>1 DEF Deep
      <3>3. Before(DOMAIN dlq, d)' = Before(DOMAIN dlq, d)
        BY <3>1 DEF Before
      <3>4. Cardinality(Before(DOMAIN dlq, d)) \in Nat
        BY RowsAreFinite
      <3>5. QED
        BY <3>2, <3>3, <3>4
    <2>3. QED
      BY <2>1, <2>2
  <1>9. ASSUME NEW v \in Callers \ {c}, Loop(v)
        PROVE  Cardinality(Before(DOMAIN dlq, d)') >= Deep(c)'
    <2>1. call'[c] = call[c]
      BY <1>9, LoopRequests
    <2>2. CASE UNCHANGED <<dlq, owed, shifted>>
      BY <1>4, <2>1, <2>2
    <2>3. CASE DeleteRow(v)
      <3>1. CASE First(v) \in DOMAIN dlq
        BY <2>1, <2>3, <3>1, ShiftIsNoted DEF DeleteRow
      <3>2. CASE First(v) \notin DOMAIN dlq
        BY <1>1, <2>2, <2>3, <3>2 DEF DeleteRow, Without, Restrict, TableOK, pages
      <3>3. QED
        BY <3>1, <3>2
    <2>4. CASE RequeueBook(v)
      <3>1. DOMAIN dlq' = DOMAIN dlq /\ (\A e \in DOMAIN dlq : dlq'[e].failedAt = dlq[e].failedAt)
        BY <1>1, <2>4, BookKeeps
      <3>2. UNCHANGED <<owed, shifted>> /\ d \in DOMAIN dlq
        BY <1>1, <2>4 DEF RequeueBook, pages
      <3>3. \A e \in DOMAIN dlq : dlq'[e].failedAt >= dlq[e].failedAt
        BY <1>2, <3>1
      <3>4. QED
        BY <1>3, <2>1, <3>1, <3>2, <3>3
    <2>5. CASE LastPage(v) \/ PageFails(v)
      <3>1. UNCHANGED dlq /\ owed'[c] = owed[c] /\ c \notin shifted
        BY <1>1, <1>9, <2>5 DEF LastPage, PageFails, EndPaging
      <3>2. \A e \in DOMAIN dlq : dlq[e].failedAt >= dlq[e].failedAt
        BY <1>2
      <3>3. QED
        BY <1>3, <2>1, <3>1, <3>2
    <2>6. CASE DeleteFails(v)
      <3>1. CASE UNCHANGED <<dlq, lost, pages>>
        BY <2>2, <3>1 DEF pages
      <3>2. CASE Shift(First(v))
        BY <2>1, <3>2, ShiftIsNoted
      <3>3. QED
        BY <2>6, <3>1, <3>2 DEF DeleteFails
    <2>7. QED
      BY <1>9, <2>2, <2>3, <2>4, <2>5, <2>6
      DEF Loop, RequeueRead, RequeueEnqueue, RequeueFails, Answer, ReadPage,
          NextPage, pages
  <1>10. CASE Loop(c)
    <2>1. call[c].op = "page" /\ ~DeleteRow(c) /\ ~DeleteFails(c)
      BY <1>10, LoopRequests DEF DeleteRow, DeleteFails, Deleting
    <2>2. call'[c].op # "idle"
      OBVIOUS
    <2>3. ReadPage(c) \/ NextPage(c)
      <3>1. ~(RequeueRead(c) \/ RequeueEnqueue(c) \/ RequeueFails(c) \/ RequeueBook(c))
        BY <2>1 DEF RequeueRead, RequeueEnqueue, RequeueFails, RequeueBook, Requeueing
      <3>2. ASSUME Advance(c, Idle) PROVE FALSE
        BY <1>1, <2>2, <3>2 DEF Advance, Idle
      <3>3. QED
        BY <1>10, <2>1, <3>1, <3>2 DEF Loop, Answer, LastPage, PageFails
    <2>4. UNCHANGED <<dlq, owed, shifted>>
      BY <2>3 DEF ReadPage, NextPage, pages
    <2>5. Before(DOMAIN dlq, d)' = Before(DOMAIN dlq, d) /\ d \in DOMAIN dlq
      BY <1>1, <2>4 DEF Before
    <2>6. Cardinality(Before(DOMAIN dlq, d)) \in Nat
      BY RowsAreFinite
    <2>7. CASE ReadPage(c)
      <3> DEFINE page == Slice(DOMAIN dlq, PageSize, call[c].offset)
                 k == [call[c] EXCEPT !.step = "count", !.seen = @ \cup page]
      <3>1. call'[c] = k /\ call[c].step = "next"
        BY <1>1, <2>7 DEF ReadPage, Advance
      <3> HIDE DEF page
      <3>2. k.step = "count" /\ k.seen = call[c].seen \cup page /\ k.offset = call[c].offset
        BY <1>1 DEF Calls
      <3> HIDE DEF k
      <3>3. d \in Unseen(c) /\ d \notin page
        BY <2>4, <3>1, <3>2 DEF Unseen
      <3>4. Cardinality(Before(DOMAIN dlq, d)) >= call[c].offset
        BY <1>1, <2>1, <2>4, <3>1, <3>3 DEF PagesGoOn, Deep
      <3>5. Cardinality(Before(DOMAIN dlq, d)) \notin call[c].offset..(call[c].offset + PageSize - 1)
        BY <2>5, <3>3 DEF page, Slice
      <3>6. Cardinality(Before(DOMAIN dlq, d)) >= call[c].offset + PageSize
        BY <1>1, <2>6, <3>4, <3>5
      <3>7. Deep(c)' = call[c].offset + PageSize
        BY <3>1, <3>2 DEF Deep
      <3>8. QED
        BY <2>5, <3>6, <3>7
    <2>8. CASE NextPage(c)
      <3> DEFINE k == [call[c] EXCEPT !.step = "next", !.offset = @ + PageSize]
      <3>1. call'[c] = k /\ call[c].step = "count"
        BY <1>1, <2>8 DEF NextPage, Advance
      <3>2. k.step = "next" /\ k.seen = call[c].seen /\ k.offset = call[c].offset + PageSize
        BY <1>1 DEF Calls
      <3> HIDE DEF k
      <3>3. d \in Unseen(c)
        BY <2>4, <3>1, <3>2 DEF Unseen
      <3>4. Cardinality(Before(DOMAIN dlq, d)) >= call[c].offset + PageSize
        BY <2>1, <2>4, <3>1, <3>3 DEF PagesGoOn, Deep
      <3>5. Deep(c)' = call[c].offset + PageSize
        BY <1>1, <3>1, <3>2 DEF Deep
      <3>6. QED
        BY <2>5, <3>4, <3>5
    <2>9. QED
      BY <2>3, <2>7, <2>8
  <1>11. CASE UNCHANGED vars
    BY <1>4, <1>11 DEF vars, pages
  <1>12. QED
    BY <1>5, <1>6, <1>7, <1>8, <1>9, <1>10, <1>11 DEF Next

\* After the last page every row is before the place where the next one would begin.
LEMMA LastPageShowsRest ==
    ASSUME TypeOK, Stamped, PagesGoOn, NEW c \in Callers, LastPage(c), c \notin shifted
    PROVE  owed[c] \subseteq call[c].seen
  <1> SUFFICES ASSUME NEW d \in owed[c], d \notin call[c].seen PROVE FALSE
    OBVIOUS
  <1>1. /\ d \in DOMAIN dlq /\ call[c].offset \in Nat /\ PageSize \in Nat
        /\ IsFiniteSet(DOMAIN dlq) /\ Cardinality(DOMAIN dlq) \in Nat
    BY RowsAreFinite, CallFields, DlqAdminAssumption DEF TypeOK
  <1>2. Cardinality(Before(DOMAIN dlq, d)) >= call[c].offset + PageSize
    BY DEF PagesGoOn, Unseen, Deep, LastPage
  <1>3. call[c].offset + PageSize >= Cardinality(DOMAIN dlq)
    BY <1>1 DEF LastPage, HasMore
  <1>4. Before(DOMAIN dlq, d) \in SUBSET (DOMAIN dlq \ {d})
    BY <1>1 DEF Before, Stamped
  <1>5. /\ IsFiniteSet(DOMAIN dlq \ {d})
        /\ Cardinality(DOMAIN dlq \ {d}) = Cardinality(DOMAIN dlq) - 1
    BY <1>1, FS_RemoveElement
  <1>6. /\ Cardinality(Before(DOMAIN dlq, d)) <= Cardinality(DOMAIN dlq \ {d})
        /\ Cardinality(Before(DOMAIN dlq, d)) \in Nat
    BY <1>4, <1>5, FS_Subset, RowsAreFinite
  <1>7. QED
    BY <1>1, <1>2, <1>3, <1>5, <1>6

\* For every page size and any captures between the pages: if no row is deleted
\* meanwhile, a caller that reads until has_more is false has seen every row that was
\* there at the start and has not failed again.
THEOREM PagesAreComplete == Spec => PagesShowAll
  <1> DEFINE Inv == TypeOK /\ Stamped /\ PagesGoOn
  <1>1. Init => Inv
    BY TypeInit DEF Init, Idle, PagesGoOn
  <1>2. Inv /\ [Next]_vars => Inv'
    BY TypeStep, PagesStep
  <1>3. Inv => \A c \in Callers : LastPage(c) /\ c \notin shifted => owed[c] \subseteq call[c].seen
    BY LastPageShowsRest
  <1>4. QED
    BY <1>1, <1>2, <1>3, PTL DEF Spec, PagesShowAll
-----------------------------------------------------------------------------
(* The counts of rows deleted: their sum over the callers is the number of    *)
(* deletions they have counted.                                               *)

Deletions(k, S) == UNION {{c} \X (1..k[c].deleted) : c \in S}

\* Of sets of finitely many callers, one contains no other of them properly.
LEMMA SmallestSet ==
    ASSUME NEW S, IsFiniteSet(S), NEW B \in SUBSET SUBSET S, B # {}
    PROVE  \E s \in B : \A t \in B : ~ (t \subseteq s /\ t # s)
  <1> DEFINE R == StrictSubsetOrdering(S)
  <1>1. IsWellFoundedOn(R, FiniteSubsetsOf(S)) /\ FiniteSubsetsOf(S) = SUBSET S
    BY FS_StrictSubsetOrderingWellFounded, FS_FiniteSubsetsOfFinite
  <1>2. \A t, s \in SUBSET S : t \subseteq s /\ t # s => <<t, s>> \in R
    BY DEF StrictSubsetOrdering
  <1> HIDE DEF R
  <1>3. PICK s \in B : \A t \in B : ~ (<<t, s>> \in R)
    BY <1>1, WFMin
  <1>4. QED
    BY <1>2, <1>3

LEMMA DeletionsSplit ==
    ASSUME NEW S, NEW k, \A c \in S : k[c].deleted \in Nat, NEW x \in S,
           IsFiniteSet(Deletions(k, S \ {x}))
    PROVE  /\ IsFiniteSet(Deletions(k, S))
           /\ Cardinality(Deletions(k, S)) = k[x].deleted + Cardinality(Deletions(k, S \ {x}))
  <1> DEFINE D == Deletions(k, S \ {x})
             n == k[x].deleted
             E == {x} \X (1..n)
  <1>1. n \in Nat
    OBVIOUS
  <1>2. Deletions(k, S) = D \cup E
    BY Zenon DEF Deletions
  <1>3. D \cap E = {}
    BY DEF Deletions
  <1> HIDE DEF D, n
  <1>4. IsFiniteSet(1..n) /\ Cardinality(1..n) = n
    <2>1. /\ IsFiniteSet(1..n)
          /\ Cardinality(1..n) = IF 1 > n THEN 0 ELSE n - 1 + 1
      BY <1>1, FS_Interval
    <2>2. QED
      BY <1>1, <2>1
  <1>5. IsFiniteSet(E) /\ Cardinality(E) = n
    <2> DEFINE I == 1..n
    <2> HIDE DEF I
    <2>1. IsFiniteSet({x}) /\ Cardinality({x}) = 1
      BY FS_Singleton
    <2>2. IsFiniteSet(I) /\ Cardinality(I) = n
      BY <1>4 DEF I
    <2>3. IsFiniteSet({x} \X I) /\ Cardinality({x} \X I) = 1 * n
      BY <2>1, <2>2, FS_Product
    <2>4. QED
      BY <1>1, <2>3 DEF I
  <1> HIDE DEF E
  <1>6. IsFiniteSet(D)
    BY DEF D
  <1>7. /\ IsFiniteSet(D \cup E)
        /\ Cardinality(D \cup E) = Cardinality(D) + Cardinality(E) - Cardinality({})
    BY <1>3, <1>5, <1>6, FS_Union
  <1>8. Cardinality(D) \in Nat
    BY <1>6, FS_CardinalityType
  <1>9. QED
    BY <1>1, <1>2, <1>5, <1>7, <1>8, FS_EmptySet DEF D, n

LEMMA DeletionsFinite ==
    ASSUME NEW S, IsFiniteSet(S), NEW k, \A c \in S : k[c].deleted \in Nat
    PROVE  \A s \in SUBSET S : IsFiniteSet(Deletions(k, s))
  <1> DEFINE B == {s \in SUBSET S : ~ IsFiniteSet(Deletions(k, s))}
  <1> SUFFICES ASSUME B # {} PROVE FALSE
    OBVIOUS
  <1>1. PICK s \in B : \A t \in B : ~ (t \subseteq s /\ t # s)
    <2>1. B \in SUBSET SUBSET S
      OBVIOUS
    <2> HIDE DEF B
    <2>2. QED
      BY <2>1, SmallestSet
  <1>2. CASE s = {}
    BY <1>1, <1>2, FS_EmptySet DEF Deletions
  <1>3. CASE s # {}
    <2>1. PICK x : x \in s
      BY <1>3
    <2>2. IsFiniteSet(Deletions(k, s \ {x}))
      BY <1>1, <2>1
    <2>3. \A c \in s : k[c].deleted \in Nat
      OBVIOUS
    <2>4. IsFiniteSet(Deletions(k, s))
      BY <2>1, <2>2, <2>3, DeletionsSplit
    <2>5. QED
      BY <2>4
  <1>4. QED
    BY <1>2, <1>3

\* The recursion of MapThenSumSet.
Sums(h, k, S) ==
    h = [s \in SUBSET S |-> IF s = {} THEN 0
                            ELSE LET x == CHOOSE y \in s : TRUE
                                 IN  k[x].deleted + h[s \ {x}]]

LEMMA SumUnfolds ==
    ASSUME NEW k, NEW S
    PROVE  MapThenSumSet(LAMBDA c : k[c].deleted, S) = (CHOOSE h : Sums(h, k, S))[S]
  BY Zenon DEF MapThenSumSet, MapThenFoldSet, Sums

LEMMA SumIs ==
    ASSUME NEW S, IsFiniteSet(S), NEW k, \A c \in S : k[c].deleted \in Nat
    PROVE  MapThenSumSet(LAMBDA c : k[c].deleted, S) = Cardinality(Deletions(k, S))
  <1> DEFINE g == [s \in SUBSET S |-> Cardinality(Deletions(k, s))]
             pick(s) == CHOOSE y \in s : TRUE
  <1>1. \A s \in SUBSET S : s # {} => pick(s) \in s
    OBVIOUS
  <1>2. g[{}] = 0
    <2>1. Deletions(k, {}) = {}
      BY DEF Deletions
    <2>2. QED
      BY <2>1, FS_EmptySet
  <1>3. ASSUME NEW s \in SUBSET S, s # {}
        PROVE  g[s] = k[pick(s)].deleted + g[s \ {pick(s)}]
    <2> DEFINE x == pick(s)
    <2>1. x \in s /\ s \ {x} \in SUBSET S /\ \A c \in s : k[c].deleted \in Nat
      BY <1>1, <1>3
    <2>2. IsFiniteSet(Deletions(k, s \ {x}))
      BY <2>1, DeletionsFinite
    <2> HIDE DEF x
    <2>3. Cardinality(Deletions(k, s)) = k[x].deleted + Cardinality(Deletions(k, s \ {x}))
      BY <2>1, <2>2, DeletionsSplit
    <2>4. QED
      BY <2>1, <2>3 DEF x
  <1>4. Sums(g, k, S)
    <2>1. \A s \in SUBSET S :
             g[s] = IF s = {} THEN 0 ELSE k[pick(s)].deleted + g[s \ {pick(s)}]
      BY <1>2, <1>3
    <2>2. g = [s \in SUBSET S |-> g[s]]
      OBVIOUS
    <2> HIDE DEF g
    <2>3. g = [s \in SUBSET S |->
                  IF s = {} THEN 0 ELSE k[pick(s)].deleted + g[s \ {pick(s)}]]
      BY <2>1, <2>2, Zenon
    <2>4. QED
      BY <2>3 DEF Sums
  <1> HIDE DEF g
  <1>5. PICK h : h = (CHOOSE f : Sums(f, k, S)) /\ Sums(h, k, S)
    BY <1>4
  <1>6. \A s \in SUBSET S :
             h[s] = IF s = {} THEN 0 ELSE k[pick(s)].deleted + h[s \ {pick(s)}]
    BY <1>5 DEF Sums
  <1> HIDE DEF pick
  <1> DEFINE B == {s \in SUBSET S : h[s] # g[s]}
  <1>7. ASSUME B # {} PROVE FALSE
    <2>1. PICK s \in B : \A t \in B : ~ (t \subseteq s /\ t # s)
      <3>1. B \in SUBSET SUBSET S
        OBVIOUS
      <3> HIDE DEF B
      <3>2. QED
        BY <1>7, <3>1, SmallestSet
    <2>2. s # {}
      BY <1>2, <1>6, <2>1
    <2>3. pick(s) \in s /\ s \ {pick(s)} \in SUBSET S
      BY <1>1, <2>1, <2>2
    <2>4. h[s \ {pick(s)}] = g[s \ {pick(s)}]
      BY <2>1, <2>3
    <2>5. h[s] = g[s]
      BY <1>3, <1>6, <2>1, <2>2, <2>4
    <2>6. QED
      BY <2>1, <2>5
  <1>8. h[S] = g[S]
    BY <1>7
  <1>9. QED
    BY <1>5, <1>8, SumUnfolds DEF g

\* One request counts otherwise than before.
LEMMA OneCountChanges ==
    ASSUME IsFiniteSet(Callers), NEW k, NEW l, NEW x \in Callers,
           \A c \in Callers : k[c].deleted \in Nat /\ l[c].deleted \in Nat,
           \A c \in Callers \ {x} : l[c].deleted = k[c].deleted
    PROVE  /\ Cardinality(Deletions(l, Callers)) + k[x].deleted
                 = Cardinality(Deletions(k, Callers)) + l[x].deleted
           /\ Cardinality(Deletions(k, Callers)) \in Nat
           /\ Cardinality(Deletions(l, Callers)) \in Nat
  <1> DEFINE others == Callers \ {x}
  <1>1. Deletions(l, others) = Deletions(k, others)
    BY Zenon DEF Deletions
  <1>2. /\ IsFiniteSet(Deletions(k, others)) /\ IsFiniteSet(Deletions(l, others))
        /\ IsFiniteSet(Deletions(k, Callers)) /\ IsFiniteSet(Deletions(l, Callers))
    BY DeletionsFinite
  <1>3. /\ Cardinality(Deletions(k, Callers)) = k[x].deleted + Cardinality(Deletions(k, others))
        /\ Cardinality(Deletions(l, Callers)) = l[x].deleted + Cardinality(Deletions(l, others))
    BY <1>2, DeletionsSplit
  <1>4. /\ Cardinality(Deletions(k, Callers)) \in Nat /\ Cardinality(Deletions(l, Callers)) \in Nat
        /\ Cardinality(Deletions(k, others)) \in Nat
    BY <1>2, FS_CardinalityType
  <1>5. k[x].deleted \in Nat /\ l[x].deleted \in Nat
    OBVIOUS
  <1> HIDE DEF others
  <1>6. QED
    BY <1>1, <1>3, <1>4, <1>5

\* DeletedOnce, with the deletions counted for their sum.
EachOnce ==
    answered.deleted + Cardinality(Deletions(call, Callers)) + lost + Cardinality(DOMAIN dlq)
        = nextDlq - 1

\* The reader of pages has no deletions to its count.
PagesCountNothing == \A c \in Callers : call[c].op = "page" => call[c].deleted = 0

LEMMA CountsAreNat ==
    ASSUME TypeOK
    PROVE  /\ call \in [Callers -> Calls]
           /\ \A c \in Callers : call[c].deleted \in Nat
           /\ answered.deleted \in Nat /\ lost \in Nat /\ nextDlq \in Nat
           /\ IsFiniteSet(DOMAIN dlq) /\ Cardinality(DOMAIN dlq) \in Nat
  <1>1. TableOK /\ CallsOK /\ HistoryOK
    BY TypeParts
  <1>2. \A c \in Callers : call[c].deleted \in Nat
    BY <1>1, CallFields DEF CallsOK
  <1>3. IsFiniteSet(DOMAIN dlq) /\ Cardinality(DOMAIN dlq) \in Nat
    BY RowsAreFinite, FS_CardinalityType
  <1>4. MaxRows \in Nat
    BY DlqAdminAssumption
  <1>5. QED
    BY <1>1, <1>2, <1>3, <1>4 DEF TableOK, CallsOK, HistoryOK

\* The one request a step of a caller works on, and by how much its count changes.
LEMMA CountsStep ==
    ASSUME IsFiniteSet(Callers), TypeOK, TypeOK', NEW c \in Callers, NEW k, Advance(c, k)
    PROVE  /\ call'[c] = k
           /\ Cardinality(Deletions(call', Callers)) + call[c].deleted
                 = Cardinality(Deletions(call, Callers)) + k.deleted
           /\ Cardinality(Deletions(call, Callers)) \in Nat
           /\ Cardinality(Deletions(call', Callers)) \in Nat
           /\ call[c].deleted \in Nat /\ k.deleted \in Nat
  <1>1. /\ \A v \in Callers : call[v].deleted \in Nat
        /\ call'[c] = k /\ \A v \in Callers \ {c} : call'[v] = call[v]
    BY CountsAreNat DEF Advance
  <1>2. \A v \in Callers : call'[v].deleted \in Nat
    <2>1. call' \in [Callers -> Calls]
      BY DEF TypeOK
    <2>2. QED
      BY <2>1, CallFields
  <1>3. PICK l : l = call'
    OBVIOUS
  <1>4. /\ \A v \in Callers : call[v].deleted \in Nat /\ l[v].deleted \in Nat
        /\ \A v \in Callers \ {c} : l[v].deleted = call[v].deleted
    BY <1>1, <1>2, <1>3
  <1>5. /\ Cardinality(Deletions(l, Callers)) + call[c].deleted
                 = Cardinality(Deletions(call, Callers)) + l[c].deleted
        /\ Cardinality(Deletions(call, Callers)) \in Nat
        /\ Cardinality(Deletions(l, Callers)) \in Nat
    BY <1>4, OneCountChanges
  <1>6. QED
    BY <1>1, <1>2, <1>3, <1>5

\* The rest of the books, in a step that deletes and inserts no row.
LEMMA SameBooks ==
    ASSUME IsFiniteSet(Callers), TypeOK, TypeOK', EachOnce, NEW c \in Callers, NEW k,
           Advance(c, k), UNCHANGED <<nextDlq, lost>>, DOMAIN dlq' = DOMAIN dlq,
           answered'.deleted + k.deleted = answered.deleted + call[c].deleted
    PROVE  EachOnce'
  <1> DEFINE before == Cardinality(Deletions(call, Callers))
             after == Cardinality(Deletions(call', Callers))
             rows == Cardinality(DOMAIN dlq)
  <1>1. /\ after + call[c].deleted = before + k.deleted
        /\ before \in Nat /\ after \in Nat /\ call[c].deleted \in Nat /\ k.deleted \in Nat
    BY CountsStep
  <1>2. /\ answered.deleted \in Nat /\ lost \in Nat /\ nextDlq \in Nat /\ rows \in Nat
    BY CountsAreNat
  <1>3. answered'.deleted \in Nat
    BY DEF TypeOK
  <1>4. answered.deleted + before + lost + rows = nextDlq - 1
    BY DEF EachOnce
  <1>5. Cardinality(DOMAIN dlq') = rows
    OBVIOUS
  <1> HIDE DEF before, after, rows
  <1>6. answered'.deleted + after + lost' + rows = nextDlq' - 1
    BY <1>1, <1>2, <1>3, <1>4
  <1>7. QED
    BY <1>5, <1>6 DEF EachOnce, after

LEMMA EachOnceLoop ==
    ASSUME IsFiniteSet(Callers), TypeOK, TypeOK', Stamped, PagesCountNothing, EachOnce,
           NEW c \in Callers, Loop(c)
    PROVE  EachOnce'
  <1>1. call[c] \in Calls /\ call[c].deleted \in Nat /\ TableOK /\ CallsOK
    BY CountsAreNat, TypeParts
  <1>2. call[c] = [op |-> call[c].op, step |-> call[c].step, todo |-> call[c].todo,
                   cutoff |-> call[c].cutoff, full |-> call[c].full, erred |-> call[c].erred,
                   deleted |-> call[c].deleted, requeued |-> call[c].requeued,
                   failed |-> call[c].failed, offset |-> call[c].offset, seen |-> call[c].seen]
    BY <1>1, CallFields
  <1>3. CASE DeleteRow(c)
    <2> DEFINE hit == First(c) \in DOMAIN dlq
               k == [call[c] EXCEPT !.todo = Rest(c), !.deleted = @ + IF hit THEN 1 ELSE 0]
               before == Cardinality(Deletions(call, Callers))
               after == Cardinality(Deletions(call', Callers))
               rows == Cardinality(DOMAIN dlq)
    <2>1. Advance(c, k)
      BY <1>3 DEF DeleteRow
    <2>2. k.deleted = call[c].deleted + IF hit THEN 1 ELSE 0
      BY <1>2
    <2>3. DOMAIN dlq' = DOMAIN dlq \ {First(c)}
      BY <1>3 DEF DeleteRow, Without, Restrict
    <2>4. Cardinality(DOMAIN dlq \ {First(c)}) = IF hit THEN rows - 1 ELSE rows
      BY CountsAreNat, FS_RemoveElement
    <2>5. Cardinality(DOMAIN dlq') = IF hit THEN rows - 1 ELSE rows
      BY <2>3, <2>4
    <2> HIDE DEF k
    <2>6. /\ after + call[c].deleted = before + k.deleted
          /\ before \in Nat /\ after \in Nat /\ call[c].deleted \in Nat /\ k.deleted \in Nat
      BY <2>1, CountsStep
    <2>7. answered.deleted + before + lost + rows = nextDlq - 1
      BY DEF EachOnce
    <2>8. UNCHANGED <<nextDlq, lost, answered>>
      BY <1>3 DEF DeleteRow
    <2>9. answered.deleted \in Nat /\ lost \in Nat /\ nextDlq \in Nat /\ rows \in Nat
      BY CountsAreNat
    <2> HIDE DEF hit, before, after, rows
    <2>10. answered'.deleted + after + lost' + Cardinality(DOMAIN dlq') = nextDlq' - 1
      BY <2>2, <2>5, <2>6, <2>7, <2>8, <2>9
    <2>11. QED
      BY <2>10 DEF EachOnce, after
  <1>4. CASE Answer(c)
    <2>1. Advance(c, Idle) /\ UNCHANGED <<dlq, nextDlq, lost>>
      BY <1>4 DEF Answer
    <2>2. answered'.deleted = answered.deleted + call[c].deleted /\ answered.deleted \in Nat
      BY <1>4, CountsAreNat DEF Answer
    <2>3. Idle.deleted = 0
      BY DEF Idle
    <2>4. QED
      BY <1>1, <2>1, <2>2, <2>3, SameBooks
  <1>5. CASE RequeueBook(c)
    <2> DEFINE k == [call[c] EXCEPT !.step = "next", !.todo = Rest(c), !.requeued = @ + 1]
    <2>1. Advance(c, k) /\ UNCHANGED <<nextDlq, lost, answered>>
      BY <1>5 DEF RequeueBook
    <2>2. k.deleted = call[c].deleted
      BY <1>2
    <2>3. DOMAIN dlq' = DOMAIN dlq
      BY <1>1, <1>5, BookKeeps
    <2> HIDE DEF k
    <2>4. QED
      BY <1>1, <2>1, <2>2, <2>3, SameBooks
  <1>6. ASSUME NEW k, Advance(c, k), k.deleted = call[c].deleted,
               UNCHANGED <<dlq, nextDlq, lost, answered>>
        PROVE  EachOnce'
    BY <1>1, <1>6, SameBooks
  <1>7. CASE DeleteFails(c)
    <2> DEFINE k == [call[c] EXCEPT !.todo = Rest(c), !.erred = TRUE]
               before == Cardinality(Deletions(call, Callers))
               after == Cardinality(Deletions(call', Callers))
               rows == Cardinality(DOMAIN dlq)
    <2>1. Advance(c, k) /\ UNCHANGED <<nextDlq, answered>>
      BY <1>7 DEF DeleteFails
    <2>2. k.deleted = call[c].deleted
      BY <1>2
    <2> HIDE DEF k
    <2>3. CASE UNCHANGED <<dlq, lost, pages>>
      BY <1>6, <2>1, <2>2, <2>3
    \* The DELETE was applied: the row is among the lost ones.
    <2>4. CASE First(c) \in DOMAIN dlq /\ dlq' = Without(dlq, First(c)) /\ lost' = lost + 1
      <3>1. DOMAIN dlq' = DOMAIN dlq \ {First(c)}
        BY <2>4 DEF Without, Restrict
      <3>2. Cardinality(DOMAIN dlq \ {First(c)}) = rows - 1
        BY <2>4, CountsAreNat, FS_RemoveElement
      <3>3. Cardinality(DOMAIN dlq') = rows - 1
        BY <3>1, <3>2
      <3>4. /\ after + call[c].deleted = before + k.deleted
            /\ before \in Nat /\ after \in Nat /\ call[c].deleted \in Nat /\ k.deleted \in Nat
        BY <2>1, <2>2, CountsAreNat, CountsStep
      <3>5. answered.deleted + before + lost + rows = nextDlq - 1
        BY DEF EachOnce
      <3>6. answered.deleted \in Nat /\ lost \in Nat /\ nextDlq \in Nat /\ rows \in Nat
        BY CountsAreNat
      <3>7. UNCHANGED <<nextDlq, answered>> /\ lost' = lost + 1
        BY <2>1, <2>4
      <3> HIDE DEF before, after, rows
      <3>8. answered'.deleted + after + lost' + Cardinality(DOMAIN dlq') = nextDlq' - 1
        BY <2>2, <3>3, <3>4, <3>5, <3>6, <3>7
      <3>9. QED
        BY <3>8 DEF EachOnce, after
    <2>5. QED
      BY <1>7, <2>3, <2>4 DEF DeleteFails
  <1>8. ASSUME NEW step, Advance(c, [call[c] EXCEPT !.step = step]),
               UNCHANGED <<dlq, nextDlq, lost, answered>>
        PROVE  EachOnce'
    <2> DEFINE k == [call[c] EXCEPT !.step = step]
    <2>1. Advance(c, k) /\ k.deleted = call[c].deleted
      BY <1>2, <1>8
    <2> HIDE DEF k
    <2>2. QED
      BY <1>6, <1>8, <2>1
  <1>9. CASE RequeueFails(c)
    <2> DEFINE k == [call[c] EXCEPT !.step = "next", !.todo = Rest(c), !.failed = @ + 1]
    <2>1. Advance(c, k) /\ UNCHANGED <<dlq, nextDlq, lost, answered>>
      BY <1>9 DEF RequeueFails
    <2>2. k.deleted = call[c].deleted
      BY <1>2
    <2> HIDE DEF k
    <2>3. QED
      BY <1>6, <2>1, <2>2
  <1>10. CASE ReadPage(c)
    <2> DEFINE page == Slice(DOMAIN dlq, PageSize, call[c].offset)
               k == [call[c] EXCEPT !.step = "count", !.seen = @ \cup page]
    <2>1. Advance(c, k) /\ UNCHANGED <<dlq, nextDlq, lost, answered>>
      BY <1>10 DEF ReadPage
    <2> HIDE DEF page
    <2>2. k.deleted = call[c].deleted
      BY <1>2
    <2> HIDE DEF k
    <2>3. QED
      BY <1>6, <2>1, <2>2
  <1>11. CASE NextPage(c)
    <2> DEFINE k == [call[c] EXCEPT !.step = "next", !.offset = @ + PageSize]
    <2>1. Advance(c, k) /\ UNCHANGED <<dlq, nextDlq, lost, answered>>
      BY <1>11 DEF NextPage
    <2>2. k.deleted = call[c].deleted
      BY <1>2
    <2> HIDE DEF k
    <2>3. QED
      BY <1>6, <2>1, <2>2
  <1>12. CASE LastPage(c) \/ PageFails(c)
    <2>1. Advance(c, Idle) /\ UNCHANGED <<dlq, nextDlq, lost, answered>> /\ call[c].op = "page"
      BY <1>12 DEF LastPage, PageFails
    <2>2. Idle.deleted = call[c].deleted
      BY <2>1 DEF Idle, PagesCountNothing
    <2>3. QED
      BY <1>6, <2>1, <2>2
  <1>13. QED
    BY <1>3, <1>4, <1>5, <1>7, <1>8, <1>9, <1>10, <1>11, <1>12
    DEF Loop, RequeueRead, RequeueEnqueue

LEMMA PagesStillCountNothing ==
    ASSUME TypeOK, PagesCountNothing, [Next]_vars
    PROVE  PagesCountNothing'
  <1>1. call \in [Callers -> Calls]
    BY DEF TypeOK
  <1>2. CASE UNCHANGED call
    BY <1>2 DEF PagesCountNothing
  <1>3. ASSUME NEW c \in Callers, NEW k, Advance(c, k), k.op = "page" => k.deleted = 0
        PROVE  PagesCountNothing'
    BY <1>1, <1>3 DEF Advance, PagesCountNothing
  <1>4. ASSUME NEW c \in Callers, NEW op \in {"cleanup", "delete", "requeue"}, Request(c, op)
        PROVE  PagesCountNothing'
    <2>1. CASE UNCHANGED call
      BY <1>2, <2>1
    <2>2. ASSUME NEW from \in 0..MaxCaptures, NEW to \in 0..MaxCaptures,
                 Advance(c, [Idle EXCEPT !.op = op, !.cutoff = Past(to),
                                !.todo = [d \in Listed(from, to) |-> dlq[d].failedAt],
                                !.full = Cardinality(Listed(from, to)) = Limit])
          PROVE  PagesCountNothing'
      <3> DEFINE todo == [d \in Listed(from, to) |-> dlq[d].failedAt]
                 full == Cardinality(Listed(from, to)) = Limit
                 k == [Idle EXCEPT !.op = op, !.cutoff = Past(to), !.todo = todo, !.full = full]
      <3>1. Advance(c, k)
        BY <2>2
      <3> HIDE DEF todo, full
      <3>2. k.op # "page"
        BY DEF Idle
      <3> HIDE DEF k
      <3>3. QED
        BY <1>3, <3>1, <3>2
    <2>3. QED
      BY <1>4, <2>1, <2>2 DEF Request, Advance
  <1>5. ASSUME NEW c \in Callers, StartPaging(c) PROVE PagesCountNothing'
    <2> DEFINE k == [Idle EXCEPT !.op = "page"]
    <2>1. Advance(c, k) /\ k.deleted = 0
      BY <1>5 DEF StartPaging, Idle
    <2> HIDE DEF k
    <2>2. QED
      BY <1>3, <2>1
  <1>6. ASSUME NEW c \in Callers, Loop(c) PROVE PagesCountNothing'
    <2>1. /\ \A v \in Callers \ {c} : call'[v] = call[v]
          /\ call'[c].op = "page" => call[c].op = "page"
      BY <1>6, LoopRequests DEF DeleteFails, DeleteRow
    <2>2. CASE call'[c].op = "page"
      <3>1. CASE ReadPage(c)
        <4> DEFINE k == [call[c] EXCEPT !.step = "count",
                            !.seen = @ \cup Slice(DOMAIN dlq, PageSize, call[c].offset)]
        <4>1. Advance(c, k) /\ call[c].op = "page"
          BY <3>1 DEF ReadPage
        <4>2. k.deleted = call[c].deleted
          BY <1>1 DEF Calls
        <4> HIDE DEF k
        <4>3. QED
          BY <1>3, <4>1, <4>2 DEF PagesCountNothing
      <3>2. CASE NextPage(c)
        <4> DEFINE k == [call[c] EXCEPT !.step = "next", !.offset = @ + PageSize]
        <4>1. Advance(c, k) /\ call[c].op = "page"
          BY <3>2 DEF NextPage
        <4>2. k.deleted = call[c].deleted
          BY <1>1 DEF Calls
        <4> HIDE DEF k
        <4>3. QED
          BY <1>3, <4>1, <4>2 DEF PagesCountNothing
      <3>3. CASE LastPage(c) \/ PageFails(c)
        <4>1. Advance(c, Idle) /\ Idle.deleted = 0
          BY <3>3 DEF LastPage, PageFails, Idle
        <4>2. QED
          BY <1>3, <4>1
      <3>4. QED
        BY <1>6, <2>1, <2>2, <3>1, <3>2, <3>3
        DEF Loop, DeleteRow, DeleteFails, Deleting, RequeueRead, RequeueEnqueue, RequeueFails,
            RequeueBook, Requeueing, Answer
    <2>3. CASE call'[c].op # "page"
      BY <2>1, <2>3 DEF PagesCountNothing
    <2>4. QED
      BY <2>2, <2>3
  <1>7. QED
    BY <1>2, <1>4, <1>5, <1>6 DEF Next, Capture, DeleteElsewhere, vars

LEMMA EachOnceStep ==
    ASSUME IsFiniteSet(Callers), TypeOK, TypeOK', Stamped, PagesCountNothing, EachOnce,
           [Next]_vars
    PROVE  EachOnce'
  <1> DEFINE before == Cardinality(Deletions(call, Callers))
             rows == Cardinality(DOMAIN dlq)
  <1>1. before \in Nat /\ \A c \in Callers : call[c].deleted \in Nat
    BY CountsAreNat, DeletionsFinite, FS_CardinalityType
  <1>0. answered.deleted \in Nat /\ lost \in Nat /\ nextDlq \in Nat /\ rows \in Nat
    BY CountsAreNat
  <1>2. IsFiniteSet(DOMAIN dlq) /\ TableOK
    BY CountsAreNat, TypeParts
  <1>3. answered.deleted + before + lost + rows = nextDlq - 1
    BY DEF EachOnce
  <1>4. CASE Capture
    <2>1. UNCHANGED <<call, answered, lost>>
      BY <1>4 DEF Capture
    <2>2. CASE DOMAIN dlq' = DOMAIN dlq /\ nextDlq' = nextDlq
      BY <2>1, <2>2 DEF EachOnce
    <2>3. CASE DOMAIN dlq' = DOMAIN dlq \cup {nextDlq} /\ nextDlq' = nextDlq + 1
      <3>1. nextDlq \notin DOMAIN dlq
        BY <1>2 DEF TableOK
      <3>2. Cardinality(DOMAIN dlq \cup {nextDlq}) = rows + 1
        BY <1>2, <3>1, FS_AddElement
      <3>3. Cardinality(DOMAIN dlq') = rows + 1
        BY <2>3, <3>2
      <3> HIDE DEF before, rows
      <3>4. answered'.deleted + before + lost' + Cardinality(DOMAIN dlq') = nextDlq' - 1
        <4>1. answered'.deleted = answered.deleted /\ lost' = lost /\ nextDlq' = nextDlq + 1
          BY <2>1, <2>3
        <4>2. QED
          BY <1>1, <1>0, <1>3, <3>3, <4>1
      <3>5. QED
        BY <2>1, <3>4 DEF EachOnce, before
    <2>4. QED
      BY <1>4, <2>2, <2>3 DEF Capture, Put
  <1>5. CASE DeleteElsewhere
    <2>1. PICK d \in DOMAIN dlq : dlq' = Without(dlq, d)
      BY <1>5 DEF DeleteElsewhere
    <2>2. UNCHANGED <<call, answered, nextDlq>> /\ lost' = lost + 1
      BY <1>5 DEF DeleteElsewhere
    <2>3. DOMAIN dlq' = DOMAIN dlq \ {d}
      BY <2>1 DEF Without, Restrict
    <2>4. Cardinality(DOMAIN dlq \ {d}) = rows - 1
      BY <1>2, FS_RemoveElement
    <2>5. Cardinality(DOMAIN dlq') = rows - 1
      BY <2>3, <2>4
    <2> HIDE DEF before, rows
    <2>6. answered'.deleted + before + lost' + Cardinality(DOMAIN dlq') = nextDlq' - 1
      <3>1. answered'.deleted = answered.deleted /\ lost' = lost + 1 /\ nextDlq' = nextDlq
        BY <2>2
      <3>2. QED
        BY <1>1, <1>0, <1>3, <2>5, <3>1
    <2>7. QED
      BY <2>2, <2>6 DEF EachOnce, before
  <1>6. ASSUME NEW c \in Callers, NEW k, call[c] = Idle, Advance(c, k), k.deleted = 0,
               UNCHANGED <<dlq, nextDlq, lost, answered>>
        PROVE  EachOnce'
    <2>1. call[c].deleted = 0
      BY <1>6 DEF Idle
    <2>2. QED
      BY <1>6, <2>1, SameBooks
  <1>7. ASSUME NEW c \in Callers, NEW op \in {"cleanup", "delete", "requeue"}, Request(c, op)
        PROVE  EachOnce'
    <2>1. call[c] = Idle /\ UNCHANGED <<dlq, nextDlq, lost, answered>>
      BY <1>7 DEF Request
    <2>2. CASE UNCHANGED call
      BY <2>1, <2>2 DEF EachOnce
    <2>3. ASSUME NEW from \in 0..MaxCaptures, NEW to \in 0..MaxCaptures,
                 Advance(c, [Idle EXCEPT !.op = op, !.cutoff = Past(to),
                                !.todo = [d \in Listed(from, to) |-> dlq[d].failedAt],
                                !.full = Cardinality(Listed(from, to)) = Limit])
          PROVE  EachOnce'
      <3> DEFINE todo == [d \in Listed(from, to) |-> dlq[d].failedAt]
                 full == Cardinality(Listed(from, to)) = Limit
                 k == [Idle EXCEPT !.op = op, !.cutoff = Past(to), !.todo = todo, !.full = full]
      <3>1. Advance(c, k)
        BY <2>3
      <3> HIDE DEF todo, full
      <3>2. k.deleted = 0
        BY DEF Idle
      <3> HIDE DEF k
      <3>3. QED
        BY <1>6, <2>1, <3>1, <3>2
    <2>4. QED
      BY <1>7, <2>2, <2>3 DEF Request, Advance
  <1>8. ASSUME NEW c \in Callers, StartPaging(c) PROVE EachOnce'
    <2> DEFINE k == [Idle EXCEPT !.op = "page"]
    <2>1. Advance(c, k) /\ call[c] = Idle /\ UNCHANGED <<dlq, nextDlq, lost, answered>>
      BY <1>8 DEF StartPaging
    <2>2. k.deleted = 0
      BY DEF Idle
    <2> HIDE DEF k
    <2>3. QED
      BY <1>6, <2>1, <2>2
  <1>9. CASE UNCHANGED vars
    BY <1>9 DEF vars, EachOnce
  <1>10. QED
    BY <1>4, <1>5, <1>7, <1>8, <1>9, EachOnceLoop DEF Next

\* However many batches delete the same rows, with the processor, the plugins and the
\* operators at work between their statements: every row ever inserted is in the DLQ,
\* was deleted elsewhere, or is in the deleted_count of one batch.  The callers are
\* finitely many.
THEOREM DeletionsCountedOnce ==
    ASSUME IsFiniteSet(Callers)
    PROVE  Spec => []DeletedOnce
  <1> DEFINE Inv == TypeOK /\ Stamped /\ PagesCountNothing /\ EachOnce
  <1>1. ASSUME Init PROVE Inv
    <2>1. TypeOK /\ Stamped
      BY <1>1, TypeInit
    <2>2. PagesCountNothing
      BY <1>1 DEF Init, Idle, PagesCountNothing
    <2>3. \A c \in Callers : call[c].deleted = 0
      BY <1>1 DEF Init, Idle
    <2>4. Deletions(call, Callers) = {}
      <3>1. 1..0 = {}
        OBVIOUS
      <3>2. \A c \in Callers : {c} \X (1..call[c].deleted) = {}
        BY <2>3, <3>1
      <3>3. QED
        BY <3>2 DEF Deletions
    <2>5. DOMAIN dlq = {} /\ answered.deleted = 0 /\ lost = 0 /\ nextDlq = 1
      BY <1>1 DEF Init
    <2>6. EachOnce
      BY <2>4, <2>5, FS_EmptySet DEF EachOnce
    <2>7. QED
      BY <2>1, <2>2, <2>6
  <1>2. Inv /\ [Next]_vars => Inv'
    BY TypeStep, PagesStillCountNothing, EachOnceStep
  <1>3. ASSUME Inv PROVE DeletedOnce
    <2>1. MapThenSumSet(LAMBDA c : call[c].deleted, Callers)
             = Cardinality(Deletions(call, Callers))
      BY <1>3, CountsAreNat, SumIs
    <2>2. QED
      BY <1>3, <2>1, Zenon DEF EachOnce, DeletedOnce
  <1>4. QED
    BY <1>1, <1>2, <1>3, PTL DEF Spec

-----------------------------------------------------------------------------
(* How many steps a batch has before it.                                     *)

Batch == {"cleanup", "delete", "requeue"}
StepsOfRow(k) == IF k.step = "next" THEN 2 ELSE IF k.step = "enqueue" THEN 1 ELSE 0
Duty(k) == IF k.op \in Batch THEN 3 * Cardinality(DOMAIN k.todo) + StepsOfRow(k) + 1 ELSE 0

\* A delete is one statement, a requeue is at one of its three.
StepsFit ==
    \A c \in Callers : /\ call[c].op \in {"cleanup", "delete"} => call[c].step = "next"
                       /\ call[c].op = "requeue" => call[c].step \in {"next", "enqueue", "book"}

\* A batch that is not through meets the guard of Answer, of DeleteRow or of a step of
\* requeue_dlq_job, and its duty is bounded by its max_jobs.
NeverStuck ==
    \A c \in Callers : call[c].op \in Batch =>
        /\ \/ Left(c) = {}
           \/ Deleting(c)
           \/ Requeueing(c) /\ call[c].step \in {"next", "enqueue", "book"}
        /\ Duty(call[c]) \in 1..(3 * Limit + 3)

\* Each step of the system leaves a batch as it is or brings it nearer to its end.
WindsDown ==
    [][\A c \in Callers : call[c].op \in Batch
          => call'[c] = call[c] \/ Duty(call'[c]) < Duty(call[c])]_vars

LEMMA DutyIsNat == ASSUME NEW k \in Calls PROVE Duty(k) \in Nat
  <1>1. Cardinality(DOMAIN k.todo) \in Nat
    BY TodoIsFinite
  <1>2. QED
    BY <1>1 DEF Duty, StepsOfRow

\* A caller's own step.
LEMMA BatchStep ==
    ASSUME TypeOK, StepsFit, NEW c \in Callers, Loop(c), call[c].op \in Batch
    PROVE  /\ Duty(call'[c]) < Duty(call[c])
           /\ call'[c].op \in {"cleanup", "delete"} => call'[c].step = "next"
           /\ call'[c].op = "requeue" => call'[c].step \in {"next", "enqueue", "book"}
  <1> DEFINE n == Cardinality(Left(c))
  <1>1. TableOK /\ CallsOK /\ call[c] \in Calls /\ call \in [Callers -> Calls]
    BY TypeParts DEF CallsOK
  <1>2. n \in Nat /\ n = Cardinality(DOMAIN call[c].todo)
    BY <1>1, TodoIsFinite DEF Left
  <1>3. Left(c) # {} => Cardinality(DOMAIN Rest(c)) = n - 1
    BY <1>1, RestIsShorter
  <1> HIDE DEF n
  <1>4. ASSUME NEW k, Advance(c, k) PROVE call'[c] = k
    BY <1>1, <1>4 DEF Advance
  <1>5. ASSUME Left(c) # {}, NEW k, Advance(c, k), k.todo = Rest(c), k.op = call[c].op,
               k.step = "next"
        PROVE  Duty(call'[c]) < Duty(call[c]) /\ call'[c].step = "next"
    <2>1. Duty(k) = 3 * (n - 1) + 2 + 1
      BY <1>3, <1>5 DEF Duty, StepsOfRow
    <2>2. Duty(call[c]) = 3 * n + StepsOfRow(call[c]) + 1 /\ StepsOfRow(call[c]) \in Nat
      BY <1>2 DEF Duty, StepsOfRow
    <2>3. Duty(k) < Duty(call[c])
      BY <1>2, <2>1, <2>2
    <2>4. QED
      BY <1>4, <1>5, <2>3
  <1>6. CASE DeleteRow(c)
    <2> DEFINE k == [call[c] EXCEPT !.todo = Rest(c),
                        !.deleted = @ + IF First(c) \in DOMAIN dlq THEN 1 ELSE 0]
    <2>1. Advance(c, k) /\ Left(c) # {} /\ call[c].step = "next"
      BY <1>6 DEF DeleteRow, Deleting, StepsFit
    <2>2. k.todo = Rest(c) /\ k.op = call[c].op /\ k.step = "next"
      BY <1>1, <2>1 DEF Calls
    <2> HIDE DEF k
    <2>3. QED
      BY <1>5, <2>1, <2>2
  <1>7. CASE DeleteFails(c)
    <2> DEFINE k == [call[c] EXCEPT !.todo = Rest(c), !.erred = TRUE]
    <2>1. Advance(c, k) /\ Left(c) # {} /\ call[c].step = "next"
      BY <1>7 DEF DeleteFails, Deleting, StepsFit
    <2>2. k.todo = Rest(c) /\ k.op = call[c].op /\ k.step = "next"
      BY <1>1, <2>1 DEF Calls
    <2> HIDE DEF k
    <2>3. QED
      BY <1>5, <2>1, <2>2
  <1>8. CASE RequeueFails(c)
    <2> DEFINE k == [call[c] EXCEPT !.step = "next", !.todo = Rest(c), !.failed = @ + 1]
    <2>1. Advance(c, k) /\ Left(c) # {}
      BY <1>8 DEF RequeueFails, Requeueing
    <2>2. k.todo = Rest(c) /\ k.op = call[c].op /\ k.step = "next"
      BY <1>1 DEF Calls
    <2> HIDE DEF k
    <2>3. QED
      BY <1>5, <2>1, <2>2
  <1>9. CASE RequeueBook(c)
    <2> DEFINE k == [call[c] EXCEPT !.step = "next", !.todo = Rest(c), !.requeued = @ + 1]
    <2>1. Advance(c, k) /\ Left(c) # {}
      BY <1>9 DEF RequeueBook, Requeueing
    <2>2. k.todo = Rest(c) /\ k.op = call[c].op /\ k.step = "next"
      BY <1>1 DEF Calls
    <2> HIDE DEF k
    <2>3. QED
      BY <1>5, <2>1, <2>2
  <1>10. ASSUME NEW step \in {"enqueue", "book"}, Advance(c, [call[c] EXCEPT !.step = step]),
                call[c].op = "requeue",
                call[c].step = IF step = "enqueue" THEN "next" ELSE "enqueue"
         PROVE  Duty(call'[c]) < Duty(call[c]) /\ call'[c].op = "requeue" /\ call'[c].step = step
    <2> DEFINE k == [call[c] EXCEPT !.step = step]
    <2>1. k.todo = call[c].todo /\ k.op = "requeue" /\ k.step = step
      BY <1>1, <1>10 DEF Calls
    <2>2. call'[c] = k
      BY <1>4, <1>10
    <2> HIDE DEF k
    <2>3. /\ Duty(k) = 3 * n + StepsOfRow(k) + 1
          /\ Duty(call[c]) = 3 * n + StepsOfRow(call[c]) + 1
      BY <1>2, <1>10, <2>1 DEF Duty, Batch
    <2>4. StepsOfRow(k) \in Nat /\ StepsOfRow(call[c]) = StepsOfRow(k) + 1
      BY <1>10, <2>1 DEF StepsOfRow
    <2>5. Duty(k) < Duty(call[c])
      BY <1>2, <2>3, <2>4
    <2>6. QED
      BY <2>1, <2>2, <2>5
  <1>11. CASE Answer(c)
    <2>1. call'[c] = Idle
      BY <1>4, <1>11 DEF Answer
    <2>2. Duty(Idle) = 0 /\ Idle.op = "idle"
      BY DEF Duty, Idle, Batch
    <2>3. Duty(call[c]) = 3 * n + StepsOfRow(call[c]) + 1 /\ StepsOfRow(call[c]) \in Nat
      BY <1>2 DEF Duty, StepsOfRow
    <2>4. Duty(call[c]) > 0
      BY <1>2, <2>3
    <2>5. QED
      BY <2>1, <2>2, <2>4
  <1>12. CASE RequeueRead(c) \/ RequeueEnqueue(c)
    BY <1>10, <1>12 DEF RequeueRead, RequeueEnqueue, Requeueing
  <1>13. QED
    BY <1>6, <1>7, <1>8, <1>9, <1>11, <1>12
    DEF Loop, ReadPage, NextPage, LastPage, PageFails, Batch

\* A batch begins with its first row, and no caller's step is about another's request.
LEMMA OtherSteps ==
    ASSUME TypeOK, StepsFit, NEW c \in Callers, [Next]_vars, ~ (Loop(c) /\ call[c].op \in Batch)
    PROVE  /\ call[c].op \in Batch => call'[c] = call[c]
           /\ call'[c].op \in {"cleanup", "delete"} => call'[c].step = "next"
           /\ call'[c].op = "requeue" => call'[c].step \in {"next", "enqueue", "book"}
  <1>1. call \in [Callers -> Calls]
    BY DEF TypeOK
  <1>2. CASE call'[c] = call[c]
    BY <1>2 DEF StepsFit
  <1>3. ASSUME NEW k, Advance(c, k), call[c] = Idle, k.step = "next"
        PROVE  call[c].op \notin Batch /\ call'[c].step = "next"
    BY <1>1, <1>3 DEF Advance, Idle, Batch
  <1>4. ASSUME NEW op \in {"cleanup", "delete", "requeue"}, Request(c, op), call' # call
        PROVE  call[c].op \notin Batch /\ call'[c].step = "next"
    <2>1. PICK from \in 0..MaxCaptures, to \in 0..MaxCaptures :
             Advance(c, [Idle EXCEPT !.op = op, !.cutoff = Past(to),
                            !.todo = [d \in Listed(from, to) |-> dlq[d].failedAt],
                            !.full = Cardinality(Listed(from, to)) = Limit])
      BY <1>4 DEF Request, Advance
    <2> DEFINE todo == [d \in Listed(from, to) |-> dlq[d].failedAt]
               full == Cardinality(Listed(from, to)) = Limit
               k == [Idle EXCEPT !.op = op, !.cutoff = Past(to), !.todo = todo, !.full = full]
    <2>2. Advance(c, k)
      BY <2>1
    <2> HIDE DEF todo, full
    <2>3. k.step = "next"
      BY DEF Idle
    <2> HIDE DEF k
    <2>4. call[c] = Idle
      BY <1>4 DEF Request
    <2>5. QED
      BY <1>3, <2>2, <2>3, <2>4
  <1>5. CASE StartPaging(c)
    <2> DEFINE k == [Idle EXCEPT !.op = "page"]
    <2>1. Advance(c, k) /\ call[c] = Idle /\ k.step = "next"
      BY <1>5 DEF StartPaging, Idle
    <2> HIDE DEF k
    <2>2. QED
      BY <1>3, <2>1 DEF Batch
  <1>6. CASE Loop(c)
    <2>1. call[c].op \notin Batch
      BY <1>6
    <2>2. call'[c].op \notin Batch
      BY <1>6, <2>1, LoopRequests DEF Batch, DeleteFails, DeleteRow, Deleting
    <2>3. QED
      BY <2>1, <2>2 DEF Batch
  <1>7. ASSUME NEW v \in Callers \ {c}, NEW op \in {"cleanup", "delete", "requeue"},
               Request(v, op) \/ StartPaging(v) \/ Loop(v)
        PROVE  call'[c] = call[c]
    BY <1>1, <1>7, LoopRequests DEF Request, StartPaging, Advance
  <1>8. CASE UNCHANGED call
    BY <1>2, <1>8
  <1>9. QED
    BY <1>2, <1>4, <1>5, <1>6, <1>7, <1>8 DEF Next, Capture, DeleteElsewhere, vars, Batch

LEMMA BatchesGoOn ==
    ASSUME TypeOK, StepsFit
    PROVE  NeverStuck
  <1> SUFFICES ASSUME NEW c \in Callers, call[c].op \in Batch
               PROVE  /\ \/ Left(c) = {}
                         \/ Deleting(c)
                         \/ Requeueing(c) /\ call[c].step \in {"next", "enqueue", "book"}
                      /\ Duty(call[c]) \in 1..(3 * Limit + 3)
    BY DEF NeverStuck
  <1>1. call[c] \in Calls /\ Handled(call[c]) <= Limit
    BY TypeParts DEF CallsOK
  <1> DEFINE n == Cardinality(DOMAIN call[c].todo)
  <1>2. n \in Nat
    BY <1>1, TodoIsFinite
  <1>3. call[c].deleted \in Nat /\ call[c].requeued \in Nat /\ call[c].failed \in Nat
    BY <1>1, CallFields
  <1>4. n + call[c].deleted + call[c].requeued + call[c].failed <= Limit
    BY <1>1 DEF Handled
  <1>5. Duty(call[c]) = 3 * n + StepsOfRow(call[c]) + 1 /\ StepsOfRow(call[c]) \in 0..2
    BY DEF Duty, StepsOfRow
  <1> HIDE DEF n
  <1>6. n <= Limit /\ Limit \in Nat
    BY <1>2, <1>3, <1>4, DlqAdminAssumption
  <1>7. Duty(call[c]) \in 1..(3 * Limit + 3)
    BY <1>2, <1>5, <1>6
  <1>8. QED
    BY <1>7 DEF StepsFit, Deleting, Requeueing, Batch

\* Whatever becomes of the rows it has listed: a batch that is not through is never
\* without a next step, and each of its steps brings it nearer to its answer, which is
\* at most 3 * max_jobs + 3 of its steps away.  What the others do changes neither.
THEOREM BatchesWindDown == Spec => []NeverStuck /\ WindsDown
  <1> DEFINE Inv == TypeOK /\ Stamped /\ StepsFit
  <1>1. Init => Inv
    BY TypeInit DEF Init, Idle, StepsFit
  <1>2. ASSUME Inv, [Next]_vars, NEW c \in Callers
        PROVE  /\ call[c].op \in Batch => call'[c] = call[c] \/ Duty(call'[c]) < Duty(call[c])
               /\ call'[c].op \in {"cleanup", "delete"} => call'[c].step = "next"
               /\ call'[c].op = "requeue" => call'[c].step \in {"next", "enqueue", "book"}
    BY <1>2, BatchStep, OtherSteps
  <1>3. Inv /\ [Next]_vars => Inv'
    BY <1>2, TypeStep DEF StepsFit
  <1>4. Inv => NeverStuck
    BY BatchesGoOn
  <1>5. Inv /\ [Next]_vars =>
          [\A c \in Callers : call[c].op \in Batch
              => call'[c] = call[c] \/ Duty(call'[c]) < Duty(call[c])]_vars
    BY <1>2
  <1>6. QED
    BY <1>1, <1>3, <1>4, <1>5, PTL DEF Spec, WindsDown

=============================================================================
