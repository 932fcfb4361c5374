---------------------------- MODULE JobLifeProofs ----------------------------
(* Theorems about JobLife, for every width of the integers, every range of   *)
(* parameters asked for and every set of error messages.                     *)
EXTENDS JobLife, TLAPS

Row == [priority : Short, queue : QueueNames \cup {Unset}, maxAttempts : 0..MaxShort, attempts : Nat]
DlqRow == [priority : Short, queue : QueueNames \cup {""}, maxAttempts : 0..MaxShort]
Specs == [priority : Short, queue : Queues, maxAttempts : Int \cup {Unset}]

-----------------------------------------------------------------------------
(* The conversions.                                                         *)

LEMMA Widths == MaxShort \in Nat /\ MinShort \in Int /\ MinShort <= 0 /\ Short \subseteq Int
  BY JobLifeAssumption DEF Short

\* The cast wraps around into its range, and leaves alone what is in it.
LEMMA CastWraps == \A n \in Int : AsShort(n) \in Short /\ (n \in Short => AsShort(n) = n)
  <1> DEFINE M == 2 * (MaxShort + 1)
  <1>1. M \in Nat /\ M > 0 /\ MinShort = - MaxShort - 1 /\ 2 ^ ShortBits = M
    BY JobLifeAssumption
  <1> HIDE DEF M
  <1>2. ASSUME NEW n \in Int PROVE AsShort(n) \in Short /\ (n \in Short => AsShort(n) = n)
    <2>1. (n - MinShort) % M \in 0..(M - 1)
      BY <1>1, Widths
    <2>2. AsShort(n) \in Short
      BY <1>1, <2>1, Widths DEF AsShort, Short, M
    <2>3. n \in Short => (n - MinShort) % M = n - MinShort
      BY <1>1, Widths DEF Short, M
    <2>4. QED
      BY <1>1, <2>2, <2>3, Widths DEF AsShort
  <1>3. QED
    BY <1>2

\* The clamp leads into its range, and leaves alone what is in it.
LEMMA ClampFits == \A n \in Int : Clamp(n) \in 0..MaxShort /\ (n \in 0..MaxShort => Clamp(n) = n)
  BY Widths DEF Clamp

LEMMA DefaultFits == DefaultSpec.maxAttempts = 8 /\ DefaultSpec.priority \in Short /\ DefaultSpec.queue = Parallel
  BY JobLifeAssumption DEF DefaultSpec, JobSpec, Levels

LEMMA QueueNamesKept ==
    /\ ~Parallel.serial
    /\ \A name : Serial(name).serial /\ Serial(name).name = name
  BY DEF Parallel, Serial

\* Every spec makes a row that fits its columns.
LEMMA RowsFit == \A s \in Specs : RowOf(s) \in Row /\ RowOf(s).attempts = 0
  <1>1. ASSUME NEW s \in Specs PROVE RowOf(s) \in Row /\ RowOf(s).attempts = 0
    <2>1. s.queue.serial => s.queue.name \in QueueNames
      <3>1. s.queue = Parallel \/ \E name \in QueueNames : s.queue = Serial(name)
        BY DEF Specs, Queues
      <3>2. QED
        BY <3>1, QueueNamesKept
    <2>2. GraphileAttempts \in 0..MaxShort
      BY JobLifeAssumption, Widths
    <2>3. s.maxAttempts # Unset => Clamp(s.maxAttempts) \in 0..MaxShort
      BY ClampFits DEF Specs
    <2>4. QED
      BY <2>1, <2>2, <2>3 DEF RowOf, Row, Specs
  <1>2. QED
    BY <1>1

-----------------------------------------------------------------------------
(* The invariant.                                                           *)

\* What becomes of a job's columns and attempts: every row fits, what the DLQ has of
\* it is what a capture copies, no attempt is made beyond max_attempts, and as many
\* were executed as the row counts, unless an error taken for permanent spent the rest.
LifeInv ==
    /\ stage \in {"new", "queued", "running", "dead", "succeeded", "purged"}
    /\ row \in Row /\ row.attempts <= row.maxAttempts
    /\ dlqRow \in DlqRow
    /\ stage = "dead" => dlqRow = DlqRowOf(row)
    /\ error.returned \in Permanent \cup Temporary \cup {Unset}
    /\ stage = "new" => runs = 0
    /\ stage = "running" => runs = row.attempts
    /\ stage = "dead" => row.attempts = row.maxAttempts
    /\ stage \in {"queued", "dead"} =>
          runs = row.attempts \/ (error.taken \in Permanent /\ row.attempts = row.maxAttempts)
    /\ runs \in Nat /\ rounds \in 0..MaxRounds

LEMMA AskedAttemptsAreInt == \A m \in AskedAttempts \cup {DefaultSpec.maxAttempts} : m \in Int
  BY JobLifeAssumption, DefaultFits

\* Whoever enqueues asks with a spec that the conversion accepts.
LEMMA EnqueuedSpecs ==
    ASSUME ClientEnqueues \/ PresetEnqueues \/ HelperEnqueues \/ AdminEnqueues
    PROVE  \E s \in Specs : \E p, pol : Enqueue(s, p, pol)
  <1> USE DEF Specs, JobSpec
  <1>1. Parallel \in Queues /\ (\A name \in QueueNames : Serial(name) \in Queues)
    BY DEF Queues
  <1>2. CASE ClientEnqueues
    <2>1. PICK p \in Priorities, q \in Queues, m \in AskedAttempts \cup {Unset, DefaultSpec.maxAttempts} :
               Enqueue(JobSpec(p, q, m), p, Unset)
      BY <1>2 DEF ClientEnqueues
    <2>2. JobSpec(p, q, m) \in Specs
      BY JobLifeAssumption DEF DefaultSpec
    <2>3. QED
      BY <2>1, <2>2
  <1>3. CASE PresetEnqueues
    <2>1. PICK p \in Priorities, q \in Queues, preset \in DOMAIN Presets :
               Enqueue(JobSpec(p, q, Presets[preset]), p, Presets[preset])
      BY <1>3 DEF PresetEnqueues
    <2>2. JobSpec(p, q, Presets[preset]) \in Specs
      BY JobLifeAssumption DEF Presets
    <2>3. QED
      BY <2>1, <2>2
  <1>4. CASE HelperEnqueues
    <2>1. \A level \in {"fast_default", "bulk_default", "emergency", "fast_high"} : Levels[level] \in Short
      BY JobLifeAssumption DEF Levels
    <2>2. CASE \E level \in {"fast_default", "bulk_default", "emergency"} :
                  Enqueue([DefaultSpec EXCEPT !.priority = Levels[level]], Levels[level], Unset)
      <3>1. \A level \in {"fast_default", "bulk_default", "emergency"} :
               [DefaultSpec EXCEPT !.priority = Levels[level]] \in Specs
        BY <1>1, <2>1 DEF DefaultSpec
      <3>2. QED
        BY <2>2, <3>1
    <2>3. CASE \E helper \in {<<"fast_high", "fast">>, <<"fast_high", "aggressive">>,
                              <<"bulk_default", "conservative">>} :
                  LET p == Levels[helper[1]]
                      m == Presets[helper[2]]
                  IN  Enqueue(JobSpec(p, Parallel, m), p, m)
      <3>1. \A level \in {"fast_high", "bulk_default"}, preset \in {"fast", "aggressive", "conservative"} :
               JobSpec(Levels[level], Parallel, Presets[preset]) \in Specs
        BY <1>1, <2>1 DEF Presets
      <3>2. QED
        BY <2>3, <3>1
    <2>4. QED
      BY <1>4, <2>2, <2>3 DEF HelperEnqueues
  <1>5. CASE AdminEnqueues
    <2>1. PICK p \in AskedPriorities, name \in QueueNames \cup {"", "parallel", Unset},
               m \in AskedAttempts \cup {DefaultSpec.maxAttempts} :
            Enqueue(JobSpec(AsShort(p),
                            IF name \in {"", "parallel", Unset} THEN Parallel ELSE Serial(name), m),
                    p, Unset)
      BY <1>5 DEF AdminEnqueues
    <2>2. AsShort(p) \in Short
      BY JobLifeAssumption, CastWraps
    <2>3. m \in Int
      BY AskedAttemptsAreInt
    <2>4. (IF name \in {"", "parallel", Unset} THEN Parallel ELSE Serial(name)) \in Queues
      BY <1>1
    <2>5. QED
      BY <2>1, <2>2, <2>3, <2>4
  <1>6. QED
    BY <1>2, <1>3, <1>4, <1>5

\* The spec a requeue builds restores the row, unless its queue is the serial one
\* without a name.
LEMMA RequeuedSpec ==
    ASSUME NEW r \in Row
    PROVE  /\ SpecOf(DlqRowOf(r)) \in Specs
           /\ r.queue # "" => RowOf(SpecOf(DlqRowOf(r))) = [r EXCEPT !.attempts = 0]
  <1> DEFINE d == DlqRowOf(r)
             s == SpecOf(d)
  <1>1. /\ d.priority = r.priority /\ d.maxAttempts = r.maxAttempts
        /\ d.queue = IF r.queue = Unset THEN "" ELSE r.queue
    BY DEF DlqRowOf
  <1>2. /\ r.priority \in Short /\ r.maxAttempts \in 0..MaxShort
        /\ r.queue \in QueueNames \cup {Unset}
    BY DEF Row
  <1>9. r.priority \in Int /\ r.maxAttempts \in Int
    <2>1. Short \subseteq Int /\ (0..MaxShort) \subseteq Int
      BY Widths
    <2>2. QED
      BY <1>2, <2>1
  <1>3. AsShort(d.priority) = r.priority /\ Clamp(d.maxAttempts) = r.maxAttempts
    BY <1>1, <1>2, <1>9, CastWraps, ClampFits
  <1>4. s.priority = r.priority /\ s.maxAttempts = r.maxAttempts
        /\ s.queue = IF d.queue = "" THEN Parallel ELSE Serial(d.queue)
    BY <1>1, <1>3 DEF SpecOf, JobSpec
  <1>5. s.queue \in Queues
    BY <1>1, <1>2, <1>4 DEF Queues
  <1>6. s \in Specs
    BY <1>2, <1>3, <1>4, <1>5, <1>9 DEF Specs, SpecOf, JobSpec
  <1>7. ASSUME r.queue # "" PROVE RowOf(s) = [r EXCEPT !.attempts = 0]
    <2>1. (IF s.queue.serial THEN s.queue.name ELSE Unset) = r.queue
      <3>1. CASE r.queue = Unset
        BY <1>1, <1>4, <3>1, QueueNamesKept
      <3>2. CASE r.queue # Unset
        BY <1>1, <1>4, <1>7, <3>2, QueueNamesKept
      <3>3. QED
        BY <3>1, <3>2
    <2>2. s.maxAttempts # Unset /\ Clamp(s.maxAttempts) = r.maxAttempts
      BY <1>1, <1>2, <1>3, <1>4, <1>9, JobLifeAssumption
    <2>3. RowOf(s) = [priority |-> r.priority, queue |-> r.queue, maxAttempts |-> r.maxAttempts,
                      attempts |-> 0]
      BY <1>4, <2>1, <2>2 DEF RowOf
    <2>4. QED
      BY <2>3 DEF Row
  <1>8. QED
    BY <1>6, <1>7

LEMMA CapturesFit == \A r \in Row : DlqRowOf(r) \in DlqRow
  BY DEF DlqRowOf, Row, DlqRow

LEMMA LifeStep ==
    ASSUME LifeInv, [Next]_vars
    PROVE  LifeInv'
  <1> USE DEF LifeInv
  <1>1. CASE ClientEnqueues \/ PresetEnqueues \/ HelperEnqueues \/ AdminEnqueues
    <2>1. PICK s \in Specs : \E p, pol : Enqueue(s, p, pol)
      BY <1>1, EnqueuedSpecs
    <2>2. row' \in Row /\ row'.attempts = 0 /\ row'.attempts <= row'.maxAttempts
      BY <2>1, RowsFit, Widths DEF Enqueue, Row
    <2>3. stage = "new" /\ stage' = "queued" /\ UNCHANGED <<dlqRow, runs, error, rounds>>
      BY <2>1 DEF Enqueue
    <2>4. runs' = 0
      BY <2>3
    <2>5. QED
      BY <2>2, <2>3, <2>4
  <1>2. CASE Fetch
    <2>1. /\ row.maxAttempts \in 0..MaxShort /\ row.attempts \in Nat
          /\ row.attempts < row.maxAttempts
      BY <1>2, Widths DEF Fetch, Exhausted, Row
    <2>2. row' \in Row /\ row'.attempts = row.attempts + 1 /\ row'.maxAttempts = row.maxAttempts
      BY <1>2, <2>1 DEF Fetch, Row
    <2>3. runs = row.attempts
      BY <1>2, <2>1, Widths DEF Fetch
    <2>4. QED
      BY <1>2, <2>1, <2>2, <2>3, Widths DEF Fetch
  <1>3. CASE Succeed
    BY <1>3 DEF Succeed
  <1>4. CASE Fail
    <2>1. /\ row.maxAttempts \in 0..MaxShort /\ row.attempts \in Nat /\ row.maxAttempts \in Nat
      BY Widths DEF Row
    <2>2. PICK variant \in Permanent \cup Temporary, message \in Messages :
               LET taken == Classify(Wording[variant] \cup message)
               IN  /\ error' = [returned |-> variant, taken |-> taken]
                   /\ row' = IF Exhausted \/ IsRetryable(taken) THEN row
                             ELSE [row EXCEPT !.attempts = row.maxAttempts]
      BY <1>4 DEF Fail
    <2>3. /\ row' \in Row /\ row'.maxAttempts = row.maxAttempts /\ row'.attempts <= row'.maxAttempts
          /\ row' = row \/ (error'.taken \in Permanent /\ row'.attempts = row'.maxAttempts)
      BY <2>1, <2>2 DEF Row, IsRetryable
    <2>4. error'.returned \in Permanent \cup Temporary \cup {Unset}
      BY <2>2
    <2>5. QED
      BY <1>4, <2>3, <2>4 DEF Fail
  <1>5. CASE Capture
    <2>1. row.attempts = row.maxAttempts
      BY <1>5, Widths DEF Capture, Exhausted, Row
    <2>2. QED
      BY <1>5, <2>1, CapturesFit DEF Capture
  <1>6. CASE Purge
    BY <1>6 DEF Purge
  <1>7. CASE Requeue
    <2>1. /\ row' \in Row /\ row'.attempts = 0 /\ row'.maxAttempts \in 0..MaxShort
      BY <1>7, RequeuedSpec, RowsFit DEF Requeue, Row
    <2>2. rounds' \in 0..MaxRounds
      BY <1>7, JobLifeAssumption DEF Requeue
    <2>3. QED
      BY <1>7, <2>1, <2>2, Widths DEF Requeue, NoError
  <1>8. CASE UNCHANGED vars
    BY <1>8 DEF vars
  <1>9. QED
    BY <1>1, <1>2, <1>3, <1>4, <1>5, <1>6, <1>7, <1>8 DEF Next

LEMMA LifeInvariant == Spec => []LifeInv
  <1>1. DefaultSpec \in Specs
    BY DefaultFits DEF DefaultSpec, JobSpec, Specs, Queues
  <1>2. Init => LifeInv
    <2>1. RowOf(DefaultSpec) \in Row /\ RowOf(DefaultSpec).attempts = 0
      BY <1>1, RowsFit
    <2>2. 0 <= RowOf(DefaultSpec).maxAttempts
      BY <2>1, Widths DEF Row
    <2>3. DlqRowOf(RowOf(DefaultSpec)) \in DlqRow
      BY <2>1, CapturesFit
    <2>4. 0 \in 0..MaxRounds
      BY JobLifeAssumption
    <2>5. QED
      BY <2>1, <2>2, <2>3, <2>4 DEF Init, LifeInv, NoError
  <1>3. LifeInv /\ [Next]_vars => LifeInv'
    BY LifeStep
  <1>4. QED
    BY <1>2, <1>3, PTL DEF Spec

\* Every value fits its column, whatever is asked for.
THEOREM TypeCorrect == Spec => []TypeOK
  <1>1. ASSUME LifeInv PROVE TypeOK
    <2>1. row.attempts \in 0..row.maxAttempts
      BY <1>1, Widths DEF LifeInv, Row
    <2>2. dlqRow.priority \in Short /\ dlqRow.maxAttempts \in 0..MaxShort
      BY <1>1 DEF LifeInv, DlqRow
    <2>3. row.priority \in Short /\ row.maxAttempts \in 0..MaxShort /\ row.queue \in QueueNames \cup {Unset}
      BY <1>1 DEF LifeInv, Row
    <2>4. QED
      BY <1>1, <2>1, <2>2, <2>3 DEF LifeInv, TypeOK
  <1>2. QED
    BY <1>1, LifeInvariant, PTL

\* A job in the DLQ has been executed exactly max_attempts times since it was enqueued
\* or requeued, unless an error taken for permanent cut this short.
THEOREM RunsAllUsedUp == Spec => []RunsUsedUp
  <1>1. LifeInv => RunsUsedUp
    BY DEF LifeInv, RunsUsedUp
  <1>2. QED
    BY <1>1, LifeInvariant, PTL

\* A requeue gives the job back with the priority, the queue and the attempts it was
\* enqueued with, for every width and every value.
THEOREM RequeuesRestore == Spec => RequeueRestores
  <1>1. LifeInv /\ [Next]_vars => [Requeued /\ row.queue # "" => row' = [row EXCEPT !.attempts = 0]]_vars
    <2>1. ASSUME LifeInv, [Next]_vars, Requeued, row.queue # ""
          PROVE  row' = [row EXCEPT !.attempts = 0]
      <3>1. Requeue
        BY <2>1 DEF Requeued, Next, vars, ClientEnqueues, PresetEnqueues, HelperEnqueues,
                    AdminEnqueues, Enqueue, Fetch, Succeed, Fail, Capture, Purge
      <3>2. row \in Row /\ dlqRow = DlqRowOf(row)
        BY <2>1, <3>1 DEF LifeInv, Requeue
      <3>3. QED
        BY <2>1, <3>1, <3>2, RequeuedSpec DEF Requeue
    <2>2. QED
      BY <2>1
  <1>2. QED
    BY <1>1, LifeInvariant, PTL DEF Spec, RequeueRestores

-----------------------------------------------------------------------------
(* The classification.                                                      *)

Hopeless == 1..7

\* The patterns of the non-retryable variants come first.
LEMMA PatternsInOrder ==
    /\ DOMAIN Patterns = 1..12
    /\ \A i \in Hopeless : Patterns[i].then \in Permanent
  <1>1. DOMAIN Patterns = 1..12
    BY DEF Patterns
  <1>2. /\ Patterns[1].then = "InvalidInput" /\ Patterns[2].then = "MalformedData"
        /\ Patterns[3].then = "Unauthorized" /\ Patterns[4].then = "Forbidden"
        /\ Patterns[5].then = "ResourceNotFound" /\ Patterns[6].then = "ValidationFailed"
        /\ Patterns[7].then = "MalformedData"
    BY DEF Patterns
  <1>3. \A i \in Hopeless : i = 1 \/ i = 2 \/ i = 3 \/ i = 4 \/ i = 5 \/ i = 6 \/ i = 7
    BY DEF Hopeless
  <1>4. QED
    BY <1>1, <1>2, <1>3 DEF Permanent

\* Every non-retryable variant, as Display shows it, matches one of them.
LEMMA DisplayMatches ==
    \A variant \in Permanent : \E i \in Hopeless : \E phrases \in Patterns[i].when :
        phrases \subseteq DisplayWording[variant]
  <1>1. /\ {"invalid input"} \in Patterns[1].when /\ {"malformed"} \in Patterns[2].when
        /\ {"unauthorized"} \in Patterns[3].when /\ {"forbidden"} \in Patterns[4].when
        /\ {"not found"} \in Patterns[5].when /\ {"validation", "failed"} \in Patterns[6].when
    BY DEF Patterns
  <1>2. /\ DisplayWording["InvalidInput"] = {"invalid input"}
        /\ DisplayWording["MalformedData"] = {"malformed"}
        /\ DisplayWording["Unauthorized"] = {"unauthorized"}
        /\ DisplayWording["Forbidden"] = {"forbidden"}
        /\ DisplayWording["ResourceNotFound"] = {"not found"}
        /\ DisplayWording["ValidationFailed"] = {"validation", "failed"}
    BY DEF DisplayWording
  <1>3. 1 \in Hopeless /\ 2 \in Hopeless /\ 3 \in Hopeless
        /\ 4 \in Hopeless /\ 5 \in Hopeless /\ 6 \in Hopeless
    BY DEF Hopeless
  <1>4. ASSUME NEW variant \in Permanent
        PROVE  \E i \in Hopeless : \E phrases \in Patterns[i].when : phrases \subseteq DisplayWording[variant]
    BY <1>1, <1>2, <1>3 DEF Permanent
  <1>5. QED
    BY <1>4

\* A set of pattern numbers with one of them has a least element, which is one of them.
LEMMA LeastIsHopeless ==
    ASSUME NEW S \in SUBSET (1..12), NEW n \in S, n \in Hopeless
    PROVE  \E i \in S : i \in Hopeless /\ \A k \in S : i <= k
  <1>1. CASE 1 \in S
    BY <1>1 DEF Hopeless
  <1>2. CASE 1 \notin S /\ 2 \in S
    BY <1>2 DEF Hopeless
  <1>3. CASE 1 \notin S /\ 2 \notin S /\ 3 \in S
    BY <1>3 DEF Hopeless
  <1>4. CASE 1 \notin S /\ 2 \notin S /\ 3 \notin S /\ 4 \in S
    BY <1>4 DEF Hopeless
  <1>5. CASE 1 \notin S /\ 2 \notin S /\ 3 \notin S /\ 4 \notin S
    <2>1. CASE 5 \in S
      BY <1>5, <2>1 DEF Hopeless
    <2>2. CASE 5 \notin S /\ 6 \in S
      BY <1>5, <2>2 DEF Hopeless
    <2>3. CASE 5 \notin S /\ 6 \notin S
      BY <1>5, <2>3 DEF Hopeless
    <2>4. QED
      BY <2>1, <2>2, <2>3
  <1>6. QED
    BY <1>1, <1>2, <1>3, <1>4, <1>5

\* What a handler returns as non-retryable is taken for permanent, whatever else the
\* message says.
LEMMA HopelessIsPermanent ==
    ASSUME NEW variant \in Permanent, NEW message
    PROVE  Classify(DisplayWording[variant] \cup message) \in Permanent
  <1> DEFINE S == Matching(DisplayWording[variant] \cup message)
  <1>1. PICK n \in Hopeless : \E phrases \in Patterns[n].when : phrases \subseteq DisplayWording[variant]
    BY DisplayMatches
  <1>2. n \in DOMAIN Patterns
    BY <1>1, PatternsInOrder DEF Hopeless
  <1>3. n \in S /\ S \in SUBSET (1..12)
    BY <1>1, <1>2, PatternsInOrder DEF Matching
  <1>4. PICK i \in S : i \in Hopeless /\ \A k \in S : i <= k
    BY <1>3, LeastIsHopeless
  <1> DEFINE first == CHOOSE j \in S : \A k \in S : j <= k
  <1>5. first \in S /\ \A k \in S : first <= k
    BY <1>4
  <1>6. first \in Hopeless
    <2>1. first \in 1..12 /\ first <= i /\ i \in 1..7
      BY <1>3, <1>4, <1>5 DEF Hopeless
    <2> HIDE DEF first, S
    <2>2. QED
      BY <2>1 DEF Hopeless
  <1>7. Classify(DisplayWording[variant] \cup message) = Patterns[first].then
    BY <1>3 DEF Classify
  <1>8. QED
    BY <1>6, <1>7, PatternsInOrder

\* After a non-retryable variant that Display shows, no attempt is left.
HopelessInv ==
    /\ LifeInv
    /\ stage = "new" => error.returned = Unset
    /\ ShownBy = "Display" /\ stage = "queued" /\ error.returned \in Permanent
          => row.attempts = row.maxAttempts

LEMMA HopelessStep ==
    ASSUME HopelessInv, [Next]_vars
    PROVE  HopelessInv'
  <1> USE DEF HopelessInv
  <1>1. LifeInv'
    BY LifeStep
  <1>2. CASE ClientEnqueues \/ PresetEnqueues \/ HelperEnqueues \/ AdminEnqueues
    <2>1. stage = "new" /\ stage' = "queued" /\ error' = error
      BY <1>2, EnqueuedSpecs DEF Enqueue
    <2>2. QED
      BY <1>1, <2>1, UnsetAssumption
  <1>3. CASE Fail
    <2>1. PICK variant \in Permanent \cup Temporary, message \in Messages :
               LET taken == Classify(Wording[variant] \cup message)
               IN  /\ error' = [returned |-> variant, taken |-> taken]
                   /\ row' = IF Exhausted \/ IsRetryable(taken) THEN row
                             ELSE [row EXCEPT !.attempts = row.maxAttempts]
      BY <1>3 DEF Fail
    <2>2. stage' = "queued" /\ error'.returned = variant
      BY <1>3, <2>1 DEF Fail
    <2>3. ASSUME ShownBy = "Display", variant \in Permanent
          PROVE  row'.attempts = row'.maxAttempts
      <3>1. Classify(Wording[variant] \cup message) \in Permanent
        BY <2>3, HopelessIsPermanent DEF Wording
      <3>2. CASE Exhausted
        BY <2>1, <3>2, Widths DEF Exhausted, LifeInv, Row
      <3>3. CASE ~Exhausted
        BY <2>1, <3>1, <3>3 DEF IsRetryable, LifeInv, Row
      <3>4. QED
        BY <3>2, <3>3
    <2>4. QED
      BY <1>1, <2>2, <2>3
  <1>4. CASE Requeue
    BY <1>1, <1>4, UnsetAssumption DEF Requeue, NoError
  <1>5. CASE Fetch \/ Succeed \/ Capture \/ Purge \/ UNCHANGED vars
    BY <1>1, <1>5 DEF Fetch, Succeed, Capture, Purge, vars, LifeInv
  <1>6. QED
    BY <1>2, <1>3, <1>4, <1>5 DEF Next

\* If ctx.error is what Display shows, a non-retryable variant ends the attempts,
\* whatever words its message holds: the patterns that say so come first.
THEOREM HopelessRunOnce == Spec => HopelessRunsOnce
  <1>1. Init /\ LifeInv => HopelessInv
    BY DEF Init, HopelessInv, NoError
  <1>2. HopelessInv /\ [Next]_vars => HopelessInv'
    BY HopelessStep
  <1>3. HopelessInv /\ [Next]_vars =>
           [ShownBy = "Display" /\ stage' = "running" => error.returned \notin Permanent]_vars
    <2>1. ASSUME HopelessInv, Next, ShownBy = "Display", stage' = "running", error.returned \in Permanent
          PROVE  FALSE
      <3>1. Fetch
        BY <2>1 DEF Next, ClientEnqueues, PresetEnqueues, HelperEnqueues, AdminEnqueues, Enqueue,
                    Succeed, Fail, Capture, Purge, Requeue
      <3>2. row.attempts = row.maxAttempts
        BY <2>1, <3>1 DEF HopelessInv, Fetch
      <3>3. QED
        BY <2>1, <3>1, <3>2, Widths DEF Fetch, Exhausted, HopelessInv, LifeInv, Row
    <2>2. QED
      BY <2>1
  <1>4. QED
    BY <1>1, <1>2, <1>3, LifeInvariant, PTL DEF Spec, HopelessRunsOnce
=============================================================================
