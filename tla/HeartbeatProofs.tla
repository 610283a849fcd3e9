--------------------------- MODULE HeartbeatProofs ---------------------------
(***************************************************************************)
(* Theorems about Heartbeat for any configurations that pass the check of  *)
(* the configuration file, any number of tasks, hours and faults.          *)
(***************************************************************************)
EXTENDS Heartbeat, FiniteSetTheorems, SequenceTheorems, WellFoundedInduction, TLAPS

Working == {"rows", "unexpanded", "choose", "create"}
ActiveSlots == {Entries[i].slot : i \in Active}

\* The types, closer than HBTypeOK: tasks exist only for slots that may be sampled,
\* a goroutine that creates has something to create, and one between the two
\* queries of a count stands at an entry that may be sampled.
Typed ==
  /\ config \in Configs /\ hour \in 0..MaxHour /\ faults \in 0..MaxFaults
  /\ slot \in [Task -> ActiveSlots \cup {"none"}]
  /\ createdAt \in [Task -> 0..hour]
  /\ primary \in [Task -> {"absent", "unexpanded", "running", "finished"}]
  /\ \A t \in Task : primary[t] = "absent" <=> slot[t] = "none"
  /\ pc \in Working \cup {"start", "top"}
  /\ currentHour \in 0..hour /\ inHour \in Nat
  /\ batch \in 0..BatchSize /\ submissions \in Seq(ActiveSlots) /\ Len(submissions) \leq batch
  /\ at \in 1..(Len(Entries) + 1) /\ rows \in 0..MaxTasks
  /\ pending \in [DOMAIN pending -> Nat] /\ DOMAIN pending \subseteq ActiveSlots
  /\ pc = "create" => submissions # << >>
  /\ pc \in {"rows", "unexpanded"} => submissions = << >>
  /\ pc = "unexpanded" => at \in Active
  /\ pc = "start" => inHour = 0

-----------------------------------------------------------------------------
\* What the assumption says of the configuration at hand.
LEMMA ConfigFacts ==
  ASSUME config \in Configs
  PROVE  /\ BatchSize \in Nat \ {0} /\ MaxPerHour \in Nat /\ MaxTotalPending \in Nat
         /\ Len(Entries) \in Nat /\ DOMAIN Entries = 1..Len(Entries)
         /\ Active \subseteq 1..Len(Entries)
         /\ \A i \in DOMAIN Entries : Entries[i].slot # "none"
         /\ "none" \notin ActiveSlots
  <1>1. /\ BatchSize \in Nat \ {0} /\ MaxPerHour \in Nat /\ MaxTotalPending \in Nat
        /\ Entries \in Seq([slot : STRING \ {"none"}, ratio : Nat, maxPending : Nat])
    BY HeartbeatAssumption DEF BatchSize, MaxPerHour, MaxTotalPending, Entries
  <1>2. Len(Entries) \in Nat /\ DOMAIN Entries = 1..Len(Entries)
    BY <1>1
  <1>3. \A i \in DOMAIN Entries : Entries[i].slot \in STRING \ {"none"}
    <2> DEFINE E == [slot : STRING \ {"none"}, ratio : Nat, maxPending : Nat]
    <2>1. \A e \in E : e.slot \in STRING \ {"none"}
      OBVIOUS
    <2> HIDE DEF E
    <2>2. Entries \in Seq(E)
      BY <1>1 DEF E
    <2>3. \A i \in DOMAIN Entries : Entries[i] \in E
      BY <1>2, <2>2
    <2>4. QED
      BY <2>1, <2>3
  <1>4. \A i \in DOMAIN Entries : Entries[i].slot # "none"
    BY <1>3
  <1>5. QED
    BY <1>1, <1>2, <1>4 DEF Active, ActiveSlots

\* Tasks can be counted.
LEMMA TaskCounts ==
  ASSUME NEW S \in SUBSET Task
  PROVE  IsFiniteSet(S) /\ Cardinality(S) \in 0..MaxTasks
  <1>1. MaxTasks \in Nat /\ IsFiniteSet(Task) /\ Cardinality(Task) = MaxTasks
    BY HeartbeatAssumption, FS_Interval DEF Task
  <1>2. IsFiniteSet(S) /\ Cardinality(S) \leq MaxTasks /\ Cardinality(S) \in Nat
    BY <1>1, FS_Subset, FS_CardinalityType
  <1>3. QED
    BY <1>1, <1>2

\* A smaller set of tasks has no more elements.
LEMMA FewerTasks ==
  ASSUME NEW S \in SUBSET Task, NEW R \in SUBSET S
  PROVE  Cardinality(R) \leq Cardinality(S)
  BY TaskCounts, FS_Subset

\* One task more.
LEMMA OneTaskMore ==
  ASSUME NEW S \in SUBSET Task, NEW t \in Task \ S
  PROVE  Cardinality(S \cup {t}) = Cardinality(S) + 1
  BY TaskCounts, FS_AddElement

\* A set of tasks that is not empty has a least element.
LEMMA LeastTask ==
  ASSUME NEW S \in SUBSET Task, S # {}
  PROVE  Min(S) \in S
  <1>1. S \subseteq Nat
    BY HeartbeatAssumption DEF Task
  <1>2. \E x \in S : \A y \in S : <<y, x>> \notin OpToRel(<, Nat)
    BY <1>1, NatLessThanWellFounded, WFMin, Zenon
  <1>3. \E x \in S : \A y \in S : x \leq y
    <2>1. \A x, y \in Nat : <<y, x>> \in OpToRel(<, Nat) <=> y < x
      BY Zenon DEF OpToRel
    <2>2. PICK x \in S : \A y \in S : <<y, x>> \notin OpToRel(<, Nat)
      BY <1>2
    <2>3. \A y \in S : ~(y < x)
      BY <1>1, <2>1, <2>2
    <2>4. QED
      BY <1>1, <2>3
  <1>4. QED
    BY <1>3 DEF Min

-----------------------------------------------------------------------------
\* A transaction of CreateTask adds one task that was not there, at this hour.
LEMMA Inserted ==
  ASSUME Typed, pc = "create", InsertTask
  PROVE  \E t \in Task \ Existing :
           /\ slot' = [slot EXCEPT ![t] = submissions[1]]
           /\ createdAt' = [createdAt EXCEPT ![t] = hour]
           /\ primary' = [primary EXCEPT ![t] = "unexpanded"]
           /\ submissions[1] \in ActiveSlots
  <1>1. Task \ Existing # {} /\ Existing \subseteq Task
    BY DEF InsertTask, Existing
  <1>2. Min(Task \ Existing) \in Task \ Existing
    BY <1>1, LeastTask
  <1>3. submissions[1] \in ActiveSlots
    BY DEF Typed
  <1>4. QED
    BY <1>2, <1>3 DEF InsertTask

\* The goroutine lets go of its iteration.
LEMMA IdleTyped ==
  ASSUME Typed, NEW p \in {"start", "top"}, Idle(p), UNCHANGED config
  PROVE  /\ pc' = p /\ batch' \in 0..BatchSize' /\ submissions' \in Seq(ActiveSlots')
         /\ Len(submissions') \leq batch' /\ at' \in 1..(Len(Entries)' + 1) /\ rows' \in 0..MaxTasks
         /\ pending' \in [DOMAIN pending' -> Nat] /\ DOMAIN pending' \subseteq ActiveSlots'
  <1>1. BatchSize \in Nat /\ Len(Entries) \in Nat /\ MaxTasks \in Nat
    BY ConfigFacts, HeartbeatAssumption DEF Typed
  <1>2. UNCHANGED <<BatchSize, Entries>>
    BY DEF BatchSize, Entries
  <1>3. DOMAIN << >> = {} /\ << >> \in Seq(ActiveSlots') /\ Len(<< >>) = 0
    OBVIOUS
  <1>4. << >> \in [DOMAIN << >> -> Nat]
    BY <1>3
  <1>5. QED
    BY <1>1, <1>2, <1>3, <1>4 DEF Idle

-----------------------------------------------------------------------------
Pairs(f) == UNION {{s} \X (1..f[s]) : s \in DOMAIN f}

\* The pairs that a sum counts are finitely many.
LEMMA SumIsFinite ==
  ASSUME NEW D, IsFiniteSet(D), NEW f \in [D -> Nat]
  PROVE  IsFiniteSet(Pairs(f)) /\ SumOver(f) \in Nat /\ SumOver(f) = Cardinality(Pairs(f))
  <1> DEFINE P == {{s} \X (1..f[s]) : s \in D}
             h == [s \in D |-> {s} \X (1..f[s])]
  <1>1. h \in Surjection(D, P)
    BY DEF Surjection
  <1>2. IsFiniteSet(P)
    BY <1>1, FS_Surjection
  <1>3. ASSUME NEW s \in D PROVE IsFiniteSet({s} \X (1..f[s]))
    <2>1. IsFiniteSet({s})
      BY FS_Singleton
    <2>2. 1 \in Int /\ f[s] \in Int
      OBVIOUS
    <2>3. IsFiniteSet(1..f[s])
      BY <2>2, FS_Interval
    <2>4. QED
      BY <2>1, <2>3, FS_Product
  <1>4. IsFiniteSet(UNION P)
    <2>1. \A T \in P : IsFiniteSet(T)
      BY <1>3
    <2> HIDE DEF P
    <2>2. QED
      BY <1>2, <2>1, FS_UNION
  <1>5. Pairs(f) = UNION P
    BY DEF Pairs
  <1>6. QED
    BY <1>4, <1>5, FS_CardinalityType DEF SumOver, Pairs

\* A finite set that is no larger than n can be numbered up to n.
LEMMA Numbered ==
  ASSUME NEW S, IsFiniteSet(S), NEW n \in Nat, Cardinality(S) \leq n
  PROVE  \E h : h \in [S -> 1..n] /\ \A x, y \in S : h[x] = h[y] => x = y
  <1>1. Cardinality(S) \in Nat /\ ExistsBijection(1..Cardinality(S), S)
    BY FS_CardinalityType
  <1>2. PICK b \in Bijection(1..Cardinality(S), S) : TRUE
    BY <1>1 DEF ExistsBijection
  <1>3. b \in [1..Cardinality(S) -> S] /\ \A x \in S : \E i \in 1..Cardinality(S) : b[i] = x
    BY <1>2 DEF Bijection, Injection, Surjection
  <1> DEFINE h == [x \in S |-> CHOOSE i \in 1..Cardinality(S) : b[i] = x]
  <1>4. \A x \in S : h[x] \in 1..Cardinality(S) /\ b[h[x]] = x
    BY <1>3
  <1>5. 1..Cardinality(S) \subseteq 1..n
    BY <1>1
  <1>6. h \in [S -> 1..n]
    BY <1>4, <1>5
  <1>7. \A x, y \in S : h[x] = h[y] => x = y
    BY <1>4
  <1> HIDE DEF h
  <1>8. QED
    BY <1>6, <1>7

\* A set that falls into parts, each no larger than its number, is no larger than
\* the sum of the numbers.
LEMMA PartsWithinSum ==
  ASSUME NEW D, IsFiniteSet(D), NEW f \in [D -> Nat], NEW S, NEW part \in [S -> D],
         \A d \in D : /\ IsFiniteSet({x \in S : part[x] = d})
                      /\ Cardinality({x \in S : part[x] = d}) \leq f[d]
  PROVE  Cardinality(S) \leq SumOver(f)
  <1> DEFINE P(d) == {x \in S : part[x] = d}
             Fits(d, h) == h \in [P(d) -> 1..f[d]] /\ \A x, y \in P(d) : h[x] = h[y] => x = y
             g == [d \in D |-> CHOOSE h : Fits(d, h)]
             k == [x \in S |-> <<part[x], g[part[x]][x]>>]
  <1>1. ASSUME NEW d \in D PROVE Fits(d, g[d])
    <2>1. IsFiniteSet(P(d)) /\ Cardinality(P(d)) \leq f[d] /\ f[d] \in Nat
      OBVIOUS
    <2>2. \E h : Fits(d, h)
      BY <2>1, Numbered
    <2> HIDE DEF Fits
    <2>3. QED
      BY <2>2
  <1> HIDE DEF g
  <1>2. \A x \in S : part[x] \in D /\ x \in P(part[x]) /\ g[part[x]][x] \in 1..f[part[x]]
    BY <1>1
  <1>3. \A x \in S : k[x] \in Pairs(f)
    BY <1>2 DEF Pairs
  <1>4. \A x, y \in S : k[x] = k[y] => x = y
    <2>1. SUFFICES ASSUME NEW x \in S, NEW y \in S, k[x] = k[y] PROVE x = y
      OBVIOUS
    <2>2. part[x] = part[y] /\ g[part[x]][x] = g[part[x]][y]
      BY <2>1
    <2>3. x \in P(part[x]) /\ y \in P(part[x]) /\ part[x] \in D
      BY <1>2, <2>2
    <2>4. QED
      BY <1>1, <2>2, <2>3
  <1>5. k \in Injection(S, Pairs(f))
    <2>1. k \in [S -> Pairs(f)]
      BY <1>3
    <2> HIDE DEF k
    <2>2. QED
      BY <1>4, <2>1 DEF Injection, IsInjective
  <1>6. QED
    BY <1>5, SumIsFinite, FS_Injection

\* The lesser of two numbers.
LEMMA LesserOfTwo ==
  ASSUME NEW a \in Nat, NEW b \in Nat
  PROVE  Min({a, b}) \in {a, b} /\ Min({a, b}) \leq a /\ Min({a, b}) \leq b
  <1>1. \E x \in {a, b} : \A y \in {a, b} : x \leq y
    OBVIOUS
  <1>2. QED
    BY <1>1 DEF Min

\* The slots are finitely many.
LEMMA SlotsAreFinite ==
  ASSUME config \in Configs
  PROVE  IsFiniteSet(ActiveSlots)
  <1>1. IsFiniteSet(Active)
    <2>1. Len(Entries) \in Int /\ 1 \in Int /\ Active \in SUBSET (1..Len(Entries))
      BY ConfigFacts
    <2>2. IsFiniteSet(1..Len(Entries))
      BY <2>1, FS_Interval
    <2>3. QED
      BY <2>1, <2>2, FS_Subset
  <1> DEFINE h == [i \in Active |-> Entries[i].slot]
  <1>2. h \in Surjection(Active, ActiveSlots)
    BY DEF ActiveSlots, Surjection
  <1>3. QED
    BY <1>1, <1>2, FS_Surjection

\* A batch is shrunk to what is left of the total.
LEMMA ShrunkBatch ==
  ASSUME Typed
  PROVE  /\ SumOver(pending) \in Nat
         /\ BatchSizeForTotalPending(batch) \in 0..batch
         /\ MaxTotalPending > 0 /\ BatchSizeForTotalPending(batch) # 0 =>
              SumOver(pending) + BatchSizeForTotalPending(batch) \leq MaxTotalPending
  <1>1. batch \in Nat /\ MaxTotalPending \in Nat
    BY ConfigFacts DEF Typed
  <1>2. SumOver(pending) \in Nat
    <2>1. IsFiniteSet(DOMAIN pending)
      BY SlotsAreFinite, FS_Subset DEF Typed
    <2>2. pending \in [DOMAIN pending -> Nat]
      BY DEF Typed
    <2>3. QED
      BY <2>1, <2>2, SumIsFinite
  <1>3. CASE MaxTotalPending = 0
    BY <1>1, <1>2, <1>3 DEF BatchSizeForTotalPending
  <1>4. CASE MaxTotalPending # 0 /\ SumOver(pending) \geq MaxTotalPending
    BY <1>1, <1>2, <1>4 DEF BatchSizeForTotalPending
  <1>5. CASE MaxTotalPending # 0 /\ ~(SumOver(pending) \geq MaxTotalPending)
    <2>1. MaxTotalPending - SumOver(pending) \in Nat
      BY <1>1, <1>2, <1>5
    <2>2. BatchSizeForTotalPending(batch) = Min({batch, MaxTotalPending - SumOver(pending)})
      BY <1>5 DEF BatchSizeForTotalPending
    <2>3. QED
      BY <1>1, <1>2, <2>1, <2>2, LesserOfTwo
  <1>6. QED
    BY <1>3, <1>4, <1>5

\* A batch is shrunk to what is left of the hour.
LEMMA HourFits ==
  ASSUME NEW size \in Nat, MaxPerHour \in Nat, inHour' \in Nat,
         ~(MaxPerHour > 0 /\ inHour' \geq MaxPerHour)
  PROVE  /\ HourLimited(size) \in 0..size
         /\ MaxPerHour > 0 => inHour' + HourLimited(size) \leq MaxPerHour
  <1>1. ASSUME NEW m \in Nat, NEW k \in Nat, ~(m > 0 /\ k \geq m),
               NEW v, v = IF m > 0 /\ size > m - k THEN m - k ELSE size
        PROVE  v \in 0..size /\ (m > 0 => k + v \leq m)
    <2>1. CASE m > 0 /\ size > m - k
      BY <1>1, <2>1
    <2>2. CASE ~(m > 0 /\ size > m - k)
      BY <1>1, <2>2
    <2>3. QED
      BY <2>1, <2>2
  <1> DEFINE v == HourLimited(size)
  <1>2. v = IF MaxPerHour > 0 /\ size > MaxPerHour - inHour' THEN MaxPerHour - inHour' ELSE size
    BY Zenon DEF HourLimited
  <1> HIDE DEF v
  <1>3. v \in 0..size /\ (MaxPerHour > 0 => inHour' + v \leq MaxPerHour)
    BY <1>1, <1>2
  <1>4. QED
    BY <1>3 DEF v

\* What depends on the configuration only stays what it is.
LEMMA ConfigStays ==
  ASSUME UNCHANGED config
  PROVE  UNCHANGED <<Entries, BatchSize, MaxPerHour, MaxTotalPending, Active, ActiveSlots>>
  <1>1. UNCHANGED <<Entries, BatchSize, MaxPerHour, MaxTotalPending>>
    BY DEF Entries, BatchSize, MaxPerHour, MaxTotalPending
  <1>2. UNCHANGED Active
    BY <1>1 DEF Active
  <1>3. QED
    BY <1>1, <1>2 DEF ActiveSlots

\* The first states.
LEMMA InitTyped == Init => Typed
  <1>1. SUFFICES ASSUME Init PROVE Typed
    OBVIOUS
  <1>2. BatchSize \in Nat /\ Len(Entries) \in Nat
    BY <1>1, ConfigFacts DEF Init
  <1>3. submissions \in Seq(ActiveSlots) /\ Len(submissions) = 0
        /\ DOMAIN pending = {} /\ pending \in [DOMAIN pending -> Nat]
    <2>1. submissions = << >> /\ pending = << >>
      BY <1>1 DEF Init
    <2>2. QED
      BY <2>1
  <1>4. at \in 1..(Len(Entries) + 1)
    BY <1>1, <1>2 DEF Init
  <1>5. QED
    BY <1>1, <1>2, <1>3, <1>4, HeartbeatAssumption DEF Init, Typed, Working

\* Types are kept by the steps of the goroutine that write no task.
LEMMA LoopTyped ==
  ASSUME Typed,
         StartLoop \/ Begin \/ CountRows \/ CountUnexpanded \/ CheckTotal \/ Choose \/ Chosen
  PROVE  Typed'
  <1>1. UNCHANGED <<config, hour, faults, slot, createdAt, primary>>
    BY DEF StartLoop, Begin, CountRows, CountUnexpanded, CheckTotal, Choose, Chosen, taskVars
  <1>2. UNCHANGED <<Entries, BatchSize, MaxPerHour, MaxTotalPending, Active, ActiveSlots>>
    BY <1>1, ConfigStays
  <1>3. /\ BatchSize \in Nat \ {0} /\ MaxPerHour \in Nat /\ MaxTotalPending \in Nat
        /\ Len(Entries) \in Nat /\ DOMAIN Entries = 1..Len(Entries) /\ Active \subseteq 1..Len(Entries)
    BY ConfigFacts DEF Typed
  <1>4. Existing \subseteq Task /\ MaxTasks \in Nat
    BY HeartbeatAssumption DEF Existing
  <1>5. \A h : SubmittedSince(h) \in Nat
    <2>1. \A h : {t \in Existing : createdAt[t] \geq h} \in SUBSET Task
      BY <1>4
    <2>2. QED
      BY <1>4, <2>1, TaskCounts DEF SubmittedSince
  <1> DEFINE Tasks ==
        /\ config \in Configs /\ hour \in 0..MaxHour /\ faults \in 0..MaxFaults
        /\ slot \in [Task -> ActiveSlots \cup {"none"}]
        /\ createdAt \in [Task -> 0..hour]
        /\ primary \in [Task -> {"absent", "unexpanded", "running", "finished"}]
        /\ \A t \in Task : primary[t] = "absent" <=> slot[t] = "none"
      Loop ==
        /\ pc \in Working \cup {"start", "top"}
        /\ currentHour \in 0..hour /\ inHour \in Nat
        /\ batch \in 0..BatchSize /\ submissions \in Seq(ActiveSlots) /\ Len(submissions) \leq batch
        /\ at \in 1..(Len(Entries) + 1) /\ rows \in 0..MaxTasks
        /\ pending \in [DOMAIN pending -> Nat] /\ DOMAIN pending \subseteq ActiveSlots
        /\ pc = "create" => submissions # << >>
        /\ pc \in {"rows", "unexpanded"} => submissions = << >>
        /\ pc = "unexpanded" => at \in Active
        /\ pc = "start" => inHour = 0
  <1>6. Tasks /\ Loop
    BY DEF Typed
  <1>7. Tasks'
    BY <1>1, <1>2, <1>6
  <1>8. SUFFICES Loop'
    BY <1>7 DEF Typed
  <1>0. << >> \in Seq(ActiveSlots) /\ Len(<< >>) = 0 /\ DOMAIN << >> = {}
            /\ << >> \in [{} -> Nat] /\ 1 \in 1..(Len(Entries) + 1)
    BY <1>3
  <1>9. CASE StartLoop
    <2>1. Idle("top") /\ currentHour' = hour /\ inHour' = SubmittedSince(hour)
      BY <1>9 DEF StartLoop
    <2>2. QED
      BY <1>1, <1>2, <1>5, <1>6, <2>1, IdleTyped DEF Working
  <1>10. CASE Begin
    <2>1. currentHour' \in 0..hour /\ inHour' \in Nat
      BY <1>5, <1>6, <1>10 DEF Begin, HourChange
    <2>2. pc' \in {"top", "rows"} /\ batch' \in 0..BatchSize
      <3>1. CASE MaxPerHour > 0 /\ inHour' \geq MaxPerHour
        BY <1>6, <1>10, <3>1 DEF Begin
      <3>2. CASE ~(MaxPerHour > 0 /\ inHour' \geq MaxPerHour)
        <4>1. pc' = "rows" /\ batch' = HourLimited(BatchSize)
          BY <1>10, <3>2 DEF Begin
        <4>2. MaxPerHour \in Nat /\ BatchSize \in Nat /\ inHour' \in Nat
          BY <1>3, <2>1
        <4>3. HourLimited(BatchSize) \in 0..BatchSize
          BY <3>2, <4>2, HourFits
        <4>4. QED
          BY <4>1, <4>3
      <3>3. QED
        BY <3>1, <3>2
    <2>3. at' = 1 /\ rows' = 0 /\ pending' = << >> /\ submissions' = << >>
      BY <1>10 DEF Begin
    <2>4. QED
      BY <1>1, <1>2, <1>3, <1>4, <1>0, <2>1, <2>2, <2>3 DEF Working
  <1>11. CASE CountRows
    <2>1. UNCHANGED <<currentHour, inHour, batch, pending, submissions>> /\ pc = "rows"
          /\ at \in 1..Len(Entries)
      BY <1>3, <1>11 DEF CountRows
    <2>2. /\ at' \in 1..(Len(Entries) + 1) /\ rows' \in 0..MaxTasks
          /\ pc' \in {"rows", "unexpanded"} /\ (pc' = "unexpanded" => at' \in Active)
      <3>1. PendingRows(Entries[at].slot) \in 0..MaxTasks
        BY TaskCounts DEF PendingRows
      <3>2. QED
        BY <1>3, <1>6, <1>11, <2>1, <3>1 DEF CountRows
    <2>3. QED
      BY <1>1, <1>2, <1>6, <2>1, <2>2 DEF Working
  <1>12. CASE CountUnexpanded
    <2> DEFINE s == Entries[at].slot
    <2>1. /\ UNCHANGED <<currentHour, inHour, batch, submissions>> /\ pc' = "rows"
          /\ at' = at + 1 /\ rows' = 0 /\ at \in Active
          /\ pending' = [u \in DOMAIN pending \cup {s} |->
                           IF u = s THEN rows + Unexpanded(s) ELSE pending[u]]
      BY <1>6, <1>12 DEF CountUnexpanded
    <2>2. rows + Unexpanded(s) \in Nat /\ s \in ActiveSlots
      <3>1. Unexpanded(s) \in 0..MaxTasks
        BY TaskCounts DEF Unexpanded
      <3>2. QED
        BY <1>4, <1>6, <2>1, <3>1 DEF ActiveSlots
    <2> HIDE DEF s
    <2>3. pending' \in [DOMAIN pending' -> Nat] /\ DOMAIN pending' \subseteq ActiveSlots
      BY <1>6, <2>1, <2>2
    <2>4. at' \in 1..(Len(Entries) + 1) /\ rows' \in 0..MaxTasks
      BY <1>3, <1>4, <2>1
    <2>5. QED
      BY <1>1, <1>2, <1>6, <1>12, <2>1, <2>3, <2>4 DEF Working, CountUnexpanded
  <1>13. CASE CheckTotal
    <2>1. CASE Idle("top")
      BY <1>1, <1>2, <1>6, <1>13, <2>1, IdleTyped DEF Working, CheckTotal
    <2>2. CASE ~Idle("top")
      <3>1. /\ pc' = "choose" /\ batch' = BatchSizeForTotalPending(batch) /\ batch' # 0
            /\ UNCHANGED <<at, rows, pending, submissions, currentHour, inHour>>
            /\ batch \in 0..BatchSize
        BY <1>6, <1>13, <2>2 DEF CheckTotal
      <3>2. batch' \in 0..BatchSize /\ batch' \in Nat
        BY <1>3, <3>1, ShrunkBatch
      <3>3. Len(submissions) \leq batch'
        <4>1. submissions = << >>
          BY <1>6, <1>13 DEF CheckTotal
        <4>2. QED
          BY <3>2, <4>1
      <3>4. QED
        BY <1>1, <1>2, <1>6, <3>1, <3>2, <3>3 DEF Working
    <2>3. QED
      BY <2>1, <2>2
  <1>14. CASE Choose
    <2>1. PICK i \in Eligible : submissions' = Append(submissions, Entries[i].slot)
      BY <1>14 DEF Choose
    <2>2. Entries[i].slot \in ActiveSlots /\ ~(Len(submissions) \geq batch)
      BY <1>14, <2>1 DEF Eligible, ActiveSlots, Choose, BatchFull
    <2>3. submissions' \in Seq(ActiveSlots) /\ Len(submissions') = Len(submissions) + 1
          /\ submissions \in Seq(ActiveSlots)
      <3>1. submissions \in Seq(ActiveSlots)
        BY <1>6
      <3>2. QED
        BY <2>1, <2>2, <3>1
    <2>4. Len(submissions') \leq batch
      <3>1. batch \in Nat /\ Len(submissions) \in Nat
        BY <1>3, <1>6, <2>3
      <3>2. QED
        BY <2>2, <2>3, <3>1
    <2>5. pc' = "choose" /\ UNCHANGED <<currentHour, inHour, batch, at, rows, pending>>
      BY <1>14 DEF Choose
    <2>6. QED
      BY <1>1, <1>2, <1>6, <2>3, <2>4, <2>5 DEF Working
  <1>15. CASE Chosen
    <2>1. CASE Idle("top")
      BY <1>1, <1>2, <1>6, <1>15, <2>1, IdleTyped DEF Working, Chosen
    <2>2. CASE ~Idle("top")
      <3>1. pc' = "create" /\ submissions # << >>
            /\ UNCHANGED <<batch, at, rows, pending, submissions, currentHour, inHour>>
        BY <1>15, <2>2 DEF Chosen
      <3>2. QED
        BY <1>1, <1>2, <1>6, <3>1 DEF Working
    <2>3. QED
      BY <2>1, <2>2
  <1>16. QED
    BY <1>9, <1>10, <1>11, <1>12, <1>13, <1>14, <1>15

\* A created task is typed.
LEMMA InsertedTyped ==
  ASSUME Typed, pc = "create", InsertTask, UNCHANGED <<config, hour>>
  PROVE  /\ slot' \in [Task -> ActiveSlots' \cup {"none"}]
         /\ createdAt' \in [Task -> 0..hour']
         /\ primary' \in [Task -> {"absent", "unexpanded", "running", "finished"}]
         /\ \A t \in Task : primary'[t] = "absent" <=> slot'[t] = "none"
  <1>1. PICK t \in Task \ Existing :
          /\ slot' = [slot EXCEPT ![t] = submissions[1]]
          /\ createdAt' = [createdAt EXCEPT ![t] = hour]
          /\ primary' = [primary EXCEPT ![t] = "unexpanded"]
          /\ submissions[1] \in ActiveSlots
    BY Inserted
  <1>2. UNCHANGED <<ActiveSlots, hour>> /\ "none" \notin ActiveSlots
    BY ConfigStays, ConfigFacts DEF Typed
  <1>3. /\ slot \in [Task -> ActiveSlots \cup {"none"}]
        /\ createdAt \in [Task -> 0..hour]
        /\ primary \in [Task -> {"absent", "unexpanded", "running", "finished"}]
        /\ \A u \in Task : primary[u] = "absent" <=> slot[u] = "none"
    BY DEF Typed
  <1>4. hour \in 0..hour
    BY HeartbeatAssumption DEF Typed
  <1>5. slot' \in [Task -> ActiveSlots \cup {"none"}]
    BY <1>1, <1>3
  <1>6. createdAt' \in [Task -> 0..hour]
    BY <1>1, <1>3, <1>4
  <1>7. primary' \in [Task -> {"absent", "unexpanded", "running", "finished"}]
    BY <1>1, <1>3
  <1>8. \A u \in Task : primary'[u] = "absent" <=> slot'[u] = "none"
    BY <1>1, <1>2, <1>3
  <1>9. QED
    BY <1>2, <1>5, <1>6, <1>7, <1>8

\* Types are kept by the steps that write tasks or fail, and by the clock.
LEMMA RestTyped ==
  ASSUME Typed,
         \/ Create \/ IterationFails \/ Restart \/ CreateUnknown \/ Tick
         \/ (\E t \in Task : Expand(t) \/ RowEnds(t))
         \/ UNCHANGED vars
  PROVE  Typed'
  <1>1. UNCHANGED config
    BY DEF Create, IterationFails, Restart, CreateUnknown, Tick, Expand, RowEnds, vars
  <1>2. UNCHANGED <<Entries, BatchSize, MaxPerHour, MaxTotalPending, Active, ActiveSlots>>
    BY <1>1, ConfigStays
  <1>3. BatchSize \in Nat /\ Len(Entries) \in Nat /\ MaxHour \in Nat /\ MaxFaults \in Nat
        /\ 0 \in 0..hour /\ hour \in Nat
    BY ConfigFacts, HeartbeatAssumption DEF Typed
  <1>4. CASE Create
    <2>1. pc = "create" /\ InsertTask /\ inHour' = inHour + 1
          /\ UNCHANGED <<config, hour, faults, currentHour>>
      BY <1>4 DEF Create
    <2>2. inHour' \in Nat /\ currentHour' \in 0..hour' /\ faults' \in 0..MaxFaults
          /\ hour' \in 0..MaxHour /\ config' \in Configs
      BY <2>1 DEF Typed
    <2>3. CASE Len(submissions) = 1
      <3>1. Idle("top")
        BY <1>4, <2>3 DEF Create
      <3>2. QED
        BY <2>1, <2>2, <3>1, InsertedTyped, IdleTyped DEF Typed, Working
    <2>4. CASE Len(submissions) # 1
      <3>1. submissions' = Tail(submissions) /\ UNCHANGED <<pc, batch, at, rows, pending>>
        BY <1>4, <2>4 DEF Create
      <3>2. submissions' \in Seq(ActiveSlots) /\ Len(submissions') \leq batch /\ submissions' # << >>
        <4>1. submissions \in Seq(ActiveSlots) /\ submissions # << >> /\ Len(submissions) \leq batch
              /\ batch \in Nat
          BY <1>3, <2>1 DEF Typed
        <4>2. Len(submissions') = Len(submissions) - 1 /\ submissions' \in Seq(ActiveSlots)
              /\ Len(submissions) \in Nat /\ Len(submissions) > 1
          <5>1. Len(Tail(submissions)) = Len(submissions) - 1 /\ Tail(submissions) \in Seq(ActiveSlots)
            BY <4>1, HeadTailProperties
          <5>2. Len(submissions) \in Nat /\ Len(submissions) # 0
            BY <4>1, EmptySeq
          <5>3. QED
            BY <2>4, <3>1, <5>1, <5>2
        <4>3. QED
          BY <4>1, <4>2
      <3>3. QED
        BY <1>2, <2>1, <2>2, <3>1, <3>2, InsertedTyped DEF Typed, Working
    <2>5. QED
      BY <2>3, <2>4
  <1>5. CASE IterationFails
    <2>1. Idle("top") /\ UNCHANGED <<config, hour, slot, createdAt, primary, currentHour, inHour>>
          /\ faults' \in 0..MaxFaults
      BY <1>3, <1>5 DEF IterationFails, taskVars, Fault, Typed
    <2>2. QED
      BY <1>2, <2>1, IdleTyped DEF Typed, Working
  <1>6. CASE Restart
    <2>1. Idle("start") /\ UNCHANGED <<config, hour, slot, createdAt, primary>>
          /\ currentHour' = 0 /\ inHour' = 0 /\ faults' \in 0..MaxFaults
      BY <1>3, <1>6 DEF Restart, taskVars, Fault, Typed
    <2>2. QED
      BY <1>2, <1>3, <2>1, IdleTyped DEF Typed, Working
  <1>7. CASE CreateUnknown
    <2>1. Idle("start") /\ UNCHANGED <<config, hour>> /\ pc = "create" /\ InsertTask
          /\ currentHour' = 0 /\ inHour' = 0 /\ faults' \in 0..MaxFaults
      BY <1>3, <1>7 DEF CreateUnknown, Fault, Typed
    <2>2. QED
      BY <1>3, <2>1, IdleTyped, InsertedTyped DEF Typed, Working
  <1>8. CASE Tick
    <2>1. /\ hour' = hour + 1 /\ hour < MaxHour
          /\ UNCHANGED <<config, faults, slot, createdAt, primary>>
          /\ UNCHANGED <<pc, currentHour, inHour, batch, at, rows, pending, submissions>>
      BY <1>8 DEF Tick, taskVars, loopVars
    <2>2. hour' \in 0..MaxHour /\ 0..hour \subseteq 0..hour'
      BY <1>3, <2>1
    <2>3. createdAt' \in [Task -> 0..hour'] /\ currentHour' \in 0..hour'
      BY <2>1, <2>2 DEF Typed
    <2>4. QED
      BY <1>2, <2>1, <2>2, <2>3 DEF Typed
  <1>9. CASE \E t \in Task : Expand(t) \/ RowEnds(t)
    <2>1. PICK t \in Task : Expand(t) \/ RowEnds(t)
      BY <1>9
    <2>2. /\ primary[t] # "absent"
          /\ \E p \in {"running", "finished"} : primary' = [primary EXCEPT ![t] = p]
          /\ UNCHANGED <<config, hour, faults, slot, createdAt>>
          /\ UNCHANGED <<pc, currentHour, inHour, batch, at, rows, pending, submissions>>
      BY <2>1 DEF Expand, RowEnds, loopVars
    <2>3. primary' \in [Task -> {"absent", "unexpanded", "running", "finished"}]
          /\ \A u \in Task : primary'[u] = "absent" <=> slot'[u] = "none"
      BY <2>2 DEF Typed
    <2>4. QED
      BY <1>2, <2>2, <2>3 DEF Typed
  <1>10. CASE UNCHANGED vars
    BY <1>2, <1>10 DEF vars, taskVars, loopVars, Typed
  <1>11. QED
    BY <1>4, <1>5, <1>6, <1>7, <1>8, <1>9, <1>10

\* Types are kept by every step.
LEMMA TypedStep == Typed /\ [Next]_vars => Typed'
  BY LoopTyped, RestTyped DEF Next

-----------------------------------------------------------------------------
\* The hour.

CreatedIn(h) == {t \in Existing : createdAt[t] = h}
CreatedSince(h) == {t \in Existing : createdAt[t] \geq h}

\* What the goroutine may still create in this iteration.
Planned == IF pc = "create" THEN Len(submissions) ELSE batch

\* The counter is what the database holds since the counted hour began, and the
\* plan of an iteration fits what is left.  The bound on every hour follows only
\* with both: a task may be created in a later hour than the one it was counted in.
HourInv ==
  /\ pc # "start" => inHour = SubmittedSince(currentHour)
  /\ MaxPerHour > 0 /\ pc \in Working => inHour + Planned \leq MaxPerHour
  /\ HourlyLimit

\* Counted tasks are tasks.
LEMMA HourSets ==
  ASSUME Typed, NEW h
  PROVE  /\ CreatedIn(h) \in SUBSET Task /\ CreatedSince(h) \in SUBSET Task
         /\ Cardinality(CreatedIn(h)) \in Nat /\ SubmittedSince(h) \in 0..MaxTasks
         /\ SubmittedSince(h) = Cardinality(CreatedSince(h))
  <1>1. CreatedIn(h) \in SUBSET Task /\ CreatedSince(h) \in SUBSET Task
    BY DEF CreatedIn, CreatedSince, Existing
  <1>2. QED
    BY <1>1, TaskCounts DEF SubmittedSince, CreatedSince

\* A task that is created counts for its hour, and since every hour up to it.
LEMMA InsertedCounts ==
  ASSUME Typed, pc = "create", InsertTask, UNCHANGED <<config, hour>>
  PROVE  /\ \A h \in 0..hour : SubmittedSince(h)' = SubmittedSince(h) + 1
         /\ Cardinality(CreatedIn(hour)') = Cardinality(CreatedIn(hour)) + 1
         /\ \A h \in 0..hour : h # hour => CreatedIn(h)' = CreatedIn(h)
  <1>1. PICK t \in Task \ Existing :
          /\ slot' = [slot EXCEPT ![t] = submissions[1]]
          /\ createdAt' = [createdAt EXCEPT ![t] = hour]
          /\ submissions[1] \in ActiveSlots
    BY Inserted
  <1>2. "none" \notin ActiveSlots /\ hour \in Nat
    BY ConfigFacts, HeartbeatAssumption DEF Typed
  <1>3. slot \in [Task -> ActiveSlots \cup {"none"}] /\ createdAt \in [Task -> 0..hour]
    BY DEF Typed
  <1>4. Existing' = Existing \cup {t}
    BY <1>1, <1>2, <1>3 DEF Existing
  <1>5. /\ \A u \in Existing : createdAt'[u] = createdAt[u] /\ u # t
        /\ createdAt'[t] = hour
    BY <1>1, <1>3 DEF Existing
  <1>6. ASSUME NEW h \in 0..hour PROVE CreatedSince(h)' = CreatedSince(h) \cup {t}
    <2>1. hour \geq h
      BY <1>2
    <2>2. QED
      BY <1>4, <1>5, <2>1 DEF CreatedSince
  <1>7. CreatedIn(hour)' = CreatedIn(hour) \cup {t}
    BY <1>4, <1>5 DEF CreatedIn
  <1>8. ASSUME NEW h \in 0..hour, h # hour PROVE CreatedIn(h)' = CreatedIn(h)
    BY <1>4, <1>5, <1>8 DEF CreatedIn
  <1>9. ASSUME NEW h \in 0..hour PROVE SubmittedSince(h)' = SubmittedSince(h) + 1
    <2>1. CreatedSince(h) \in SUBSET Task /\ t \in Task \ CreatedSince(h)
      BY <1>1, HourSets DEF CreatedSince
    <2>2. SubmittedSince(h)' = Cardinality(CreatedSince(h)')
      BY DEF SubmittedSince, CreatedSince
    <2>3. QED
      BY <1>6, <2>1, <2>2, HourSets, OneTaskMore
  <1>10. Cardinality(CreatedIn(hour)') = Cardinality(CreatedIn(hour)) + 1
    <2>1. CreatedIn(hour) \in SUBSET Task /\ t \in Task \ CreatedIn(hour)
      BY <1>1, HourSets DEF CreatedIn
    <2>2. QED
      BY <1>7, <2>1, OneTaskMore
  <1>11. QED
    BY <1>8, <1>9, <1>10

\* A creation keeps every hour within its limit.
LEMMA InsertedInHour ==
  ASSUME Typed, HourInv, pc = "create", InsertTask, UNCHANGED <<config, hour>>
  PROVE  HourlyLimit'
  <1>1. UNCHANGED MaxPerHour /\ MaxPerHour \in Nat /\ hour \in Nat
    BY ConfigStays, ConfigFacts, HeartbeatAssumption DEF Typed
  <1>2. SUFFICES ASSUME MaxPerHour > 0, NEW h \in 0..hour
                 PROVE  Cardinality(CreatedIn(h)') \leq MaxPerHour
    BY <1>1 DEF HourlyLimit, CreatedIn
  <1>3. CASE h # hour
    BY <1>2, <1>3, InsertedCounts DEF HourInv, HourlyLimit, CreatedIn
  <1>4. CASE h = hour
    <2>1. currentHour \in 0..hour /\ inHour = SubmittedSince(currentHour)
      BY DEF Typed, HourInv
    <2>2. CreatedIn(hour) \subseteq CreatedSince(currentHour)
      BY <1>1, <2>1 DEF CreatedIn, CreatedSince
    <2>3. Cardinality(CreatedIn(hour)) \leq inHour
      BY <2>1, <2>2, HourSets, FewerTasks
    <2>4. Len(submissions) \geq 1 /\ Len(submissions) \in Nat
      BY EmptySeq DEF Typed
    <2>5. inHour + Len(submissions) \leq MaxPerHour /\ inHour \in Nat
      BY <1>2 DEF HourInv, Planned, Typed, Working
    <2>6. Cardinality(CreatedIn(hour)) \in Nat
      BY HourSets
    <2>7. QED
      BY <1>1, <1>4, <2>3, <2>4, <2>5, <2>6, InsertedCounts
  <1>5. QED
    BY <1>3, <1>4

\* The hour is kept by the steps of the goroutine that write no task.
LEMMA LoopHour ==
  ASSUME Typed, Typed', HourInv,
         StartLoop \/ Begin \/ CountRows \/ CountUnexpanded \/ CheckTotal \/ Choose \/ Chosen
         \/ IterationFails
  PROVE  HourInv'
  <1>1. UNCHANGED <<config, hour, slot, createdAt>>
    BY DEF StartLoop, Begin, CountRows, CountUnexpanded, CheckTotal, Choose, Chosen,
           IterationFails, taskVars
  <1>2. UNCHANGED <<MaxPerHour, BatchSize>>
    BY <1>1, ConfigStays
  <1>3. UNCHANGED Existing
    BY <1>1 DEF Existing
  <1>4. HourlyLimit'
    BY <1>1, <1>2, <1>3 DEF HourInv, HourlyLimit
  <1>5. \A h : SubmittedSince(h)' = SubmittedSince(h)
    BY <1>1, <1>3 DEF SubmittedSince
  <1>6. CASE StartLoop
    <2>1. pc' = "top" /\ currentHour' = hour /\ inHour' = SubmittedSince(hour)
      BY <1>6 DEF StartLoop, Idle
    <2>2. SubmittedSince(currentHour)' = SubmittedSince(hour)
      BY <1>1, <1>3, <2>1 DEF SubmittedSince
    <2>3. QED
      BY <1>4, <2>1, <2>2 DEF HourInv, Working
  <1>7. CASE Begin
    <2>1. inHour' = SubmittedSince(currentHour)'
      <3>1. pc = "top" /\ HourChange
        BY <1>7 DEF Begin
      <3>2. SubmittedSince(currentHour)' =
              Cardinality({t \in Existing : createdAt[t] \geq currentHour'})
        BY <1>1, <1>3 DEF SubmittedSince
      <3>3. CASE hour > currentHour
        BY <3>1, <3>2, <3>3 DEF HourChange, SubmittedSince
      <3>4. CASE ~(hour > currentHour)
        BY <3>1, <3>2, <3>4 DEF HourChange, SubmittedSince, HourInv
      <3>5. QED
        BY <3>3, <3>4
    <2>2. MaxPerHour > 0 /\ pc' \in Working => inHour' + Planned' \leq MaxPerHour
      <3>1. CASE MaxPerHour > 0 /\ inHour' \geq MaxPerHour
        BY <1>7, <3>1 DEF Begin, Working
      <3>2. CASE ~(MaxPerHour > 0 /\ inHour' \geq MaxPerHour)
        <4>1. pc' = "rows" /\ batch' = HourLimited(BatchSize)
          BY <1>7, <3>2 DEF Begin
        <4>2. MaxPerHour \in Nat /\ BatchSize \in Nat /\ inHour' \in Nat
          BY ConfigFacts DEF Typed
        <4>3. Planned' = HourLimited(BatchSize)
          BY <4>1 DEF Planned
        <4>4. QED
          BY <3>2, <4>2, <4>3, HourFits
      <3>3. QED
        BY <3>1, <3>2
    <2>3. QED
      BY <1>2, <1>4, <2>1, <2>2 DEF HourInv
  <1>8. CASE CountRows \/ CountUnexpanded \/ CheckTotal \/ Choose \/ Chosen \/ IterationFails
    <2>1. UNCHANGED <<currentHour, inHour>> /\ pc # "start"
      BY <1>8 DEF CountRows, CountUnexpanded, CheckTotal, Choose, Chosen, IterationFails
    <2>2. SubmittedSince(currentHour)' = SubmittedSince(currentHour)
      BY <1>1, <1>3, <2>1 DEF SubmittedSince
    <2>3. pc' \in Working => pc \in Working /\ Planned' \in 0..Planned
      <3>1. batch \in Nat /\ Len(submissions) \in 0..batch
        BY ConfigFacts, EmptySeq DEF Typed
      <3>2. CASE CountRows \/ CountUnexpanded \/ Choose
        BY <3>1, <3>2 DEF CountRows, CountUnexpanded, Choose, Planned, Working
      <3>3. CASE CheckTotal
        BY <3>1, <3>3, ShrunkBatch DEF CheckTotal, Idle, Planned, Working
      <3>4. CASE Chosen
        BY <3>1, <3>4 DEF Chosen, Idle, Planned, Working
      <3>5. CASE IterationFails
        BY <3>5 DEF IterationFails, Idle, Working
      <3>6. QED
        BY <1>8, <3>2, <3>3, <3>4, <3>5
    <2>4. MaxPerHour > 0 /\ pc' \in Working => inHour' + Planned' \leq MaxPerHour
      <3>1. SUFFICES ASSUME MaxPerHour > 0, pc' \in Working
                     PROVE  inHour' + Planned' \leq MaxPerHour
        OBVIOUS
      <3>2. inHour + Planned \leq MaxPerHour /\ Planned' \in 0..Planned /\ inHour' = inHour
        BY <2>1, <2>3, <3>1 DEF HourInv
      <3>3. inHour \in Nat /\ MaxPerHour \in Nat /\ Planned \in Nat
        BY ConfigFacts, EmptySeq DEF Typed, Planned
      <3>4. \A k, m, n \in Nat : \A p \in 0..n : k + n \leq m => k + p \leq m
        OBVIOUS
      <3>5. inHour + Planned' \leq MaxPerHour
        BY <3>2, <3>3, <3>4, Zenon
      <3>6. QED
        BY <3>2, <3>5, Zenon
    <2>5. QED
      BY <1>2, <1>4, <2>1, <2>2, <2>4 DEF HourInv
  <1>9. QED
    BY <1>6, <1>7, <1>8

\* The hour is kept by creations, restarts, the clock and the engine.
LEMMA RestHour ==
  ASSUME Typed, Typed', HourInv,
         \/ Create \/ Restart \/ CreateUnknown \/ Tick
         \/ (\E t \in Task : Expand(t) \/ RowEnds(t))
         \/ UNCHANGED vars
  PROVE  HourInv'
  <1>1. UNCHANGED config
    BY DEF Create, Restart, CreateUnknown, Tick, Expand, RowEnds, vars
  <1>2. UNCHANGED MaxPerHour /\ MaxPerHour \in Nat /\ hour \in Nat
    BY <1>1, ConfigStays, ConfigFacts, HeartbeatAssumption DEF Typed
  <1>3. CASE Create
    <2>1. pc = "create" /\ InsertTask /\ inHour' = inHour + 1 /\ UNCHANGED <<config, hour, currentHour>>
      BY <1>3 DEF Create
    <2>2. HourlyLimit'
      BY <2>1, InsertedInHour
    <2>3. inHour' = SubmittedSince(currentHour)'
      <3>1. currentHour \in 0..hour /\ inHour = SubmittedSince(currentHour)
        BY <2>1 DEF Typed, HourInv
      <3>2. \A h \in 0..hour : SubmittedSince(h)' = SubmittedSince(h) + 1
        BY <2>1, InsertedCounts
      <3>3. SubmittedSince(currentHour)' =
              Cardinality({t \in Existing' : createdAt'[t] \geq currentHour})
        BY <2>1 DEF SubmittedSince
      <3>4. QED
        BY <2>1, <3>1, <3>2, <3>3 DEF SubmittedSince
    <2>4. MaxPerHour > 0 /\ pc' \in Working => inHour' + Planned' \leq MaxPerHour
      <3>1. CASE Len(submissions) = 1
        BY <1>3, <3>1 DEF Create, Idle, Working
      <3>2. CASE Len(submissions) # 1
        <4>1. submissions' = Tail(submissions) /\ pc' = "create"
          BY <1>3, <2>1, <3>2 DEF Create
        <4>2. Len(submissions') = Len(submissions) - 1 /\ Len(submissions) \in Nat
          BY <2>1, <4>1, HeadTailProperties, EmptySeq DEF Typed
        <4>3. inHour \in Nat
          BY DEF Typed
        <4>4. QED
          BY <1>2, <2>1, <4>1, <4>2, <4>3 DEF HourInv, Planned, Working
      <3>3. QED
        BY <3>1, <3>2
    <2>5. QED
      BY <1>2, <2>2, <2>3, <2>4 DEF HourInv
  <1>4. CASE Restart
    <2>1. pc' = "start" /\ UNCHANGED <<hour, slot, createdAt>>
      BY <1>4 DEF Restart, Idle, taskVars
    <2>2. HourlyLimit'
      BY <1>2, <2>1 DEF HourInv, HourlyLimit, Existing
    <2>3. QED
      BY <2>1, <2>2 DEF HourInv, Working
  <1>5. CASE CreateUnknown
    <2>1. pc' = "start" /\ pc = "create" /\ InsertTask /\ UNCHANGED <<config, hour>>
      BY <1>5 DEF CreateUnknown, Idle
    <2>2. HourlyLimit'
      BY <2>1, InsertedInHour
    <2>3. QED
      BY <2>1, <2>2 DEF HourInv, Working
  <1>6. CASE Tick
    <2>1. hour' = hour + 1 /\ UNCHANGED <<slot, createdAt, pc, currentHour, inHour, batch, submissions>>
      BY <1>6 DEF Tick, taskVars, loopVars
    <2>2. UNCHANGED Existing
      BY <2>1 DEF Existing
    <2>3. HourlyLimit'
      <3>1. SUFFICES ASSUME MaxPerHour > 0, NEW h \in 0..hour'
                     PROVE  Cardinality(CreatedIn(h)') \leq MaxPerHour
        BY <1>2 DEF HourlyLimit, CreatedIn
      <3>2. CreatedIn(h)' = CreatedIn(h)
        BY <2>1, <2>2 DEF CreatedIn
      <3>3. CASE h \in 0..hour
        BY <3>1, <3>2, <3>3 DEF HourInv, HourlyLimit, CreatedIn
      <3>4. CASE h \notin 0..hour
        <4>1. \A t \in Existing : createdAt[t] \in 0..hour
          BY DEF Typed, Existing
        <4>2. CreatedIn(h) = {}
          BY <3>4, <4>1 DEF CreatedIn
        <4>3. QED
          BY <1>2, <3>1, <3>2, <4>2, FS_EmptySet
      <3>5. QED
        BY <3>3, <3>4
    <2>4. SubmittedSince(currentHour)' = SubmittedSince(currentHour) /\ UNCHANGED Planned
      BY <2>1, <2>2 DEF SubmittedSince, Planned
    <2>5. QED
      BY <1>2, <2>1, <2>3, <2>4 DEF HourInv
  <1>7. CASE (\E t \in Task : Expand(t) \/ RowEnds(t)) \/ UNCHANGED vars
    <2>1. UNCHANGED <<hour, slot, createdAt, pc, currentHour, inHour, batch, submissions>>
      BY <1>7 DEF Expand, RowEnds, loopVars, taskVars, vars
    <2>2. UNCHANGED <<HourlyLimit, Planned>> /\ SubmittedSince(currentHour)' = SubmittedSince(currentHour)
      BY <1>2, <2>1 DEF HourlyLimit, Existing, SubmittedSince, Planned
    <2>3. QED
      BY <1>2, <2>1, <2>2 DEF HourInv
  <1>8. QED
    BY <1>3, <1>4, <1>5, <1>6, <1>7

-----------------------------------------------------------------------------
\* The total.

Waiting == {t \in Task : primary[t] = "unexpanded"}
Running == {t \in Task : primary[t] = "running"}
Flying == Waiting \cup Running

\* What a count sees if it overlooks the tasks of B that were expanded under it.
AllSeen(B) == Flying \ (B \cap Running)
Seen(s, B) == {t \in AllSeen(B) : slot[t] = s}
RowsSeen(s, B) == {t \in Running \ B : slot[t] = s}

\* B is what waited for its expansion when the iteration began.  What is counted
\* so far covers everything in flight but the tasks of B that run by now; and B
\* is itself no larger than the total.
Covers(B) ==
  /\ Cardinality(B) \leq MaxTotalPending
  /\ pc \in {"rows", "unexpanded"} =>
       /\ Waiting \subseteq B
       /\ \A s \in DOMAIN pending : Cardinality(Seen(s, B)) \leq pending[s]
       /\ \A i \in Active : i < at => Entries[i].slot \in DOMAIN pending
  /\ pc = "unexpanded" => Cardinality(RowsSeen(Entries[at].slot, B)) \leq rows
  /\ pc \in {"choose", "create"} => Cardinality(AllSeen(B)) + Planned \leq MaxTotalPending

\* No more tasks wait than the total allows, because no count overlooks a waiting
\* task; so no count overlooks more than the total, and no more than twice the
\* total are in flight.
TotalInv ==
  MaxTotalPending > 0 =>
    /\ Cardinality(Waiting) \leq MaxTotalPending
    /\ Cardinality(Flying) \leq 2 * MaxTotalPending
    /\ pc \in Working => \E B \in SUBSET Task : Covers(B)

\* All of these are sets of tasks.
LEMMA TotalSets ==
  ASSUME NEW B \in SUBSET Task
  PROVE  /\ Waiting \in SUBSET Task /\ Running \in SUBSET Task /\ Flying \in SUBSET Task
         /\ AllSeen(B) \in SUBSET Flying /\ AllSeen(B) \in SUBSET Task
         /\ \A s : Seen(s, B) \in SUBSET Task /\ RowsSeen(s, B) \in SUBSET Task
  BY DEF Waiting, Running, Flying, AllSeen, Seen, RowsSeen

\* Two sets of tasks together have no more elements than both.
LEMMA TogetherNoMore ==
  ASSUME NEW S \in SUBSET Task, NEW T \in SUBSET Task
  PROVE  Cardinality(S \cup T) \leq Cardinality(S) + Cardinality(T)
  <1>1. IsFiniteSet(S) /\ IsFiniteSet(T) /\ Cardinality(S) \in Nat /\ Cardinality(T) \in Nat
        /\ Cardinality(S \cap T) \in Nat /\ Cardinality(S \cup T) \in Nat
    <2>1. S \cap T \in SUBSET Task /\ S \cup T \in SUBSET Task
      OBVIOUS
    <2>2. QED
      BY <2>1, TaskCounts
  <1>2. Cardinality(S \cup T) = Cardinality(S) + Cardinality(T) - Cardinality(S \cap T)
    BY <1>1, FS_Union
  <1>3. QED
    BY <1>1, <1>2

\* Tasks that leave, or are overlooked by the count they wait for, leave a cover a cover.
LEMMA CoverStays ==
  ASSUME Typed, NEW B \in SUBSET Task, Covers(B),
         UNCHANGED <<config, slot, pc, batch, submissions, at, rows, pending>>,
         Waiting' \subseteq Waiting, AllSeen(B)' \subseteq AllSeen(B),
         Waiting \subseteq B => Running' \ B \subseteq Running \ B
  PROVE  Covers(B)'
  <1>1. UNCHANGED <<MaxTotalPending, Active, Entries, Planned>> /\ MaxTotalPending \in Nat
    BY ConfigStays, ConfigFacts DEF Planned, Typed
  <1>2. Cardinality(B)' \leq MaxTotalPending'
    BY <1>1 DEF Covers
  <1>3. ASSUME pc \in {"rows", "unexpanded"}
        PROVE  /\ Waiting' \subseteq B
               /\ \A s \in DOMAIN pending : Cardinality(Seen(s, B)') \leq pending[s]
               /\ \A i \in Active : i < at => Entries[i].slot \in DOMAIN pending
    <2>1. /\ Waiting \subseteq B
          /\ \A s \in DOMAIN pending : Cardinality(Seen(s, B)) \leq pending[s]
          /\ \A i \in Active : i < at => Entries[i].slot \in DOMAIN pending
      BY <1>3 DEF Covers
    <2>2. ASSUME NEW s \in DOMAIN pending PROVE Cardinality(Seen(s, B)') \leq pending[s]
      <3>1. Seen(s, B)' \in SUBSET Seen(s, B) /\ Seen(s, B) \in SUBSET Task
        BY TotalSets DEF Seen
      <3>2. Cardinality(Seen(s, B)') \in Nat /\ Cardinality(Seen(s, B)) \in Nat /\ pending[s] \in Nat
        BY <3>1, TaskCounts DEF Typed
      <3>3. QED
        BY <2>1, <3>1, <3>2, FewerTasks
    <2>3. QED
      BY <2>1, <2>2
  <1>4. ASSUME pc = "unexpanded" PROVE Cardinality(RowsSeen(Entries[at].slot, B)') \leq rows
    <2> DEFINE s == Entries[at].slot
    <2>1. RowsSeen(s, B)' \in SUBSET RowsSeen(s, B) /\ RowsSeen(s, B) \in SUBSET Task
      <3>1. Waiting \subseteq B
        BY <1>4 DEF Covers
      <3>2. UNCHANGED s
        BY <1>1
      <3>3. RowsSeen(s, B) \in SUBSET Task
        BY TotalSets
      <3> HIDE DEF s
      <3>4. QED
        BY <3>1, <3>2, <3>3 DEF RowsSeen
    <2>2. Cardinality(RowsSeen(s, B)) \leq rows
      BY <1>4 DEF Covers
    <2>3. Cardinality(RowsSeen(s, B)') \in Nat /\ Cardinality(RowsSeen(s, B)) \in Nat /\ rows \in Nat
      BY <2>1, TaskCounts, HeartbeatAssumption DEF Typed
    <2>4. Cardinality(RowsSeen(s, B)') \leq Cardinality(RowsSeen(s, B))
      BY <2>1, FewerTasks
    <2>5. Cardinality(RowsSeen(s, B)') \leq rows
      BY <2>2, <2>3, <2>4
    <2>6. QED
      BY <2>5
  <1>5. ASSUME pc \in {"choose", "create"} PROVE Cardinality(AllSeen(B)') + Planned \leq MaxTotalPending
    <2>1. Cardinality(AllSeen(B)') \leq Cardinality(AllSeen(B))
          /\ Cardinality(AllSeen(B)') \in Nat /\ Cardinality(AllSeen(B)) \in Nat
      BY TotalSets, TaskCounts, FewerTasks
    <2>2. Cardinality(AllSeen(B)) + Planned \leq MaxTotalPending
      BY <1>5 DEF Covers
    <2>3. Planned \in Nat
      BY ConfigFacts, EmptySeq DEF Planned, Typed
    <2>4. QED
      BY <1>1, <2>1, <2>2, <2>3
  <1>6. QED
    BY <1>1, <1>2, <1>3, <1>4, <1>5 DEF Covers

\* The counts of all slots together cover all that they see.
LEMMA CountsCover ==
  ASSUME Typed, pc = "rows", at \notin DOMAIN Entries, NEW B \in SUBSET Task, Covers(B)
  PROVE  Cardinality(AllSeen(B)) \leq SumOver(pending)
  <1>1. Active \subseteq 1..Len(Entries) /\ Len(Entries) \in Nat /\ DOMAIN Entries = 1..Len(Entries)
    BY ConfigFacts DEF Typed
  <1>2. \A i \in Active : i < at
    BY <1>1 DEF Typed
  <1>3. ActiveSlots \subseteq DOMAIN pending
    BY <1>2 DEF Covers, ActiveSlots
  <1>4. ASSUME NEW t \in AllSeen(B) PROVE slot[t] \in DOMAIN pending
    <2>1. t \in Task /\ primary[t] \in {"unexpanded", "running"}
      BY DEF AllSeen, Flying, Waiting, Running
    <2>2. slot[t] \in ActiveSlots
      BY <2>1 DEF Typed
    <2>3. QED
      BY <1>3, <2>2
  <1> DEFINE D == DOMAIN pending
             S == AllSeen(B)
             part == [t \in S |-> slot[t]]
  <1>5. part \in [S -> D]
    BY <1>4
  <1>6. pending \in [D -> Nat] /\ IsFiniteSet(D)
    BY SlotsAreFinite, FS_Subset DEF Typed
  <1>7. ASSUME NEW s \in D
        PROVE  /\ IsFiniteSet({x \in S : part[x] = s})
               /\ Cardinality({x \in S : part[x] = s}) \leq pending[s]
    <2>1. {x \in S : part[x] = s} = Seen(s, B)
      BY DEF Seen
    <2>2. IsFiniteSet(Seen(s, B))
      BY TotalSets, TaskCounts
    <2>3. Cardinality(Seen(s, B)) \leq pending[s]
      BY DEF Covers
    <2>4. QED
      BY <2>1, <2>2, <2>3
  <1> HIDE DEF D, S, part
  <1>8. Cardinality(S) \leq SumOver(pending)
    BY <1>5, <1>6, <1>7, PartsWithinSum
  <1>9. QED
    BY <1>8 DEF S

\* A count that is complete covers its slot.
LEMMA CountCovers ==
  ASSUME Typed, TotalInv, MaxTotalPending > 0, CountUnexpanded, NEW B \in SUBSET Task, Covers(B)
  PROVE  Covers(B)'
  <1> DEFINE s == Entries[at].slot
  <1>1. /\ pc = "unexpanded" /\ pc' = "rows" /\ at' = at + 1
        /\ pending' = [u \in DOMAIN pending \cup {s} |->
                         IF u = s THEN rows + Unexpanded(s) ELSE pending[u]]
        /\ UNCHANGED <<config, slot, primary>>
    BY DEF CountUnexpanded, taskVars
  <1>2. UNCHANGED <<MaxTotalPending, Active, Entries, Waiting, Running, Flying>>
    BY <1>1, ConfigStays DEF Waiting, Running, Flying
  <1>3. \A u : Seen(u, B)' = Seen(u, B)
    BY <1>1, <1>2 DEF Seen, AllSeen
  <1>4. /\ Waiting \subseteq B
        /\ \A u \in DOMAIN pending : Cardinality(Seen(u, B)) \leq pending[u]
        /\ \A i \in Active : i < at => Entries[i].slot \in DOMAIN pending
        /\ Cardinality(RowsSeen(s, B)) \leq rows
        /\ Cardinality(B) \leq MaxTotalPending
    BY <1>1 DEF Covers
  <1>5. Cardinality(Seen(s, B)) \leq rows + Unexpanded(s)
    <2> DEFINE W == {t \in Task : slot[t] = s /\ primary[t] = "unexpanded"}
    <2>1. W \in SUBSET Task /\ RowsSeen(s, B) \in SUBSET Task /\ Seen(s, B) \in SUBSET Task
      BY TotalSets
    <2>2. Seen(s, B) \subseteq RowsSeen(s, B) \cup W
      BY DEF Seen, AllSeen, RowsSeen, Flying, Waiting, Running
    <2>3. Unexpanded(s) = Cardinality(W)
      BY DEF Unexpanded
    <2> HIDE DEF s, W
    <2>4. RowsSeen(s, B) \cup W \in SUBSET Task
      BY <2>1
    <2>5. Cardinality(Seen(s, B)) \leq Cardinality(RowsSeen(s, B) \cup W)
      BY <2>2, <2>4, FewerTasks
    <2>6. Cardinality(RowsSeen(s, B) \cup W) \leq Cardinality(RowsSeen(s, B)) + Cardinality(W)
      BY <2>1, TogetherNoMore
    <2>7. /\ Cardinality(Seen(s, B)) \in Nat /\ Cardinality(RowsSeen(s, B)) \in Nat
          /\ Cardinality(W) \in Nat /\ Cardinality(RowsSeen(s, B) \cup W) \in Nat
      BY <2>1, <2>4, TaskCounts
    <2>8. rows \in Nat
      BY HeartbeatAssumption DEF Typed
    <2>9. Cardinality(RowsSeen(s, B)) \leq rows
      BY <1>4
    <2>10. QED
      BY <2>3, <2>5, <2>6, <2>7, <2>8, <2>9
  <1>6. at \in Nat /\ \A i \in Active : i \in Nat
    BY ConfigFacts DEF Typed
  <1>7. ASSUME NEW i \in Active, i < at' PROVE Entries[i].slot \in DOMAIN pending'
    <2>1. i < at \/ i = at
      BY <1>1, <1>6, <1>7
    <2>2. DOMAIN pending' = DOMAIN pending \cup {s}
      BY <1>1
    <2>3. QED
      BY <1>4, <2>1, <2>2
  <1>8. ASSUME NEW u \in DOMAIN pending' PROVE Cardinality(Seen(u, B)) \leq pending'[u]
    <2> HIDE DEF s
    <2>1. CASE u = s
      BY <1>1, <1>5, <2>1
    <2>2. CASE u # s
      BY <1>1, <1>4, <2>2
    <2>3. QED
      BY <2>1, <2>2
  <1> HIDE DEF s
  <1>9. QED
    BY <1>1, <1>2, <1>3, <1>4, <1>7, <1>8 DEF Covers

\* The total is kept by the steps of the goroutine that write no task.
LEMMA LoopTotal ==
  ASSUME Typed, Typed', TotalInv,
         StartLoop \/ Begin \/ CountRows \/ CountUnexpanded \/ CheckTotal \/ Choose \/ Chosen
         \/ IterationFails \/ Restart
  PROVE  TotalInv'
  <1>1. UNCHANGED <<config, slot, primary>>
    BY DEF StartLoop, Begin, CountRows, CountUnexpanded, CheckTotal, Choose, Chosen,
           IterationFails, Restart, taskVars
  <1>2. UNCHANGED <<MaxTotalPending, Active, Entries, Waiting, Running, Flying>>
    BY <1>1, ConfigStays DEF Waiting, Running, Flying
  <1>3. \A B : AllSeen(B)' = AllSeen(B) /\ \A s : Seen(s, B)' = Seen(s, B) /\ RowsSeen(s, B)' = RowsSeen(s, B)
    BY <1>1, <1>2 DEF AllSeen, Seen, RowsSeen
  <1>4. SUFFICES ASSUME MaxTotalPending > 0, pc' \in Working
                 PROVE  \E B \in SUBSET Task : Covers(B)'
    BY <1>2 DEF TotalInv
  <1>5. MaxTotalPending \in Nat /\ batch \in Nat /\ at \in Nat /\ \A i \in Active : i \in Nat /\ ~(i < 1)
    <2>1. BatchSize \in Nat /\ Len(Entries) \in Nat /\ Active \subseteq 1..Len(Entries)
          /\ MaxTotalPending \in Nat
      BY ConfigFacts DEF Typed
    <2>2. batch \in 0..BatchSize /\ at \in 1..(Len(Entries) + 1)
      BY DEF Typed
    <2>3. QED
      BY <2>1, <2>2
  <1>6. CASE Begin
    <2>1. pc' = "rows" /\ at' = 1 /\ pending' = << >>
      BY <1>4, <1>6 DEF Begin, Working
    <2>2. Waiting \in SUBSET Task /\ Cardinality(Waiting) \leq MaxTotalPending
      BY <1>4 DEF TotalInv, Waiting
    <2>3. DOMAIN pending' = {} /\ \A i \in Active : ~(i < at')
      BY <1>5, <2>1
    <2>4. PICK W \in SUBSET Task : Waiting' \subseteq W /\ Cardinality(W) \leq MaxTotalPending
      BY <1>2, <2>2
    <2>5. Covers(W)'
      BY <1>2, <2>1, <2>3, <2>4 DEF Covers
    <2>6. QED
      BY <2>4, <2>5
  <1>7. CASE CountRows \/ CountUnexpanded \/ CheckTotal \/ Choose \/ Chosen
    <2>1. pc \in Working
      BY <1>7 DEF CountRows, CountUnexpanded, CheckTotal, Choose, Chosen, Working
    <2>2. PICK B \in SUBSET Task : Covers(B)
      BY <1>4, <2>1 DEF TotalInv
    <2>3. Cardinality(B) \leq MaxTotalPending /\ Cardinality(AllSeen(B)) \in Nat
      BY <2>2, TotalSets, TaskCounts DEF Covers
    <2>4. CASE CountRows
      <3>1. /\ Waiting \subseteq B
            /\ \A s \in DOMAIN pending : Cardinality(Seen(s, B)) \leq pending[s]
            /\ \A i \in Active : i < at => Entries[i].slot \in DOMAIN pending
            /\ UNCHANGED pending /\ pc' \in {"rows", "unexpanded"}
        BY <2>2, <2>4 DEF CountRows, Covers
      <3>2. at \in Nat /\ \A i \in Active : i \in Nat
        BY <1>5
      <3>3. \A i \in Active : i < at' => Entries[i].slot \in DOMAIN pending
        <4>1. CASE at \in Active /\ Entries[at].slot \notin DOMAIN pending
          BY <2>4, <3>1, <4>1 DEF CountRows
        <4>2. CASE ~(at \in Active /\ Entries[at].slot \notin DOMAIN pending)
          <5>1. at' = at + 1
            BY <2>4, <4>2 DEF CountRows
          <5>2. \A i \in Active : i < at' => i < at \/ i = at
            BY <3>2, <5>1
          <5>3. QED
            BY <3>1, <4>2, <5>2
        <4>3. QED
          BY <4>1, <4>2
      <3>4. ASSUME pc' = "unexpanded"
            PROVE  Cardinality(RowsSeen(Entries[at'].slot, B)) \leq rows'
        <4> DEFINE s == Entries[at].slot
                   R == {t \in Task : slot[t] = s /\ primary[t] = "running"}
        <4>1. at' = at /\ rows' = PendingRows(s)
          BY <2>4, <3>4 DEF CountRows
        <4>2. R \in SUBSET Task /\ RowsSeen(s, B) \in SUBSET R
          BY DEF RowsSeen, Running
        <4>3. rows' = Cardinality(R)
          BY <4>1 DEF PendingRows
        <4> HIDE DEF R
        <4>4. Cardinality(RowsSeen(s, B)) \leq rows'
          BY <4>2, <4>3, FewerTasks
        <4>5. QED
          BY <4>1, <4>4
      <3>5. Covers(B)'
        BY <1>2, <1>3, <2>3, <3>1, <3>3, <3>4 DEF Covers
      <3>6. QED
        BY <3>5
    <2>5. CASE CountUnexpanded
      BY <1>4, <2>2, <2>5, CountCovers
    <2>6. CASE CheckTotal
      <3>1. pc' = "choose" /\ batch' = BatchSizeForTotalPending(batch) /\ batch' # 0
            /\ pc = "rows" /\ at \notin DOMAIN Entries
        BY <1>4, <2>6 DEF CheckTotal, Idle, Working
      <3>2. SumOver(pending) + batch' \leq MaxTotalPending /\ SumOver(pending) \in Nat /\ batch' \in Nat
        BY <1>4, <1>5, <3>1, ShrunkBatch
      <3>3. Cardinality(AllSeen(B)) \leq SumOver(pending)
        BY <2>2, <3>1, CountsCover
      <3>4. Cardinality(AllSeen(B)) + batch' \leq MaxTotalPending
        BY <1>5, <2>3, <3>2, <3>3
      <3>5. Planned' = batch'
        BY <3>1 DEF Planned
      <3>6. Covers(B)'
        BY <1>2, <1>3, <2>3, <3>1, <3>4, <3>5 DEF Covers
      <3>7. QED
        BY <3>6
    <2>7. CASE Choose
      <3>1. pc = "choose" /\ pc' = "choose" /\ batch' = batch
        BY <2>7 DEF Choose
      <3>2. Cardinality(AllSeen(B)) + Planned \leq MaxTotalPending /\ Planned' = Planned
        BY <2>2, <3>1 DEF Covers, Planned
      <3>3. Covers(B)'
        BY <1>2, <1>3, <2>3, <3>1, <3>2 DEF Covers
      <3>4. QED
        BY <3>3
    <2>8. CASE Chosen
      <3>1. pc = "choose" /\ pc' = "create" /\ submissions' = submissions
        BY <1>4, <2>8 DEF Chosen, Idle, Working
      <3>2. Cardinality(AllSeen(B)) + batch \leq MaxTotalPending
        BY <2>2, <3>1 DEF Covers, Planned
      <3>3. Len(submissions) \leq batch /\ Len(submissions) \in Nat
        BY EmptySeq DEF Typed
      <3>4. Cardinality(AllSeen(B)) + Len(submissions) \leq MaxTotalPending
        BY <1>5, <2>3, <3>2, <3>3
      <3>5. Planned' = Len(submissions)
        BY <3>1 DEF Planned
      <3>6. Covers(B)'
        BY <1>2, <1>3, <2>3, <3>1, <3>4, <3>5 DEF Covers
      <3>7. QED
        BY <3>6
    <2>9. QED
      BY <1>7, <2>4, <2>5, <2>6, <2>7, <2>8
  <1>8. CASE StartLoop \/ IterationFails \/ Restart
    BY <1>4, <1>8 DEF StartLoop, IterationFails, Restart, Idle, Working
  <1>9. QED
    BY <1>6, <1>7, <1>8

\* A task that is created fits both bounds, and the plan shrinks as the count grows.
LEMMA InsertedTotal ==
  ASSUME Typed, TotalInv, MaxTotalPending > 0, pc = "create", InsertTask
  PROVE  \E B \in SUBSET Task, t \in Task :
           /\ Covers(B)
           /\ AllSeen(B)' = AllSeen(B) \cup {t}
           /\ Cardinality(AllSeen(B)') \leq Cardinality(AllSeen(B)) + 1
           /\ Cardinality(Waiting') \leq MaxTotalPending
           /\ Cardinality(Flying') \leq 2 * MaxTotalPending
  <1>1. PICK B \in SUBSET Task : Covers(B)
    BY DEF TotalInv, Working
  <1>2. PICK t \in Task \ Existing : primary' = [primary EXCEPT ![t] = "unexpanded"]
    BY Inserted
  <1>3. primary \in [Task -> {"absent", "unexpanded", "running", "finished"}] /\ primary[t] = "absent"
    BY <1>2 DEF Typed, Existing
  <1>4. Waiting' = Waiting \cup {t} /\ Running' = Running /\ t \notin Waiting /\ t \notin Running
    BY <1>2, <1>3 DEF Waiting, Running
  <1>5. AllSeen(B)' = AllSeen(B) \cup {t} /\ t \in Task \ AllSeen(B) /\ Flying' = Flying \cup {t}
    BY <1>4 DEF AllSeen, Flying
  <1>6. Waiting' \subseteq AllSeen(B)' /\ Flying' \subseteq AllSeen(B)' \cup B
    <2>1. Waiting \cap Running = {}
      BY DEF Waiting, Running
    <2>2. QED
      BY <1>4, <1>5, <2>1 DEF AllSeen, Flying
  <1> DEFINE S == AllSeen(B)
             S1 == AllSeen(B)'
  <1>7. S \in SUBSET Task /\ S1 = S \cup {t} /\ S1 \in SUBSET Task /\ t \in Task \ S
    BY <1>5, TotalSets
  <1>8. Waiting' \in SUBSET S1 /\ Flying' \in SUBSET (S1 \cup B)
    BY <1>6
  <1>9. Cardinality(S) + Len(submissions) \leq MaxTotalPending /\ Cardinality(B) \leq MaxTotalPending
    BY <1>1 DEF Covers, Planned
  <1> HIDE DEF S, S1
  <1>10. Cardinality(S1) = Cardinality(S) + 1
    BY <1>7, OneTaskMore
  <1>11. Cardinality(Waiting') \leq Cardinality(S1)
    BY <1>7, <1>8, FewerTasks
  <1>12. Cardinality(Flying') \leq Cardinality(S1 \cup B) /\ S1 \cup B \in SUBSET Task
    BY <1>7, <1>8, FewerTasks
  <1>13. Cardinality(S1 \cup B) \leq Cardinality(S1) + Cardinality(B)
    BY <1>7, TogetherNoMore
  <1>14. /\ Cardinality(S) \in Nat /\ Cardinality(S1) \in Nat /\ Cardinality(B) \in Nat
         /\ Cardinality(S1 \cup B) \in Nat
    BY <1>7, <1>12, TaskCounts
  <1>15. Cardinality(Waiting') \in Nat /\ Cardinality(Flying') \in Nat
    BY <1>7, <1>8, <1>12, TaskCounts
  <1>16. MaxTotalPending \in Nat
    BY ConfigFacts DEF Typed
  <1>17. Len(submissions) \in Nat /\ Len(submissions) # 0
    BY EmptySeq DEF Typed
  <1>18. Cardinality(S1) \leq MaxTotalPending
    BY <1>9, <1>10, <1>14, <1>16, <1>17
  <1>19. Cardinality(Waiting') \leq MaxTotalPending
    BY <1>11, <1>14, <1>15, <1>16, <1>18
  <1>20. Cardinality(Flying') \leq 2 * MaxTotalPending
    BY <1>9, <1>12, <1>13, <1>14, <1>15, <1>16, <1>18
  <1>21. Cardinality(S1) \leq Cardinality(S) + 1
    BY <1>10, <1>14
  <1>22. QED
    BY <1>1, <1>5, <1>19, <1>20, <1>21 DEF S, S1

\* The total is kept by creations, the clock and the engine.
LEMMA RestTotal ==
  ASSUME Typed, Typed', TotalInv,
         \/ Create \/ CreateUnknown \/ Tick
         \/ (\E t \in Task : Expand(t) \/ RowEnds(t))
         \/ UNCHANGED vars
  PROVE  TotalInv'
  <1>1. UNCHANGED config
    BY DEF Create, CreateUnknown, Tick, Expand, RowEnds, vars
  <1>2. UNCHANGED <<MaxTotalPending, Active, Entries>> /\ MaxTotalPending \in Nat
    BY <1>1, ConfigStays, ConfigFacts DEF Typed
  <1>3. SUFFICES ASSUME MaxTotalPending > 0
                 PROVE  /\ Cardinality(Waiting') \leq MaxTotalPending
                        /\ Cardinality(Flying') \leq 2 * MaxTotalPending
                        /\ pc' \in Working => \E B \in SUBSET Task : Covers(B)'
    BY <1>2 DEF TotalInv
  <1>4. CASE CreateUnknown
    BY <1>3, <1>4, InsertedTotal DEF CreateUnknown, Idle, Working
  <1>5. CASE Create
    <2>1. pc = "create" /\ InsertTask
      BY <1>5 DEF Create
    <2>2. PICK B \in SUBSET Task, t \in Task :
            /\ Covers(B)
            /\ AllSeen(B)' = AllSeen(B) \cup {t}
            /\ Cardinality(AllSeen(B)') \leq Cardinality(AllSeen(B)) + 1
            /\ Cardinality(Waiting') \leq MaxTotalPending
            /\ Cardinality(Flying') \leq 2 * MaxTotalPending
      BY <1>3, <2>1, InsertedTotal
    <2>3. ASSUME pc' \in Working PROVE Covers(B)'
      <3>1. submissions' = Tail(submissions) /\ pc' = "create"
        BY <1>5, <2>1, <2>3 DEF Create, Idle, Working
      <3>2. Len(submissions') = Len(submissions) - 1 /\ Len(submissions) \in Nat /\ Len(submissions) # 0
        BY <2>1, <3>1, HeadTailProperties, EmptySeq DEF Typed
      <3>3. Cardinality(AllSeen(B)) + Len(submissions) \leq MaxTotalPending
        BY <2>1, <2>2 DEF Covers, Planned
      <3>4. Cardinality(AllSeen(B)) \in Nat /\ Cardinality(AllSeen(B)') \in Nat
        <4>1. AllSeen(B) \in SUBSET Task
          BY TotalSets
        <4>2. AllSeen(B)' \in SUBSET Task
          BY <2>2, <4>1
        <4>3. QED
          BY <4>1, <4>2, TaskCounts
      <3>5. Planned' = Len(submissions) - 1
        BY <3>1, <3>2 DEF Planned
      <3>6. Cardinality(AllSeen(B)') + (Len(submissions) - 1) \leq MaxTotalPending
        BY <1>2, <2>2, <3>2, <3>3, <3>4
      <3>7. Cardinality(B)' \leq MaxTotalPending'
        BY <1>2, <2>2 DEF Covers
      <3>8. Cardinality(AllSeen(B))' + Planned' \leq MaxTotalPending'
        BY <1>2, <3>5, <3>6
      <3>9. QED
        BY <3>1, <3>7, <3>8 DEF Covers
    <2>4. QED
      BY <2>2, <2>3
  <1>6. CASE \/ Tick \/ (\E t \in Task : Expand(t) \/ RowEnds(t)) \/ UNCHANGED vars
    <2>1. UNCHANGED <<config, slot, pc, batch, submissions, at, rows, pending>>
      BY <1>6 DEF Tick, Expand, RowEnds, taskVars, loopVars, vars
    <2>2. /\ Waiting' \subseteq Waiting /\ Flying' \subseteq Flying
          /\ \A B : AllSeen(B)' \subseteq AllSeen(B)
          /\ \A B : Waiting \subseteq B => Running' \ B \subseteq Running \ B
      <3>1. CASE Tick \/ UNCHANGED vars
        <4>1. UNCHANGED <<Waiting, Running, Flying>>
          BY <3>1 DEF Tick, taskVars, vars, Waiting, Running, Flying
        <4>2. QED
          BY <4>1 DEF AllSeen
      <3>2. ASSUME NEW t \in Task, Expand(t)
            PROVE  Waiting' = Waiting \ {t} /\ Running' = Running \cup {t} /\ t \in Waiting
        BY <3>2 DEF Expand, Waiting, Running, Typed
      <3>3. ASSUME NEW t \in Task, RowEnds(t)
            PROVE  Waiting' = Waiting /\ Running' = Running \ {t} /\ t \notin Waiting
        BY <3>3 DEF RowEnds, Waiting, Running, Typed
      <3>4. QED
        BY <1>6, <3>1, <3>2, <3>3 DEF AllSeen, Flying
    <2>3. Cardinality(Waiting') \leq MaxTotalPending /\ Cardinality(Flying') \leq 2 * MaxTotalPending
      <3>1. Waiting \in SUBSET Task /\ Flying \in SUBSET Task
        BY DEF Waiting, Flying, Running
      <3>2. /\ Cardinality(Waiting') \leq Cardinality(Waiting)
            /\ Cardinality(Flying') \leq Cardinality(Flying)
        BY <2>2, <3>1, FewerTasks
      <3>3. /\ Cardinality(Waiting) \in Nat /\ Cardinality(Waiting') \in Nat
            /\ Cardinality(Flying) \in Nat /\ Cardinality(Flying') \in Nat
        BY <2>2, <3>1, TaskCounts
      <3>4. Cardinality(Waiting) \leq MaxTotalPending /\ Cardinality(Flying) \leq 2 * MaxTotalPending
        BY <1>3 DEF TotalInv
      <3>5. QED
        BY <1>2, <3>2, <3>3, <3>4
    <2>4. ASSUME pc' \in Working PROVE \E B \in SUBSET Task : Covers(B)'
      <3>1. PICK B \in SUBSET Task : Covers(B)
        BY <1>3, <2>1, <2>4 DEF TotalInv
      <3>2. Covers(B)'
        BY <2>1, <2>2, <3>1, CoverStays
      <3>3. QED
        BY <3>2
    <2>5. QED
      BY <2>3, <2>4
  <1>7. QED
    BY <1>4, <1>5, <1>6

-----------------------------------------------------------------------------
\* The inductive invariant of the goroutine and the tables it counts.
HeartbeatInv == Typed /\ HourInv /\ TotalInv

\* Nothing is created yet.
LEMMA InitInv == Init => HeartbeatInv
  <1>1. SUFFICES ASSUME Init PROVE HourInv /\ TotalInv
    BY InitTyped DEF HeartbeatInv
  <1>2. Typed /\ pc = "start" /\ Existing = {} /\ Waiting = {} /\ Running = {} /\ Flying = {}
    BY <1>1, InitTyped DEF Init, Existing, Waiting, Running, Flying
  <1>3. MaxPerHour \in Nat /\ MaxTotalPending \in Nat /\ Cardinality({}) = 0
    BY <1>2, ConfigFacts, FS_EmptySet DEF Typed
  <1>4. \A h : CreatedIn(h) = {}
    BY <1>2 DEF CreatedIn
  <1>5. HourlyLimit
    BY <1>3, <1>4 DEF HourlyLimit, CreatedIn
  <1>6. QED
    BY <1>2, <1>3, <1>5 DEF HourInv, TotalInv, Working

\* The loop of the goroutine, its faults, the clock and the engine keep the counter true to
\* the database, the plan within the hour and the total, and both bounds.
THEOREM HeartbeatInvariant == Spec => []HeartbeatInv
  <1>1. HeartbeatInv /\ [Next]_vars => HeartbeatInv'
    <2>1. SUFFICES ASSUME HeartbeatInv, [Next]_vars PROVE HeartbeatInv'
      OBVIOUS
    <2>2. Typed /\ Typed' /\ HourInv /\ TotalInv
      BY <2>1, TypedStep DEF HeartbeatInv
    <2>3. \/ StartLoop \/ Begin \/ CountRows \/ CountUnexpanded \/ CheckTotal \/ Choose \/ Chosen
          \/ IterationFails \/ Restart \/ Create \/ CreateUnknown \/ Tick
          \/ (\E t \in Task : Expand(t) \/ RowEnds(t)) \/ UNCHANGED vars
      BY <2>1 DEF Next
    <2>4. HourInv'
      BY <2>2, <2>3, LoopHour, RestHour
    <2>5. TotalInv'
      BY <2>2, <2>3, LoopTotal, RestTotal
    <2>6. QED
      BY <2>2, <2>4, <2>5 DEF HeartbeatInv
  <1>2. QED
    BY InitInv, <1>1, PTL DEF Spec

\* The goroutine that keeps heartbeat tasks in flight has the types of its module: its
\* counter of the hour is never more than the tasks there are, and what it has chosen
\* is never more than its batch.
THEOREM HeartbeatTypeCorrect == Spec => []HBTypeOK
  <1>1. HeartbeatInv => HBTypeOK
    <2>1. SUFFICES ASSUME Typed, HourInv PROVE HBTypeOK
      BY DEF HeartbeatInv
    <2>2. ActiveSlots \subseteq Slots
      BY DEF ActiveSlots, Slots, Active
    <2>3. inHour \in 0..MaxTasks
      <3>1. CASE pc = "start"
        BY <2>1, <3>1, HeartbeatAssumption DEF Typed
      <3>2. CASE pc # "start"
        BY <2>1, <3>2, HourSets DEF HourInv
      <3>3. QED
        BY <3>1, <3>2
    <2>4. slot \in [Task -> Slots \cup {"none"}]
      BY <2>1, <2>2 DEF Typed
    <2>5. QED
      BY <2>1, <2>2, <2>3, <2>4 DEF Typed, HBTypeOK, Working
  <1>2. QED
    BY HeartbeatInvariant, <1>1, PTL

\* No hour sees more heartbeat tasks than max_tasks_per_hour, whatever fails and however
\* often the process restarts or the hour turns over between two steps.
THEOREM HourlyLimitHolds == Spec => []HourlyLimit
  <1>1. HeartbeatInv => HourlyLimit
    BY DEF HeartbeatInv, HourInv
  <1>2. QED
    BY HeartbeatInvariant, <1>1, PTL

\* However the engine expands and ends tasks between the queries of CountPending, no more
\* than twice max_total_pending_tasks are in flight.
THEOREM InFlightStaysBounded == Spec => []InFlightIsBounded
  <1>1. HeartbeatInv => InFlightIsBounded
    <2>1. SUFFICES ASSUME Typed, TotalInv, MaxTotalPending > 0
                   PROVE  Cardinality(UNION {InFlight(s) : s \in Slots}) \leq 2 * MaxTotalPending
      BY DEF HeartbeatInv, InFlightIsBounded
    <2> DEFINE U == UNION {InFlight(s) : s \in Slots}
    <2>2. U \subseteq Flying /\ Flying \in SUBSET Task
      BY DEF InFlight, Flying, Waiting, Running
    <2>3. Cardinality(Flying) \leq 2 * MaxTotalPending /\ MaxTotalPending \in Nat
      BY <2>1, ConfigFacts DEF TotalInv, Typed
    <2> HIDE DEF U
    <2>4. Cardinality(U) \leq Cardinality(Flying) /\ Cardinality(U) \in Nat /\ Cardinality(Flying) \in Nat
      BY <2>2, FewerTasks, TaskCounts
    <2>5. Cardinality(U) \leq 2 * MaxTotalPending
      BY <2>3, <2>4
    <2>6. QED
      BY <2>5 DEF U
  <1>2. QED
    BY HeartbeatInvariant, <1>1, PTL

=============================================================================
