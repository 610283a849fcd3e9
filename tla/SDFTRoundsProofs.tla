-------------------------- MODULE SDFTRoundsProofs --------------------------
(***************************************************************************)
(* Theorems about SDFTRounds for any number of client tasks, any limit on  *)
(* retries, and any number of faults.                                      *)
(***************************************************************************)
EXTENDS SDFTRounds, FiniteSetTheorems, WellFoundedInduction, TLAPS

-----------------------------------------------------------------------------
(***************************************************************************)
(* What is always true of one client task, said of its rounds R, its       *)
(* status s and failed_count f, its goroutine g, the number a of its       *)
(* rounds that have expired and the number e of faults so far.             *)
(***************************************************************************)

ClientStatus == {"absent", "running", "success", "failed", "deleted"}
RoundStatus  == {"open", "failed", "downloaded", "deleted"}
RoundRecord  == [st : RoundStatus, after : Nat, finish : BOOLEAN,
                 file : {"none", "checkpoint", "result"}]
Goroutine    == [pc : {"none", "pick", "wait", "retry", "renamed"},
                 st : {"running", "success", "failed"}, count : Nat, round : Nat]

\* A goroutine that holds a round.
Busy(g) == g.pc \in {"wait", "retry", "renamed"}

\* A round is followed, has failed and was tried again, is one more after another.
Follows(R, i) == \E j \in 1..Len(R) : R[j].after = i
Tried(R) == {i \in 1..Len(R) : R[i].st = "failed" /\ Follows(R, i)}
Twice(R) == {j \in 1..Len(R) : \E i \in 1..(j - 1) : R[i].after = R[j].after}

\* A round that has ended without FINISH.
Left(r) == r.st # "open" /\ ~r.finish

\* A round follows an earlier one that has ended without FINISH; what has expired
\* and what has been deleted is the start of the rounds.
Fits(R, a, i) ==
  /\ R[i].after \in 0..(i - 1)
  /\ Follows(R, i) => Left(R[i])
  /\ i \leq a => R[i].st # "open"
  /\ R[i].st = "deleted" => i \leq a /\ \A j \in 1..i : R[j].st = "deleted"
  /\ R[i].st \in {"open", "failed"} => ~R[i].finish
  /\ R[i].file = "result" => R[i].finish

Ordered(R, a) == a \in 0..Len(R) /\ \A i \in 1..Len(R) : Fits(R, a, i)

\* The round a goroutine holds is the last one, or one that is to be followed.
Held(R, g) ==
  /\ g.round \leq Len(R)
  /\ Busy(g) => g.round > 0 /\ (g.round = Len(R) \/ Left(R[g.round]))
  /\ g.pc = "retry" => Left(R[g.round])

\* The last round is a finished checkpoint, renamed, or it has expired.
Done(R, a) ==
  /\ Len(R) > 0 /\ R[Len(R)].finish
  /\ (R[Len(R)].st = "downloaded" /\ R[Len(R)].file = "result") \/ Len(R) \leq a

\* Only such a round completes a client task, and then no goroutine holds another.
Completed(R, s, g, a) ==
  s = "success" \/ g.st = "success" \/ g.pc = "renamed" =>
    Done(R, a) /\ (Busy(g) => g.round = Len(R))

\* The failures that were retried are counted, and so is the one to be retried.
Counted(R, f, g) ==
  /\ g.pc # "none" => f \leq g.count
  /\ Cardinality(Tried(R)) \leq f
  /\ g.pc = "retry" => Cardinality(Tried(R) \ {g.round}) < f

\* Only a fault lets the count go on after it has failed the client task.
Bounded(R, s, f, g, e) ==
  /\ f \leq MaxRetries + 1 + e
  /\ s \in {"absent", "running"} => f \leq MaxRetries
  /\ g.pc # "none" =>
       /\ g.st # "failed" => g.count \leq MaxRetries
       /\ g.st = "failed" =>
            /\ g.count \leq MaxRetries + 1 + e
            /\ g.pc # "pick" => /\ g.pc = "wait" /\ R[g.round].st \in {"failed", "deleted"}
                                /\ g.count \leq MaxRetries + e

\* Only a fault lets a round be followed again.
Doubled(R, g, e) ==
  /\ Cardinality(Twice(R)) \leq e
  /\ Busy(g) /\ Follows(R, g.round) => Cardinality(Twice(R)) < e

Typed(R, s, f, g, a, e) ==
  /\ R \in Seq(RoundRecord) /\ s \in ClientStatus /\ f \in Nat
  /\ g \in Goroutine /\ a \in Nat /\ e \in Nat

Good(R, s, f, g, a, e) ==
  /\ Typed(R, s, f, g, a, e) /\ Ordered(R, a) /\ Held(R, g) /\ Completed(R, s, g, a)
  /\ Counted(R, f, g) /\ Bounded(R, s, f, g, e) /\ Doubled(R, g, e)

\* What is always true of the others: the columns, the scan and the cleanup, whose
\* batch is the expired start of the rounds.
Columns ==
  /\ rounds = [c \in Client |-> rounds[c]] /\ cstatus = [c \in Client |-> cstatus[c]]
  /\ fcount = [c \in Client |-> fcount[c]] /\ gor = [c \in Client |-> gor[c]]
  /\ aged = [c \in Client |-> aged[c]]
  /\ lastID \in Client \cup {0} /\ cold \subseteq Client
  /\ faults \in 0..MaxFaults /\ dbFailed \in BOOLEAN

Batch ==
  /\ cleaner = [pc |-> cleaner.pc, batch |-> cleaner.batch]
  /\ cleaner.pc \in {"rows", "delete", "clients", "orphans"}
  /\ cleaner.batch \subseteq Refs
  /\ \A c \in Client : \A i \in 1..Len(rounds[c]) : <<c, i>> \in cleaner.batch =>
       i \leq aged[c] /\ \A j \in 1..i : <<c, j>> \in cleaner.batch \/ ~Has(c, j)

RoundsInv ==
  /\ Columns /\ Batch
  /\ \A c \in Client : Good(rounds[c], cstatus[c], fcount[c], gor[c], aged[c], faults)

-----------------------------------------------------------------------------
\* Sets of positions can be counted.
LEMMA PositionsCounted ==
  ASSUME NEW n \in Nat, NEW M \in SUBSET (1..n)
  PROVE  IsFiniteSet(M) /\ Cardinality(M) \in Nat
  <1>1. IsFiniteSet(1..n)
    BY FS_Interval
  <1>2. IsFiniteSet(M)
    BY <1>1, FS_Subset
  <1>3. QED
    BY <1>2, FS_CardinalityType

\* So can the failures that were tried again and the rounds that follow another twice.
LEMMA BothCounted ==
  ASSUME NEW R, Len(R) \in Nat
  PROVE  /\ IsFiniteSet(Tried(R)) /\ Cardinality(Tried(R)) \in Nat
         /\ IsFiniteSet(Twice(R)) /\ Cardinality(Twice(R)) \in Nat
  <1>1. Tried(R) \in SUBSET (1..Len(R)) /\ Twice(R) \in SUBSET (1..Len(R))
    BY DEF Tried, Twice
  <1>2. QED
    BY <1>1, PositionsCounted

\* A part of a finite set has no more elements than the set.
LEMMA PartIsSmaller ==
  ASSUME NEW S, IsFiniteSet(S), NEW T \in SUBSET S
  PROVE  IsFiniteSet(T) /\ Cardinality(T) \in Nat /\ Cardinality(T) \leq Cardinality(S)
  BY FS_Subset, FS_CardinalityType

\* Nothing follows the last round.
LEMMA LastIsNotFollowed ==
  ASSUME NEW R, Len(R) \in Nat, NEW a, Ordered(R, a)
  PROVE  ~Follows(R, Len(R))
  BY DEF Ordered, Fits, Follows

\* A client task without rounds.
LEMMA NoRounds ==
  ASSUME NEW g \in Goroutine, g = Idle, NEW e \in Nat
  PROVE  Good(<<>>, "absent", 0, g, 0, e)
  <1>1. <<>> \in Seq(RoundRecord) /\ Len(<<>>) = 0
    OBVIOUS
  <1>2. Tried(<<>>) = {} /\ Twice(<<>>) = {} /\ Cardinality({}) = 0
    BY <1>1, FS_EmptySet DEF Tried, Twice
  <1>3. MaxRetries \in Nat
    BY RoundsAssumption
  <1>4. g.round = 0 /\ g.pc = "none" /\ g.st = "running"
    BY DEF Idle
  <1>5. Typed(<<>>, "absent", 0, g, 0, e) /\ Ordered(<<>>, 0)
    BY <1>1 DEF Typed, Ordered, ClientStatus
  <1>6. Held(<<>>, g) /\ Completed(<<>>, "absent", g, 0)
    BY <1>1, <1>4 DEF Held, Completed, Busy
  <1>7. Counted(<<>>, 0, g) /\ Doubled(<<>>, g, e)
    <2>1. Cardinality(Tried(<<>>)) = 0 /\ Cardinality(Twice(<<>>)) = 0
      BY <1>2
    <2>2. g.pc \notin {"wait", "retry", "renamed"} /\ g.pc = "none" /\ 0 \leq e /\ 0 \leq 0
      BY <1>4
    <2>3. Counted(<<>>, 0, g)
      BY <2>1, <2>2 DEF Counted
    <2>4. QED
      BY <2>1, <2>2, <2>3 DEF Doubled, Busy
  <1>9. Bounded(<<>>, "absent", 0, g, e)
    BY <1>3, <1>4 DEF Bounded
  <1>8. QED
    BY <1>5, <1>6, <1>7, <1>9 DEF Good

\* The rounds stay while the row of the client task and the goroutine change.
LEMMA RoundsStay ==
  ASSUME NEW R, NEW s, NEW f, NEW g, NEW a, NEW e, Good(R, s, f, g, a, e),
         NEW q \in ClientStatus, NEW n \in Nat, NEW h \in Goroutine, NEW d \in Nat,
         f \leq n, e \leq d, Held(R, h), Completed(R, q, h, a), Bounded(R, q, n, h, d),
         h.pc # "none" => n \leq h.count,
         h.pc = "retry" => f < n \/ (g.pc = "retry" /\ g.round = h.round),
         Busy(h) /\ Follows(R, h.round) => Busy(g) /\ g.round = h.round
  PROVE  Good(R, q, n, h, a, d)
  <1>1. Len(R) \in Nat /\ f \in Nat /\ e \in Nat /\ Typed(R, q, n, h, a, d) /\ Ordered(R, a)
    BY DEF Good, Typed
  <1>2. /\ IsFiniteSet(Tried(R)) /\ Cardinality(Tried(R)) \in Nat
        /\ Cardinality(Twice(R)) \in Nat
    BY <1>1, BothCounted
  <1>3. Cardinality(Tried(R)) \leq f /\ (g.pc = "retry" => Cardinality(Tried(R) \ {g.round}) < f)
    BY DEF Good, Counted
  <1>4. Cardinality(Tried(R) \ {h.round}) \in Nat
        /\ Cardinality(Tried(R) \ {h.round}) \leq Cardinality(Tried(R))
    BY <1>2, PartIsSmaller
  <1>5. Counted(R, n, h)
    <2>1. Cardinality(Tried(R)) \leq n
      BY <1>1, <1>2, <1>3
    <2>2. CASE h.pc = "retry" /\ f < n
      BY <1>1, <1>2, <1>3, <1>4, <2>1, <2>2 DEF Counted
    <2>3. CASE h.pc = "retry" /\ g.pc = "retry" /\ g.round = h.round
      <3>1. Cardinality(Tried(R) \ {h.round}) < f
        BY <1>3, <2>3
      <3>2. QED
        BY <1>1, <1>4, <2>1, <2>3, <3>1 DEF Counted
    <2>4. CASE h.pc # "retry"
      BY <2>1, <2>4 DEF Counted
    <2>5. QED
      BY <2>2, <2>3, <2>4
  <1>6. Doubled(R, h, d)
    BY <1>1, <1>2 DEF Good, Doubled
  <1>7. QED
    BY <1>1, <1>5, <1>6 DEF Good

\* A fault elsewhere.
LEMMA LaterFaults ==
  ASSUME NEW R, NEW s, NEW f, NEW g, NEW a, NEW e, Good(R, s, f, g, a, e),
         NEW d \in Nat, e \leq d
  PROVE  Good(R, s, f, g, a, d)
  <1>1. Typed(R, s, f, g, a, e) /\ Bounded(R, s, f, g, e) /\ MaxRetries \in Nat
    BY RoundsAssumption DEF Good
  <1>2. g.count \in Nat /\ f \in Nat /\ e \in Nat
    BY <1>1 DEF Typed, Goroutine
  <1>3. Bounded(R, s, f, g, d)
    BY <1>1, <1>2 DEF Bounded
  <1>4. s \in ClientStatus /\ g \in Goroutine /\ Held(R, g) /\ Completed(R, s, g, a)
        /\ (g.pc # "none" => f \leq g.count) /\ f \leq f
    BY <1>1, <1>2 DEF Good, Typed, Counted
  <1>5. QED
    BY <1>2, <1>3, <1>4, RoundsStay

\* The row of a client task changes its status.
LEMMA StatusChanges ==
  ASSUME NEW R, NEW s, NEW f, NEW g, NEW a, NEW e, Good(R, s, f, g, a, e),
         NEW q \in ClientStatus, q # "success",
         q \in {"absent", "running"} => s \in {"absent", "running"}
  PROVE  Good(R, q, f, g, a, e)
  BY DEF Good, Typed, Completed, Bounded

\* A round is added after the one that the goroutine holds, which has failed and is
\* counted, or is a checkpoint without FINISH; the goroutine may hold it still if there
\* was one more fault.
LEMMA RoundAdded ==
  ASSUME NEW R, NEW s, NEW f, NEW g, NEW a, NEW e, Good(R, s, f, g, a, e),
         g.pc = "retry" \/ (g.pc = "wait" /\ R[g.round].st = "downloaded" /\ ~R[g.round].finish),
         NEW q \in {"pick", "wait"}, NEW d \in Nat, e \leq d, q = "wait" => e < d
  PROVE  Good(Append(R, Round(g.round)), s, f, [g EXCEPT !.pc = q], a, d)
  <1> DEFINE n == Len(R)
             k == g.round
             Q == Append(R, Round(k))
             h == [g EXCEPT !.pc = q]
  <1>1. n \in Nat /\ k \in 1..n /\ g \in Goroutine /\ R \in Seq(RoundRecord)
        /\ f \in Nat /\ a \in 0..n /\ s \in ClientStatus /\ e \in Nat /\ Busy(g)
    BY DEF Good, Typed, Held, Goroutine, Ordered, Busy
  <1>2. Left(R[k])
    BY <1>1 DEF Good, Held, Left
  <1>3. Round(k) \in RoundRecord /\ Round(k).st = "open" /\ Round(k).after = k /\ ~Round(k).finish
        /\ Round(k).file = "none"
    BY <1>1 DEF Round, RoundRecord, RoundStatus
  <1>4. h \in Goroutine /\ h.pc = q /\ h.round = k /\ h.st = g.st /\ h.count = g.count
    BY <1>1 DEF h, Goroutine
  <1> HIDE DEF n, h, k
  <1>5. Q \in Seq(RoundRecord) /\ Len(Q) = n + 1 /\ Q[n + 1] = Round(k)
    BY <1>1, <1>3 DEF n
  <1>6. ASSUME NEW i \in 1..n PROVE Q[i] = R[i]
    BY <1>1, <1>6 DEF n
  <1> HIDE DEF Q
  <1>7. Typed(Q, s, f, h, a, d)
    BY <1>1, <1>4, <1>5 DEF Typed
  <1>8. Held(Q, h)
    <2>1. h.round \leq Len(Q) /\ h.round > 0 /\ Left(Q[h.round]) /\ h.pc # "retry"
      BY <1>1, <1>2, <1>4, <1>5, <1>6
    <2>2. QED
      BY <2>1 DEF Held
  <1>9. Ordered(R, a) /\ \A i \in 1..n : R[i].after \in 0..(i - 1)
    BY DEF Good, Ordered, Fits, n
  <1>10. \A i \in 1..(n + 1) : Follows(Q, i) <=> i \in 1..n /\ (Follows(R, i) \/ i = k)
    <2>1. SUFFICES ASSUME NEW i \in 1..(n + 1)
                   PROVE  Follows(Q, i) <=> i \in 1..n /\ (Follows(R, i) \/ i = k)
      OBVIOUS
    <2>2. Follows(Q, i) <=> Q[n + 1].after = i \/ \E j \in 1..n : Q[j].after = i
      <3>1. 1..(n + 1) = (1..n) \cup {n + 1}
        BY <1>1
      <3>2. QED
        BY <1>5, <3>1 DEF Follows
    <2>3. (\E j \in 1..n : Q[j].after = i) <=> Follows(R, i)
      BY <1>6 DEF Follows, n
    <2>4. Follows(R, i) => i \in 1..n
      BY <1>1, <1>9 DEF Follows, n
    <2>5. QED
      BY <1>1, <1>3, <1>5, <2>2, <2>3, <2>4
  <1>11. Ordered(Q, a)
    <2>1. SUFFICES ASSUME NEW i \in 1..(n + 1) PROVE Fits(Q, a, i)
      BY <1>1, <1>5 DEF Ordered
    <2>2. CASE i = n + 1
      <3>1. ~Follows(Q, i) /\ Q[i] = Round(k) /\ ~(i \leq a) /\ k \in 0..(i - 1)
        BY <1>1, <1>5, <1>10, <2>2
      <3>2. QED
        BY <1>3, <3>1 DEF Fits
    <2>3. CASE i \in 1..n
      <3>1. \A j \in 1..i : j \in 1..n /\ Q[j] = R[j]
        BY <1>1, <1>6, <2>3
      <3>2. Fits(R, a, i)
        BY <1>9, <2>3 DEF Ordered, n
      <3>3. Q[i] = R[i]
        BY <1>6, <2>3
      <3>4. Follows(Q, i) => Left(R[i])
        BY <1>2, <1>10, <2>3, <3>2 DEF Fits
      <3>5. QED
        BY <3>1, <3>2, <3>3, <3>4 DEF Fits
    <2>4. QED
      BY <1>1, <2>1, <2>2, <2>3
  <1>12. s # "success" /\ g.st # "success"
    BY <1>1, <1>2 DEF Good, Completed, Done, Left, n, k
  <1>13. Completed(Q, s, h, a)
    BY <1>4, <1>12 DEF Completed
  <1>14. g.st # "failed" /\ g.count \in Nat /\ f \leq g.count
    BY <1>1 DEF Good, Bounded, Counted, Goroutine, k
  <1>15. Bounded(Q, s, f, h, d)
    <2>1. Bounded(R, s, f, g, e) /\ g.pc # "none" /\ MaxRetries \in Nat
      BY RoundsAssumption DEF Good
    <2>2. QED
      BY <1>1, <1>4, <1>14, <2>1 DEF Bounded
  <1>16. Counted(Q, f, h)
    <2> DEFINE T == Tried(R)
    <2>1. IsFiniteSet(T) /\ Cardinality(T) \in Nat
      BY <1>1, BothCounted DEF n
    <2>2. Tried(Q) \subseteq T \cup {k}
      BY <1>1, <1>3, <1>5, <1>6, <1>10 DEF Tried, n
    <2>3. R[k].st = "downloaded" => k \notin Tried(Q)
      BY <1>1, <1>6 DEF Tried
    <2>4. Cardinality(T) \leq f /\ (g.pc = "retry" => Cardinality(T \ {k}) < f)
      BY DEF Good, Counted, k
    <2> HIDE DEF T
    <2>5. Cardinality(Tried(Q)) \leq f
      <3>1. CASE g.pc = "retry"
        <4>1. IsFiniteSet(T \ {k}) /\ Cardinality(T \ {k}) \in Nat
          BY <2>1, PartIsSmaller
        <4>2. IsFiniteSet((T \ {k}) \cup {k}) /\ Cardinality((T \ {k}) \cup {k}) = Cardinality(T \ {k}) + 1
          BY <4>1, FS_AddElement
        <4>3. Tried(Q) \in SUBSET ((T \ {k}) \cup {k})
          BY <2>2
        <4>4. Cardinality(Tried(Q)) \in Nat /\ Cardinality(Tried(Q)) \leq Cardinality((T \ {k}) \cup {k})
          BY <4>2, <4>3, PartIsSmaller
        <4>5. QED
          BY <1>1, <2>4, <3>1, <4>1, <4>2, <4>4
      <3>2. CASE g.pc # "retry"
        <4>1. Tried(Q) \in SUBSET T
          BY <2>2, <2>3, <3>2 DEF k
        <4>2. Cardinality(Tried(Q)) \in Nat /\ Cardinality(Tried(Q)) \leq Cardinality(T)
          BY <2>1, <4>1, PartIsSmaller
        <4>3. QED
          BY <1>1, <2>1, <2>4, <4>2
      <3>3. QED
        BY <3>1, <3>2
    <2>6. QED
      BY <1>4, <1>14, <2>5 DEF Counted
  <1>17. Doubled(Q, h, d)
    <2>1. IsFiniteSet(Twice(R)) /\ Cardinality(Twice(R)) \in Nat
      BY <1>1, BothCounted DEF n
    <2>2. Cardinality(Twice(R)) \leq e /\ (Follows(R, k) => Cardinality(Twice(R)) < e)
      BY <1>1 DEF Good, Doubled, k
    <2>3. Twice(Q) = Twice(R) \cup (IF Follows(R, k) THEN {n + 1} ELSE {})
      <3>1. \A j \in 1..n : j \in Twice(Q) <=> j \in Twice(R)
        <4>1. SUFFICES ASSUME NEW j \in 1..n PROVE j \in Twice(Q) <=> j \in Twice(R)
          OBVIOUS
        <4>2. \A i \in 1..(j - 1) : i \in 1..n /\ Q[i] = R[i]
          BY <1>1, <1>6
        <4>3. Q[j] = R[j] /\ j \in 1..(n + 1)
          BY <1>1, <1>6
        <4>4. QED
          BY <1>5, <4>2, <4>3 DEF Twice, n
      <3>2. n + 1 \in Twice(Q) <=> Follows(R, k)
        <4>1. n + 1 \in 1..(n + 1) /\ (n + 1) - 1 = n
          BY <1>1
        <4>2. n + 1 \in Twice(Q) <=> \E i \in 1..n : Q[i].after = k
          BY <1>3, <1>5, <4>1 DEF Twice
        <4>3. (\E i \in 1..n : Q[i].after = k) <=> Follows(R, k)
          BY <1>6 DEF Follows, n
        <4>4. QED
          BY <4>2, <4>3
      <3>3. Twice(Q) \subseteq (1..n) \cup {n + 1} /\ Twice(R) \subseteq 1..n
        BY <1>1, <1>5 DEF Twice, n
      <3>4. QED
        BY <3>1, <3>2, <3>3
    <2>4. n + 1 \notin Twice(R)
      BY <1>1 DEF Twice, n
    <2>5. Cardinality(Twice(Q)) \in Nat /\ Cardinality(Twice(Q)) \leq e
      <3>1. CASE Follows(R, k)
        <4>1. Cardinality(Twice(R) \cup {n + 1}) = Cardinality(Twice(R)) + 1
          BY <2>1, <2>4, FS_AddElement
        <4>2. QED
          BY <1>1, <2>1, <2>2, <2>3, <3>1, <4>1
      <3>2. CASE ~Follows(R, k)
        <4>1. Twice(Q) = Twice(R)
          BY <2>3, <3>2
        <4>2. QED
          BY <2>1, <2>2, <4>1
      <3>3. QED
        BY <3>1, <3>2
    <2>6. Busy(h) => e < d
      BY <1>4 DEF Busy
    <2>7. QED
      BY <1>1, <2>5, <2>6 DEF Doubled
  <1>18. QED
    BY <1>7, <1>8, <1>11, <1>13, <1>15, <1>16, <1>17 DEF Good, Q, h, k

\* The first round of a client task.
LEMMA FirstRound ==
  ASSUME NEW s, NEW f, NEW g, NEW a, NEW e, Good(<<>>, s, f, g, a, e)
  PROVE  Good(<<Round(0)>>, s, f, g, a, e)
  <1> DEFINE Q == <<Round(0)>>
  <1>1. Round(0) \in RoundRecord /\ Q \in Seq(RoundRecord) /\ Len(Q) = 1 /\ Q[1] = Round(0)
        /\ Len(<<>>) = 0
    BY DEF Round, RoundRecord, RoundStatus
  <1>2. Round(0).st = "open" /\ Round(0).after = 0 /\ Round(0).file = "none"
        /\ ~Round(0).finish
    BY DEF Round
  <1>3. ~Busy(g) /\ g.round = 0 /\ a = 0 /\ s # "success" /\ g.st # "success"
        /\ g \in Goroutine /\ f \in Nat
    BY <1>1 DEF Good, Typed, Ordered, Held, Completed, Done, Goroutine
  <1> HIDE DEF Q
  <1>4. Typed(Q, s, f, g, a, e) /\ Held(Q, g) /\ Completed(Q, s, g, a)
    BY <1>1, <1>3 DEF Good, Typed, Held, Completed, Busy
  <1>5. ~Follows(Q, 1) /\ Tried(Q) = {} /\ Twice(Q) = {}
    BY <1>1, <1>2 DEF Follows, Tried, Twice
  <1>6. Ordered(Q, a)
    BY <1>1, <1>2, <1>3, <1>5 DEF Ordered, Fits
  <1>7. Cardinality({}) = 0
    BY FS_EmptySet
  <1>8. Counted(Q, f, g) /\ Doubled(Q, g, e)
    BY <1>3, <1>5, <1>7 DEF Good, Typed, Counted, Doubled, Busy
  <1>9. Bounded(Q, s, f, g, e)
    BY <1>3 DEF Good, Bounded, Busy, Goroutine
  <1>10. QED
    BY <1>4, <1>6, <1>8, <1>9 DEF Good, Q

\* One round changes.
LEMMA OneRoundChanges ==
  ASSUME NEW R \in Seq(RoundRecord), NEW k \in 1..Len(R), NEW r \in RoundRecord,
         NEW Q, Q = [R EXCEPT ![k] = r]
  PROVE  /\ Q \in Seq(RoundRecord) /\ Len(Q) = Len(R)
         /\ \A i \in 1..Len(R) : Q[i] = IF i = k THEN r ELSE R[i]
  <1>1. R \in [1..Len(R) -> RoundRecord] /\ Len(R) \in Nat
    OBVIOUS
  <1>2. Q \in [1..Len(R) -> RoundRecord] /\ \A i \in 1..Len(R) : Q[i] = IF i = k THEN r ELSE R[i]
    BY <1>1
  <1>3. QED
    BY <1>1, <1>2

\* What the rounds follow stays as it is.
LEMMA SameSuccessors ==
  ASSUME NEW R, NEW Q, Len(R) \in Nat, Len(Q) = Len(R),
         \A i \in 1..Len(R) : Q[i].after = R[i].after
  PROVE  Twice(Q) = Twice(R) /\ \A i : Follows(Q, i) <=> Follows(R, i)
  <1>1. \A j \in 1..Len(R) : \A i \in 1..(j - 1) : i \in 1..Len(R)
    OBVIOUS
  <1>2. Twice(Q) = Twice(R)
    BY <1>1 DEF Twice
  <1>3. QED
    BY <1>2 DEF Follows

\* The rounds change, but not what they follow, nor is another one failed and tried
\* again.
LEMMA RoundsChange ==
  ASSUME NEW R, NEW s, NEW f, NEW g, NEW a, NEW e, Good(R, s, f, g, a, e),
         NEW Q \in Seq(RoundRecord), Len(Q) = Len(R),
         \A i \in 1..Len(R) : Q[i].after = R[i].after,
         Ordered(Q, a), Held(Q, g), Completed(Q, s, g, a),
         \A i \in 1..Len(R) : Q[i].st = "failed" => R[i].st = "failed" \/ ~Follows(R, i),
         \A i \in 1..Len(R) : R[i].st \in {"failed", "deleted"} => Q[i].st \in {"failed", "deleted"}
  PROVE  Good(Q, s, f, g, a, e)
  <1>1. Len(R) \in Nat /\ f \in Nat /\ g \in Goroutine /\ Typed(Q, s, f, g, a, e)
    BY DEF Good, Typed
  <1>2. Twice(Q) = Twice(R) /\ \A i : Follows(Q, i) <=> Follows(R, i)
    BY <1>1, SameSuccessors
  <1>3. Tried(Q) \subseteq Tried(R)
    BY <1>2 DEF Tried
  <1>4. /\ IsFiniteSet(Tried(R)) /\ Cardinality(Tried(R)) \in Nat
    BY <1>1, BothCounted
  <1>5. Cardinality(Tried(Q)) \in Nat /\ Cardinality(Tried(Q)) \leq Cardinality(Tried(R))
    BY <1>3, <1>4, PartIsSmaller
  <1>6. IsFiniteSet(Tried(R) \ {g.round}) /\ Cardinality(Tried(R) \ {g.round}) \in Nat
    BY <1>4, PartIsSmaller
  <1>7. Cardinality(Tried(Q) \ {g.round}) \in Nat
        /\ Cardinality(Tried(Q) \ {g.round}) \leq Cardinality(Tried(R) \ {g.round})
    <2>1. Tried(Q) \ {g.round} \in SUBSET (Tried(R) \ {g.round})
      BY <1>3
    <2>2. QED
      BY <1>6, <2>1, PartIsSmaller
  <1>8. Counted(R, f, g) /\ Doubled(R, g, e) /\ Bounded(R, s, f, g, e)
    BY DEF Good
  <1>9. Counted(Q, f, g)
    BY <1>1, <1>4, <1>5, <1>6, <1>7, <1>8 DEF Counted
  <1>10. Doubled(Q, g, e)
    BY <1>2, <1>8 DEF Doubled
  <1>11. Bounded(Q, s, f, g, e)
    <2>1. g.pc = "wait" => g.round \in 1..Len(R)
      BY <1>1 DEF Good, Held, Busy, Goroutine
    <2>2. QED
      BY <1>8, <2>1 DEF Bounded
  <1>12. QED
    BY <1>1, <1>9, <1>10, <1>11 DEF Good

\* A round ends: without a result, or with a checkpoint.
LEMMA RoundCloses ==
  ASSUME NEW R, NEW s, NEW f, NEW g, NEW a, NEW e, Good(R, s, f, g, a, e),
         NEW k \in 1..Len(R), R[k].st = "open", NEW r \in RoundRecord,
         r.st \in {"failed", "downloaded"}, r.after = R[k].after, r.file # "result",
         r.st = "failed" => ~r.finish
  PROVE  Good([R EXCEPT ![k] = r], s, f, g, a, e)
  <1> DEFINE Q == [R EXCEPT ![k] = r]
  <1>1. R \in Seq(RoundRecord) /\ Len(R) \in Nat /\ g \in Goroutine
    BY DEF Good, Typed
  <1>2. /\ Q \in Seq(RoundRecord) /\ Len(Q) = Len(R)
        /\ \A i \in 1..Len(R) : Q[i] = IF i = k THEN r ELSE R[i]
    BY <1>1, OneRoundChanges
  <1> HIDE DEF Q
  <1>3. \A i \in 1..Len(R) : Q[i].after = R[i].after
    BY <1>2
  <1>4. \A i : Follows(Q, i) <=> Follows(R, i)
    BY <1>1, <1>2, <1>3, SameSuccessors
  <1>5. Ordered(R, a) /\ Held(R, g) /\ Completed(R, s, g, a)
    BY DEF Good
  <1>6. ~Follows(R, k) /\ ~R[k].finish /\ ~(k \leq a)
    BY <1>5 DEF Ordered, Fits, Left
  <1>7. Ordered(Q, a)
    <2>1. SUFFICES ASSUME NEW i \in 1..Len(R) PROVE Fits(Q, a, i)
      BY <1>2, <1>5 DEF Ordered
    <2>2. Fits(R, a, i)
      BY <1>5 DEF Ordered
    <2>3. CASE i = k
      BY <1>2, <1>4, <1>6, <2>2, <2>3 DEF Fits
    <2>4. CASE i # k
      <3>1. \A j \in 1..i : j \in 1..Len(R) /\ (R[j].st = "deleted" => Q[j].st = "deleted")
        BY <1>1, <1>2
      <3>2. Q[i] = R[i]
        BY <1>2, <2>4
      <3>3. QED
        BY <1>4, <2>2, <3>1, <3>2 DEF Fits
    <2>5. QED
      BY <2>3, <2>4
  <1>8. Held(Q, g)
    <2>1. Busy(g) => g.round \in 1..Len(R)
      BY <1>1, <1>5 DEF Held, Goroutine
    <2>2. g.pc = "retry" => Busy(g)
      BY DEF Busy
    <2>3. Busy(g) /\ Left(R[g.round]) => Left(Q[g.round])
      BY <1>2, <2>1 DEF Left
    <2>4. QED
      BY <1>2, <1>5, <2>2, <2>3 DEF Held
  <1>9. Completed(Q, s, g, a)
    <2>1. Done(R, a) => Done(Q, a)
      <3>1. HAVE Done(R, a)
      <3>2. Len(R) \in 1..Len(R) /\ Len(R) # k
        BY <1>1, <1>6, <3>1 DEF Done
      <3>3. QED
        BY <1>2, <3>1, <3>2 DEF Done
    <2>2. QED
      BY <1>2, <1>5, <2>1 DEF Completed
  <1>10. /\ \A i \in 1..Len(R) : Q[i].st = "failed" => R[i].st = "failed" \/ ~Follows(R, i)
         /\ \A i \in 1..Len(R) : R[i].st \in {"failed", "deleted"} => Q[i].st \in {"failed", "deleted"}
    BY <1>2, <1>6
  <1>11. QED
    BY <1>2, <1>3, <1>7, <1>8, <1>9, <1>10, RoundsChange DEF Q

\* The file of a round is renamed or goes with what has expired; rounds that have
\* expired are deleted, all up to one of them.
LEMMA RoundsAreMarked ==
  ASSUME NEW R, NEW s, NEW f, NEW g, NEW a, NEW e, Good(R, s, f, g, a, e),
         NEW Q \in Seq(RoundRecord), Len(Q) = Len(R),
         \A i \in 1..Len(R) :
           /\ Q[i].after = R[i].after /\ Q[i].finish = R[i].finish
           /\ Q[i].st = R[i].st \/ (Q[i].st = "deleted" /\ i \leq a /\ \A j \in 1..i : Q[j].st = "deleted")
           /\ \/ Q[i].file = R[i].file
              \/ Q[i].file = "result" /\ R[i].finish
              \/ Q[i].file = "none" /\ (i \leq a \/ R[i].st = "deleted")
  PROVE  Good(Q, s, f, g, a, e)
  <1>1. R \in Seq(RoundRecord) /\ Len(R) \in Nat /\ g \in Goroutine
    BY DEF Good, Typed
  <1>2. Ordered(R, a) /\ Held(R, g) /\ Completed(R, s, g, a)
    BY DEF Good
  <1>3. \A i : Follows(Q, i) <=> Follows(R, i)
    BY <1>1, SameSuccessors
  <1>4. \A i \in 1..Len(R) : Left(R[i]) => Left(Q[i])
    BY DEF Left
  <1>5. Ordered(Q, a)
    <2>1. SUFFICES ASSUME NEW i \in 1..Len(R) PROVE Fits(Q, a, i)
      BY <1>2 DEF Ordered
    <2>2. Fits(R, a, i)
      BY <1>2 DEF Ordered
    <2>3. \A j \in 1..i : R[j].st = "deleted" => Q[j].st = "deleted"
      BY <1>1
    <2>4. QED
      BY <1>3, <1>4, <2>2, <2>3 DEF Fits
  <1>6. Held(Q, g)
    <2>1. Busy(g) => g.round \in 1..Len(R)
      BY <1>1, <1>2 DEF Held, Goroutine
    <2>2. g.pc = "retry" => Busy(g)
      BY DEF Busy
    <2>3. QED
      BY <1>2, <1>4, <2>1, <2>2 DEF Held
  <1>7. Completed(Q, s, g, a)
    <2>1. Done(R, a) => Done(Q, a)
      <3>1. HAVE Done(R, a)
      <3>2. Len(R) \in 1..Len(R)
        BY <1>1, <3>1 DEF Done
      <3>3. QED
        BY <1>2, <3>1, <3>2 DEF Done, Ordered, Fits
    <2>2. QED
      BY <1>2, <2>1 DEF Completed
  <1>8. QED
    BY <1>5, <1>6, <1>7, RoundsChange

\* One more round expires.
LEMMA RoundExpires ==
  ASSUME NEW R, NEW s, NEW f, NEW g, NEW a, NEW e, Good(R, s, f, g, a, e),
         a < Len(R), R[a + 1].st # "open"
  PROVE  Good(R, s, f, g, a + 1, e)
  <1>1. R \in Seq(RoundRecord) /\ Len(R) \in Nat /\ a \in Nat
    BY DEF Good, Typed
  <1>2. Typed(R, s, f, g, a + 1, e) /\ Held(R, g) /\ Counted(R, f, g)
        /\ Bounded(R, s, f, g, e) /\ Doubled(R, g, e)
    BY <1>1 DEF Good, Typed
  <1>3. Ordered(R, a + 1)
    BY <1>1 DEF Good, Ordered, Fits
  <1>4. Completed(R, s, g, a + 1)
    BY <1>1 DEF Good, Completed, Done
  <1>5. QED
    BY <1>2, <1>3, <1>4 DEF Good

-----------------------------------------------------------------------------
\* A finite set of natural numbers has a greatest element.
LEMMA GreatestExists ==
  ASSUME NEW S, IsFiniteSet(S), S # {}, S \subseteq Nat
  PROVE  \E m \in S : \A n \in S : n \leq m
  <1> DEFINE F == FiniteSubsetsOf(S)
             T == {U \in F : U # {} /\ ~\E m \in U : \A n \in U : n \leq m}
  <1>1. SUFFICES ASSUME T # {} PROVE FALSE
    BY FS_Subset DEF FiniteSubsetsOf
  <1>2. PICK U \in T : \A V \in T : <<V, U>> \notin StrictSubsetOrdering(S)
    <2>1. T \subseteq F
      OBVIOUS
    <2> HIDE DEF T, F
    <2>2. QED
      BY <1>1, <2>1, FS_StrictSubsetOrderingWellFounded, WFMin DEF F
  <1>3. PICK x \in U : TRUE
    OBVIOUS
  <1> DEFINE V == U \ {x}
  <1>4. U \in SUBSET S /\ IsFiniteSet(U)
    BY DEF FiniteSubsetsOf
  <1>5. V \in F
    BY <1>4, FS_RemoveElement DEF FiniteSubsetsOf
  <1>6. <<V, U>> \in StrictSubsetOrdering(S)
    BY <1>3, <1>4 DEF StrictSubsetOrdering
  <1>7. V = {} \/ \E m \in V : \A n \in V : n \leq m
    BY <1>2, <1>5, <1>6
  <1>8. \E m \in U : \A n \in U : n \leq m
    BY <1>3, <1>4, <1>7
  <1>9. QED
    BY <1>8

-----------------------------------------------------------------------------
Sound(c) == Good(rounds[c], cstatus[c], fcount[c], gor[c], aged[c], faults)

\* A step that leaves the cleanup alone and takes nothing back leaves its batch
\* what it was.
LEMMA BatchStays ==
  ASSUME Batch, UNCHANGED cleaner,
         NEW c \in Client, \A d \in Client \ {c} : rounds'[d] = rounds[d] /\ aged'[d] = aged[d],
         Len(rounds[c]) \in Nat, Len(rounds'[c]) \in Nat, Len(rounds[c]) \leq Len(rounds'[c]),
         aged[c] \in Nat, aged'[c] \in Nat, aged[c] \leq aged'[c],
         \A i \in 1..Len(rounds[c]) : rounds[c][i].st = "deleted" => rounds'[c][i].st = "deleted"
  PROVE  Batch'
  <1>1. Refs \subseteq Refs'
    <2>1. \A d \in Client : 1..Len(rounds[d]) \subseteq 1..Len(rounds'[d])
      OBVIOUS
    <2>2. QED
      BY <2>1 DEF Refs
  <1>2. ASSUME NEW d \in Client, NEW i \in 1..Len(rounds'[d]), <<d, i>> \in cleaner.batch
        PROVE  i \leq aged'[d] /\ \A j \in 1..i : <<d, j>> \in cleaner.batch \/ ~Has(d, j)'
    <2>1. i \in 1..Len(rounds[d])
      BY <1>2 DEF Batch, Refs
    <2>2. i \leq aged[d] /\ \A j \in 1..i : <<d, j>> \in cleaner.batch \/ ~Has(d, j)
      BY <1>2, <2>1 DEF Batch
    <2>3. CASE d # c
      BY <2>2, <2>3 DEF Has
    <2>4. CASE d = c
      <3>1. \A j \in 1..i : j \in 1..Len(rounds[c])
        BY <2>1, <2>4
      <3>2. QED
        BY <2>1, <2>2, <2>4, <3>1 DEF Has
    <2>5. QED
      BY <2>3, <2>4
  <1>3. QED
    BY <1>1, <1>2 DEF Batch

\* A step of one client task.
LEMMA OneClient ==
  ASSUME RoundsInv, NEW c \in Client, UNCHANGED cleaner,
         Columns', Sound(c)',
         \A d \in Client \ {c} : /\ rounds'[d] = rounds[d] /\ cstatus'[d] = cstatus[d]
                                 /\ fcount'[d] = fcount[d] /\ gor'[d] = gor[d] /\ aged'[d] = aged[d],
         faults' = faults \/ faults' = faults + 1,
         Len(rounds[c]) \leq Len(rounds'[c]), aged[c] \leq aged'[c],
         \A i \in 1..Len(rounds[c]) : rounds[c][i].st = "deleted" => rounds'[c][i].st = "deleted"
  PROVE  RoundsInv'
  <1>1. Len(rounds[c]) \in Nat /\ aged[c] \in Nat
    BY DEF RoundsInv, Good, Typed
  <1>2. Len(rounds'[c]) \in Nat /\ aged'[c] \in Nat
    BY DEF Sound, Good, Typed
  <1>3. Batch'
    BY <1>1, <1>2, BatchStays DEF RoundsInv
  <1>4. ASSUME NEW d \in Client PROVE Sound(d)'
    <2>1. CASE d = c
      BY <2>1
    <2>2. CASE d # c
      <3>1. faults \in Nat /\ faults' \in Nat /\ faults \leq faults'
        BY RoundsAssumption DEF RoundsInv, Columns
      <3>2. Good(rounds[d], cstatus[d], fcount[d], gor[d], aged[d], faults)
        BY DEF RoundsInv
      <3>3. Good(rounds[d], cstatus[d], fcount[d], gor[d], aged[d], faults')
        BY <3>1, <3>2, LaterFaults
      <3>4. QED
        BY <2>2, <3>3 DEF Sound
    <2>3. QED
      BY <2>1, <2>2
  <1>5. QED
    BY <1>3, <1>4 DEF RoundsInv, Sound

\* A step that writes no round and no age.
LEMMA RowsStay ==
  ASSUME RoundsInv, NEW c \in Client, UNCHANGED <<rounds, aged, cleaner>>, Columns', Sound(c)',
         faults' = faults \/ faults' = faults + 1,
         \A d \in Client \ {c} : /\ cstatus'[d] = cstatus[d] /\ fcount'[d] = fcount[d]
                                 /\ gor'[d] = gor[d]
  PROVE  RoundsInv'
  <1>1. Len(rounds[c]) \in Nat /\ aged[c] \in Nat
    BY DEF RoundsInv, Good, Typed
  <1>2. QED
    BY <1>1, OneClient

\* The parts that most steps leave alone.
LEMMA InvParts ==
  ASSUME RoundsInv, NEW c \in Client
  PROVE  /\ Columns /\ Sound(c)
         /\ rounds[c] \in Seq(RoundRecord) /\ Len(rounds[c]) \in Nat
         /\ cstatus[c] \in ClientStatus /\ fcount[c] \in Nat /\ gor[c] \in Goroutine /\ aged[c] \in Nat
         /\ faults \in Nat /\ MaxRetries \in Nat
  BY RoundsAssumption DEF RoundsInv, Sound, Good, Typed

\* The first states.
LEMMA RoundsInit == Init => RoundsInv
  <1>1. SUFFICES ASSUME Init PROVE RoundsInv
    OBVIOUS
  <1>2. Columns
    <2>1. /\ rounds = [c \in Client |-> rounds[c]] /\ cstatus = [c \in Client |-> cstatus[c]]
          /\ fcount = [c \in Client |-> fcount[c]] /\ gor = [c \in Client |-> gor[c]]
          /\ aged = [c \in Client |-> aged[c]]
      BY <1>1, Zenon DEF Init
    <2>2. lastID = 0 /\ cold = {} /\ faults = 0 /\ dbFailed = FALSE
      BY <1>1 DEF Init
    <2>3. /\ lastID \in Client \cup {0} /\ cold \subseteq Client
          /\ faults \in 0..MaxFaults
      BY <2>2, RoundsAssumption
    <2>4. dbFailed \in BOOLEAN
      BY <2>2, Zenon
    <2>5. QED
      BY <2>1, <2>3, <2>4, Zenon DEF Columns
  <1>3. Batch
    BY <1>1 DEF Init, Batch, Resting, Refs
  <1>4. ASSUME NEW c \in Client PROVE Sound(c)
    <2>1. Idle \in Goroutine /\ 0 \in Nat
      BY DEF Idle, Goroutine
    <2>2. Good(<<>>, "absent", 0, Idle, 0, 0)
      BY <2>1, NoRounds
    <2>3. rounds[c] = <<>> /\ cstatus[c] = "absent" /\ fcount[c] = 0 /\ gor[c] = Idle /\ aged[c] = 0
          /\ faults = 0
      BY <1>1 DEF Init
    <2>4. QED
      BY <2>2, <2>3 DEF Sound
  <1>5. QED
    BY <1>2, <1>3, <1>4 DEF RoundsInv, Sound

\* A client task and its first row.
LEMMA InsertStep ==
  ASSUME RoundsInv, NEW c \in Client, InsertClientTask(c) \/ InsertFirstRow(c)
  PROVE  RoundsInv'
  <1>1. Columns /\ Sound(c) /\ Len(rounds[c]) \in Nat /\ aged[c] \in Nat
    BY InvParts
  <1>2. CASE InsertClientTask(c)
    <2>1. Columns'
      BY <1>1, <1>2 DEF InsertClientTask, Columns, cleanVars
    <2>2. cstatus'[c] = "running"
      BY <1>1, <1>2 DEF InsertClientTask, Columns
    <2>3. Sound(c)'
      <3>1. "running" \in ClientStatus /\ cstatus[c] = "absent"
        BY <1>2 DEF ClientStatus, InsertClientTask
      <3>2. Good(rounds[c], "running", fcount[c], gor[c], aged[c], faults)
        BY <1>1, <3>1, StatusChanges DEF Sound
      <3>3. QED
        BY <1>2, <2>2, <3>2 DEF InsertClientTask, Sound, cleanVars
    <2>4. QED
      BY <1>2, <2>1, <2>3, RowsStay DEF InsertClientTask, cleanVars
  <1>3. CASE InsertFirstRow(c)
    <2>1. Columns'
      BY <1>1, <1>3 DEF InsertFirstRow, Columns, cleanVars
    <2>2. rounds'[c] = <<Round(0)>> /\ rounds[c] = <<>>
      BY <1>1, <1>3 DEF InsertFirstRow, Columns
    <2>3. Sound(c)'
      BY <1>1, <1>3, <2>2, FirstRound DEF InsertFirstRow, Sound, cleanVars
    <2>4. Len(rounds[c]) = 0 /\ Len(rounds'[c]) = 1
      BY <2>2
    <2>5. QED
      BY <1>1, <1>3, <2>1, <2>3, <2>4, OneClient DEF InsertFirstRow, cleanVars
  <1>4. QED
    BY <1>2, <1>3

\* A round ends.
LEMMA RoundEndsStep ==
  ASSUME RoundsInv, NEW c \in Client, RoundEnds(c)
  PROVE  RoundsInv'
  <1>1. Columns /\ Sound(c) /\ Len(rounds[c]) \in Nat /\ aged[c] \in Nat /\ rounds[c] \in Seq(RoundRecord)
    BY InvParts
  <1> DEFINE R == rounds[c]
             Lost(i) == [R[i] EXCEPT !.st = "failed"]
             Down(i, b) == [R[i] EXCEPT !.st = "downloaded", !.finish = b, !.file = "checkpoint"]
  <1>2. PICK i \in 1..Len(R) :
          /\ R[i].st = "open"
          /\ \E r : /\ r = Lost(i) \/ \E b \in BOOLEAN : r = Down(i, b)
                   /\ rounds' = [rounds EXCEPT ![c] = [R EXCEPT ![i] = r]]
    <2>1. PICK i \in 1..Len(R) :
            /\ R[i].st = "open"
            /\ \/ rounds' = [rounds EXCEPT ![c] = [R EXCEPT ![i] = Lost(i)]]
               \/ \E b \in BOOLEAN : rounds' = [rounds EXCEPT ![c] = [R EXCEPT ![i] = Down(i, b)]]
      BY DEF RoundEnds
    <2> HIDE DEF Lost, Down
    <2>2. QED
      BY <2>1
  <1>3. UNCHANGED <<cstatus, fcount, lastID, gor, aged, cold, cleaner, faults, dbFailed>>
    BY DEF RoundEnds, cleanVars
  <1>4. R[i] \in RoundRecord
    BY <1>1
  <1>5. Good(R, cstatus[c], fcount[c], gor[c], aged[c], faults)
    BY <1>1 DEF Sound
  <1>6. ~R[i].finish /\ R[i].file # "result"
    BY <1>2, <1>5 DEF Good, Ordered, Fits
  <1>7. PICK r : /\ r \in RoundRecord /\ r.st \in {"failed", "downloaded"} /\ r.after = R[i].after
                 /\ r.file # "result" /\ (r.st = "failed" => ~r.finish)
                 /\ rounds' = [rounds EXCEPT ![c] = [R EXCEPT ![i] = r]]
    <2>1. PICK r : /\ r = Lost(i) \/ \E b \in BOOLEAN : r = Down(i, b)
                   /\ rounds' = [rounds EXCEPT ![c] = [R EXCEPT ![i] = r]]
      BY <1>2
    <2>2. /\ r \in RoundRecord /\ r.st \in {"failed", "downloaded"} /\ r.after = R[i].after
          /\ r.file # "result" /\ (r.st = "failed" => ~r.finish)
      <3>1. CASE r = Lost(i)
        BY <1>4, <1>6, <3>1 DEF RoundRecord, RoundStatus
      <3>2. ASSUME NEW b \in BOOLEAN, r = Down(i, b)
            PROVE  /\ r \in RoundRecord /\ r.st = "downloaded" /\ r.after = R[i].after
                   /\ r.file # "result"
        BY <1>4, <3>2 DEF RoundRecord, RoundStatus
      <3>3. QED
        BY <2>1, <3>1, <3>2
    <2>3. QED
      BY <2>1, <2>2
  <1>ends. rounds'[c] = [R EXCEPT ![i] = r] /\ \A d \in Client \ {c} : rounds'[d] = rounds[d]
    BY <1>1, <1>7 DEF Columns
  <1>8. Columns'
    BY <1>1, <1>3, <1>7 DEF Columns
  <1>9. Sound(c)'
    <2> HIDE DEF R
    <2>1. Good([R EXCEPT ![i] = r], cstatus[c], fcount[c], gor[c], aged[c], faults)
      BY <1>2, <1>5, <1>7, RoundCloses
    <2>2. Good(rounds'[c], cstatus[c], fcount[c], gor[c], aged[c], faults)
      BY <1>ends, <2>1
    <2>3. QED
      BY <1>3, <2>2 DEF Sound
  <1>10. Len(R) \leq Len(rounds'[c])
         /\ \A j \in 1..Len(R) : R[j].st = "deleted" => rounds'[c][j].st = "deleted"
    <2>1. R \in Seq(RoundRecord) /\ Len(R) \in Nat /\ i \in 1..Len(R)
      BY <1>1
    <2> HIDE DEF R
    <2>2. Len(rounds'[c]) = Len(R) /\ \A j \in 1..Len(R) : rounds'[c][j] = IF j = i THEN r ELSE R[j]
      BY <1>7, <1>ends, <2>1, OneRoundChanges
    <2>3. R[i].st = "open"
      BY <1>2 DEF R
    <2>4. R[i].st # "deleted" /\ Len(R) \leq Len(rounds'[c])
      BY <2>1, <2>2, <2>3
    <2>5. QED
      BY <2>2, <2>4
  <1>11. QED
    BY <1>1, <1>3, <1>8, <1>9, <1>10, <1>ends, OneClient

\* A statement that may fail.
LEMMA FaultIsTyped ==
  ASSUME Columns, NoFault \/ DBFails
  PROVE  /\ faults' \in 0..MaxFaults /\ dbFailed' \in BOOLEAN
         /\ faults' = faults \/ faults' = faults + 1
  <1>1. faults' \in 0..MaxFaults /\ (faults' = faults \/ faults' = faults + 1)
    BY RoundsAssumption DEF Columns, NoFault, DBFails
  <1>2. dbFailed' \in BOOLEAN
    <2>1. CASE NoFault
      BY <2>1, Zenon DEF Columns, NoFault
    <2>2. CASE DBFails
      BY <2>2, Zenon DEF DBFails
    <2>3. QED
      BY <2>1, <2>2
  <1>3. QED
    BY <1>1, <1>2

\* The scan starts goroutines with fresh copies and remembers the last id.
LEMMA TakeUpStep ==
  ASSUME RoundsInv, TakeUp
  PROVE  RoundsInv'
  <1>1. UNCHANGED <<cstatus, fcount, rounds, aged, cold, cleaner, faults, dbFailed>>
    BY DEF TakeUp, cleanVars
  <1>2. gor' = [c \in Client |-> IF c \in Waiting
                                 THEN [Idle EXCEPT !.pc = "pick", !.count = fcount[c]] ELSE gor[c]]
    BY DEF TakeUp
  <1>3. lastID' \in Client
    <2>1. Waiting \subseteq Client /\ Client \subseteq Nat /\ IsFiniteSet(Client) /\ Waiting # {}
      BY RoundsAssumption DEF TakeUp, Waiting
    <2>2. \E m \in Waiting : \A n \in Waiting : n \leq m
      <3>1. IsFiniteSet(Waiting)
        BY <2>1, FS_Subset
      <3>2. QED
        BY <2>1, <3>1, GreatestExists
    <2>3. lastID' \in Waiting
      BY <2>2 DEF TakeUp
    <2>4. QED
      BY <2>1, <2>3
  <1>4. Columns'
    <2>1. Columns
      BY DEF RoundsInv
    <2>2. gor' = [c \in Client |-> gor'[c]]
      BY <1>2
    <2>3. QED
      BY <1>1, <1>3, <2>1, <2>2, Zenon DEF Columns
  <1>5. Batch'
    BY <1>1 DEF RoundsInv, Batch, Refs, Has
  <1>6. ASSUME NEW c \in Client PROVE Sound(c)'
    <2>1. Sound(c) /\ fcount[c] \in Nat /\ Len(rounds[c]) \in Nat
      BY InvParts
    <2>2. CASE c \notin Waiting
      BY <1>1, <1>2, <2>1, <2>2 DEF Sound
    <2>3. CASE c \in Waiting
      <3> DEFINE h == [Idle EXCEPT !.pc = "pick", !.count = fcount[c]]
      <3>1. gor'[c] = h
        BY <1>2, <2>3
      <3>2. h \in Goroutine /\ h.pc = "pick" /\ h.st = "running" /\ h.round = 0 /\ h.count = fcount[c]
        BY <2>1 DEF Idle, Goroutine
      <3> HIDE DEF h
      <3>3. cstatus[c] = "running"
        BY <2>3 DEF Waiting
      <3>4. Good(rounds[c], cstatus[c], fcount[c], gor[c], aged[c], faults)
        BY <2>1 DEF Sound
      <3>5. fcount[c] \leq MaxRetries
        BY <3>3, <3>4 DEF Good, Bounded
      <3>6. /\ Held(rounds[c], h) /\ Completed(rounds[c], cstatus[c], h, aged[c])
            /\ Bounded(rounds[c], cstatus[c], fcount[c], h, faults) /\ ~Busy(h)
        BY <2>1, <3>2, <3>3, <3>4, <3>5 DEF Good, Held, Completed, Bounded, Busy
      <3>7. faults \in Nat /\ cstatus[c] \in ClientStatus /\ fcount[c] \leq fcount[c] /\ faults \leq faults
            /\ fcount[c] \leq h.count
        BY <2>1, <3>2, InvParts
      <3>8. Good(rounds[c], cstatus[c], fcount[c], h, aged[c], faults)
        BY <2>1, <3>2, <3>4, <3>6, <3>7, RoundsStay
      <3>9. QED
        BY <1>1, <3>1, <3>8 DEF Sound
    <2>4. QED
      BY <2>2, <2>3
  <1>7. QED
    BY <1>4, <1>5, <1>6 DEF RoundsInv, Sound

\* A goroutine picks the last round there is, which nothing has deleted and nothing
\* follows: the deleted ones are the start.
LEMMA PickStep ==
  ASSUME RoundsInv, NEW c \in Client, Pick(c)
  PROVE  RoundsInv'
  <1> DEFINE R == rounds[c]
             left == {i \in 1..Len(R) : Has(c, i)}
  <1>1. UNCHANGED <<cstatus, fcount, rounds, lastID, aged, cold, cleaner>>
        /\ gor[c].pc = "pick"
    BY DEF Pick, cleanVars, At
  <1>2. Columns /\ Sound(c) /\ Len(R) \in Nat /\ gor[c] \in Goroutine /\ aged[c] \in Nat
        /\ fcount[c] \in Nat
    BY InvParts
  <1>3. \/ gor' = [gor EXCEPT ![c] = Idle]
        \/ left # {} /\ gor[c].st = "running"
           /\ gor' = [gor EXCEPT ![c].pc = "wait",
                                 ![c].round = CHOOSE i \in left : \A j \in left : j \leq i]
    BY DEF Pick
  <1>4. PICK h : gor' = [gor EXCEPT ![c] = h]
                 /\ (h = Idle \/ (left # {} /\ gor[c].st = "running"
                                  /\ h = [gor[c] EXCEPT !.pc = "wait",
                                        !.round = CHOOSE i \in left : \A j \in left : j \leq i]))
    <2>1. CASE gor' = [gor EXCEPT ![c] = Idle]
      BY <2>1
    <2>2. CASE left # {} /\ gor[c].st = "running"
               /\ gor' = [gor EXCEPT ![c].pc = "wait",
                                     ![c].round = CHOOSE i \in left : \A j \in left : j \leq i]
      <3> DEFINE top == CHOOSE i \in left : \A j \in left : j \leq i
      <3>1. gor' = [gor EXCEPT ![c] = [gor[c] EXCEPT !.pc = "wait", !.round = top]]
        <4>1. gor' = [gor EXCEPT ![c].pc = "wait", ![c].round = top]
          BY <2>2
        <4> HIDE DEF top
        <4>2. QED
          BY <1>2, <4>1 DEF Columns
      <3>2. QED
        BY <2>2, <3>1
    <2>3. QED
      BY <1>3, <2>1, <2>2
  <1>5. gor'[c] = h /\ \A d \in Client \ {c} : gor'[d] = gor[d]
    BY <1>2, <1>4 DEF Columns
  <1>6. left # {} => Len(R) > 0 /\ (CHOOSE i \in left : \A j \in left : j \leq i) = Len(R)
    <2>1. HAVE left # {}
    <2>2. Len(R) \in left
      <3>1. PICK i \in 1..Len(R) : Has(c, i)
        BY <2>1
      <3>2. Len(R) \in 1..Len(R) /\ i \in 1..Len(R)
        BY <1>2
      <3>3. R[Len(R)].st # "deleted"
        BY <1>2, <3>1, <3>2 DEF Sound, Good, Ordered, Fits, Has
      <3>4. QED
        BY <3>2, <3>3 DEF Has
    <2>3. \A j \in left : j \leq Len(R) /\ j \in Nat
      BY <1>2
    <2>4. QED
      BY <1>2, <2>2, <2>3
  <1>7. Good(R, cstatus[c], fcount[c], gor[c], aged[c], faults) /\ fcount[c] \leq gor[c].count
    BY <1>1, <1>2 DEF Sound, Good, Counted
  <1>fault. faults' \in 0..MaxFaults /\ dbFailed' \in BOOLEAN /\ (faults' = faults \/ faults' = faults + 1)
    BY <1>2, FaultIsTyped DEF Pick
  <1>nat. faults \in Nat /\ faults' \in Nat /\ faults \leq faults' /\ MaxRetries \in Nat
          /\ cstatus[c] \in ClientStatus /\ gor[c].count \in Nat
    BY <1>2, <1>fault, InvParts DEF Goroutine
  <1>8. Sound(c)'
    <2>1. CASE h = Idle
      <3>1. h \in Goroutine /\ h.pc = "none" /\ h.st = "running" /\ h.round = 0
        BY <2>1 DEF Idle, Goroutine
      <3>2. /\ Held(R, h) /\ Completed(R, cstatus[c], h, aged[c])
            /\ Bounded(R, cstatus[c], fcount[c], h, faults') /\ ~Busy(h)
        BY <1>2, <1>7, <1>nat, <3>1 DEF Good, Held, Completed, Bounded, Busy
      <3>3. Good(R, cstatus[c], fcount[c], h, aged[c], faults')
        BY <1>2, <1>7, <1>nat, <3>1, <3>2, RoundsStay
      <3>4. QED
        BY <1>1, <1>5, <3>3 DEF Sound
    <2>2. CASE h # Idle
      <3>1. h = [gor[c] EXCEPT !.pc = "wait", !.round = Len(R)] /\ gor[c].st = "running" /\ Len(R) > 0
        BY <1>4, <1>6, <2>2
      <3>2. h \in Goroutine /\ h.pc = "wait" /\ h.round = Len(R) /\ h.st = "running"
            /\ h.count = gor[c].count
        BY <1>2, <3>1 DEF Goroutine
      <3>3. ~Follows(R, h.round)
        BY <1>2, <1>7, <3>2, LastIsNotFollowed DEF Good
      <3>4. gor[c].count \leq MaxRetries
        BY <1>1, <1>7, <3>1 DEF Good, Bounded
      <3>5. /\ Held(R, h) /\ Completed(R, cstatus[c], h, aged[c])
            /\ Bounded(R, cstatus[c], fcount[c], h, faults')
        BY <1>2, <1>7, <1>nat, <3>1, <3>2, <3>4 DEF Good, Held, Completed, Bounded
      <3>6. Good(R, cstatus[c], fcount[c], h, aged[c], faults')
        BY <1>2, <1>7, <1>nat, <3>2, <3>3, <3>5, RoundsStay
      <3>7. QED
        BY <1>1, <1>5, <3>6 DEF Sound
    <2>3. QED
      BY <2>1, <2>2
  <1>9. Columns'
    <2>1. gor' = [d \in Client |-> gor'[d]]
      BY <1>2, <1>4 DEF Columns
    <2>2. QED
      BY <1>1, <1>2, <1>fault, <2>1, Zenon DEF Columns
  <1>10. QED
    BY <1>1, <1>5, <1>8, <1>9, <1>fault, RowsStay

\* A goroutine's copy is stored, or the statement ends with an error and only the copy is
\* sure to be kept.
LEMMA StoreStep ==
  ASSUME RoundsInv, NEW c \in Client, NEW g \in Goroutine, NEW pc \in {"pick", "retry"},
         Store(c, g, pc), UNCHANGED <<rounds, lastID, aged, cleaner>>,
         Busy(gor[c]), g.round = gor[c].round, gor[c].count \leq g.count,
         g.st = "success" => Done(rounds[c], aged[c]) /\ g.round = Len(rounds[c]),
         g.st # "failed" => g.count \leq MaxRetries,
         g.st = "failed" => /\ g.count \leq MaxRetries + 1 + faults /\ pc = "pick"
                            /\ rounds[c][g.round].st \in {"failed", "deleted"},
         pc = "retry" => Left(rounds[c][g.round]) /\ gor[c].count < g.count
  PROVE  RoundsInv'
  <1> DEFINE R == rounds[c]
  <1>1. Columns /\ Sound(c) /\ Len(R) \in Nat /\ gor[c] \in Goroutine /\ fcount[c] \in Nat
        /\ cstatus[c] \in ClientStatus /\ faults \in Nat /\ MaxRetries \in Nat
    BY InvParts
  <1>2. Good(R, cstatus[c], fcount[c], gor[c], aged[c], faults)
    BY <1>1 DEF Sound
  <1>3. gor[c].count \in Nat /\ fcount[c] \leq gor[c].count /\ g.count \in Nat /\ g.round \in Nat
        /\ fcount[c] \leq g.count /\ gor[c].pc # "none"
    BY <1>1, <1>2 DEF Goroutine, Good, Counted, Busy
  <1>4. ASSUME NEW q \in {"pick", "retry", "wait"}
        PROVE  /\ [g EXCEPT !.pc = q] \in Goroutine /\ [g EXCEPT !.pc = q].pc = q
               /\ [g EXCEPT !.pc = q].round = g.round /\ [g EXCEPT !.pc = q].st = g.st
               /\ [g EXCEPT !.pc = q].count = g.count
    BY DEF Goroutine
  <1>5. /\ faults' \in 0..MaxFaults /\ dbFailed' \in BOOLEAN
        /\ faults' = faults \/ faults' = faults + 1
    <2>1. NoFault \/ DBFails
      BY DEF Store
    <2>2. QED
      BY <1>1, <2>1, FaultIsTyped
  <1>6. PICK q \in {pc, "wait"} :
          /\ gor' = [gor EXCEPT ![c] = [g EXCEPT !.pc = q]]
          /\ UpdateClientTask(c, g) \/ UNCHANGED <<cstatus, fcount, cold>>
          /\ q = "wait" => faults' = faults + 1
          /\ q # "wait" => UpdateClientTask(c, g)
    BY DEF Store, DBFails
  <1> DEFINE h == [g EXCEPT !.pc = q]
  <1>7. h \in Goroutine /\ h.pc = q /\ h.round = g.round /\ h.st = g.st /\ h.count = g.count
    BY <1>4
  <1> HIDE DEF h
  <1>8. gor'[c] = h /\ \A d \in Client \ {c} : gor'[d] = gor[d]
    BY <1>1, <1>6 DEF Columns, h
  <1>9. Held(R, h)
    BY <1>2, <1>7 DEF Good, Held, Busy
  <1>10. ASSUME NEW s \in ClientStatus, s \in {"deleted", g.st, cstatus[c]}
         PROVE  Completed(R, s, h, aged[c])
    <2>1. Completed(R, cstatus[c], gor[c], aged[c])
      BY <1>2 DEF Good
    <2>2. h.pc # "renamed"
      BY <1>6, <1>7
    <2>3. s = "success" => s = g.st \/ s = cstatus[c]
      BY <1>10
    <2>4. QED
      BY <1>7, <2>1, <2>2, <2>3 DEF Completed
  <1>11. ASSUME NEW n \in Nat, NEW s, n \in {fcount[c], g.count},
                s \in {"absent", "running"} => n \leq MaxRetries
         PROVE  Bounded(R, s, n, h, faults')
    <2>1. fcount[c] \leq MaxRetries + 1 + faults /\ faults' \in Nat /\ faults \leq faults'
      BY <1>1, <1>2, <1>5 DEF Good, Bounded
    <2>2. g.count \leq MaxRetries + 1 + faults
      BY <1>1, <1>3
    <2>3. n \leq MaxRetries + 1 + faults'
      BY <1>1, <1>3, <1>11, <2>1, <2>2
    <2>4. h.st # "failed" => h.count \leq MaxRetries
      BY <1>7
    <2>5. h.st = "failed" => /\ h.count \leq MaxRetries + 1 + faults'
                             /\ h.pc # "pick" => /\ h.pc = "wait" /\ R[h.round].st \in {"failed", "deleted"}
                                                 /\ h.count \leq MaxRetries + faults'
      <3>1. HAVE h.st = "failed"
      <3>2. pc = "pick" /\ R[h.round].st \in {"failed", "deleted"}
        BY <1>7, <3>1
      <3>3. h.pc # "pick" => q = "wait" /\ faults' = faults + 1
        BY <1>6, <1>7, <3>2
      <3>4. QED
        BY <1>1, <1>3, <1>7, <2>1, <2>2, <3>2, <3>3
    <2>6. QED
      BY <1>11, <2>3, <2>4, <2>5 DEF Bounded
  <1>12. /\ cstatus'[c] \in ClientStatus /\ cstatus'[c] \in {"deleted", g.st, cstatus[c]}
         /\ fcount'[c] \in {fcount[c], g.count} /\ fcount'[c] \in Nat
         /\ q # "wait" => fcount'[c] = g.count
         /\ cstatus'[c] \in {"absent", "running"} => fcount'[c] \leq MaxRetries
    <2>1. g.st \in ClientStatus
      BY DEF Goroutine, ClientStatus
    <2>2. CASE UpdateClientTask(c, g)
      <3>1. fcount'[c] = g.count /\ cstatus'[c] = IF cstatus[c] = "deleted" THEN "deleted" ELSE g.st
        BY <1>1, <2>2 DEF Columns, UpdateClientTask
      <3>2. QED
        BY <1>1, <1>3, <2>1, <3>1
    <2>3. CASE UNCHANGED <<cstatus, fcount, cold>> /\ q = "wait"
      <3>1. cstatus'[c] = cstatus[c] /\ fcount'[c] = fcount[c]
        BY <2>3
      <3>2. cstatus[c] \in {"absent", "running"} => fcount[c] \leq MaxRetries
        BY <1>2 DEF Good, Bounded
      <3>3. QED
        BY <1>1, <2>3, <3>1, <3>2
    <2>4. QED
      BY <1>6, <2>2, <2>3
  <1>13. Good(R, cstatus'[c], fcount'[c], h, aged[c], faults')
    <2>1. /\ faults' \in Nat /\ faults \leq faults' /\ fcount[c] \leq fcount'[c] /\ fcount'[c] \leq h.count
      BY <1>1, <1>3, <1>5, <1>7, <1>12
    <2>2. h.pc = "retry" => fcount[c] < fcount'[c]
      <3>1. h.pc = "retry" => q # "wait" /\ pc = "retry"
        BY <1>6, <1>7
      <3>2. QED
        BY <1>1, <1>3, <1>12, <3>1
    <2>3. Completed(R, cstatus'[c], h, aged[c]) /\ Bounded(R, cstatus'[c], fcount'[c], h, faults')
      BY <1>10, <1>11, <1>12
    <2> HIDE DEF R
    <2>4. QED
      BY <1>2, <1>7, <1>9, <1>12, <2>1, <2>2, <2>3, RoundsStay
  <1>14. Sound(c)'
    BY <1>8, <1>13 DEF Sound
  <1>15. Columns'
    <2>1. gor' = [d \in Client |-> gor'[d]]
      BY <1>1, <1>6 DEF Columns
    <2>2. /\ fcount' = [d \in Client |-> fcount'[d]]
          /\ cstatus' = [d \in Client |-> cstatus'[d]] /\ cold' \subseteq Client
      <3>1. CASE UpdateClientTask(c, g)
        BY <1>1, <3>1 DEF Columns, UpdateClientTask
      <3>2. CASE UNCHANGED <<cstatus, fcount, cold>>
        BY <1>1, <3>2 DEF Columns
      <3>3. QED
        BY <1>6, <3>1, <3>2
    <2>3. QED
      BY <1>1, <1>5, <2>1, <2>2, Zenon DEF Columns
  <1>16. \A d \in Client \ {c} : cstatus'[d] = cstatus[d] /\ fcount'[d] = fcount[d]
    <2>1. CASE UpdateClientTask(c, g)
      BY <1>1, <2>1 DEF Columns, UpdateClientTask
    <2>2. CASE UNCHANGED <<cstatus, fcount, cold>>
      BY <2>2
    <2>3. QED
      BY <1>6, <2>1, <2>2
  <1>17. QED
    BY <1>5, <1>8, <1>14, <1>15, <1>16, RowsStay

\* What is known of a goroutine that holds a round.
LEMMA BusyGoroutine ==
  ASSUME RoundsInv, NEW c \in Client, Busy(gor[c])
  PROVE  /\ Good(rounds[c], cstatus[c], fcount[c], gor[c], aged[c], faults)
         /\ gor[c] \in Goroutine /\ gor[c].round \in 1..Len(rounds[c]) /\ gor[c].count \in Nat
         /\ fcount[c] \leq gor[c].count
         /\ rounds[c][gor[c].round] \in RoundRecord
         /\ Fits(rounds[c], aged[c], gor[c].round)
         /\ rounds[c][gor[c].round].finish => gor[c].round = Len(rounds[c])
         /\ gor[c].pc # "wait" \/ rounds[c][gor[c].round].st = "downloaded" =>
              gor[c].st # "failed" /\ gor[c].count \leq MaxRetries
  <1>1. Sound(c) /\ gor[c] \in Goroutine /\ Len(rounds[c]) \in Nat /\ rounds[c] \in Seq(RoundRecord)
    BY InvParts
  <1>2. Good(rounds[c], cstatus[c], fcount[c], gor[c], aged[c], faults)
    BY <1>1 DEF Sound
  <1>3. gor[c].round \in 1..Len(rounds[c])
        /\ (rounds[c][gor[c].round].finish => gor[c].round = Len(rounds[c]))
    BY <1>1, <1>2 DEF Good, Held, Goroutine, Left
  <1>4. gor[c].pc \notin {"none", "pick"} /\ gor[c].count \in Nat /\ fcount[c] \leq gor[c].count
    BY <1>1, <1>2 DEF Busy, Goroutine, Good, Counted
  <1>5. gor[c].pc # "wait" \/ rounds[c][gor[c].round].st = "downloaded" =>
          gor[c].st # "failed" /\ gor[c].count \leq MaxRetries
    BY <1>2, <1>4 DEF Good, Bounded
  <1>6. rounds[c][gor[c].round] \in RoundRecord /\ Fits(rounds[c], aged[c], gor[c].round)
    BY <1>1, <1>2, <1>3 DEF Good, Ordered
  <1>7. QED
    BY <1>1, <1>2, <1>3, <1>4, <1>5, <1>6

\* The goroutine counts the failure of its round.
LEMMA CountFailureStep ==
  ASSUME RoundsInv, NEW c \in Client, CountFailure(c)
  PROVE  RoundsInv'
  <1> DEFINE n == gor[c].count + 1
             q == IF TooMany(n) THEN "failed" ELSE gor[c].st
             g == [gor[c] EXCEPT !.count = n, !.st = q]
             pc == IF q = "failed" THEN "pick" ELSE "retry"
  <1>1. gor[c].pc = "wait" /\ rounds[c][gor[c].round].st = "failed" /\ Busy(gor[c])
        /\ Store(c, g, pc) /\ UNCHANGED <<rounds, lastID, aged, cleaner>>
    BY DEF CountFailure, At, Current, Busy
  <1>2. Good(rounds[c], cstatus[c], fcount[c], gor[c], aged[c], faults) /\ gor[c] \in Goroutine
        /\ gor[c].count \in Nat /\ Fits(rounds[c], aged[c], gor[c].round)
    BY <1>1, BusyGoroutine
  <1>3. gor[c].st \in {"running", "success", "failed"} /\ n \in Nat /\ faults \in Nat /\ MaxRetries \in Nat
    BY <1>2, InvParts DEF Goroutine
  <1>4. g \in Goroutine /\ g.round = gor[c].round /\ g.count = n /\ g.st = q
    BY <1>2, <1>3 DEF Goroutine
  <1>5. g.st = "success" => Done(rounds[c], aged[c]) /\ g.round = Len(rounds[c])
    BY <1>1, <1>2, <1>4 DEF Good, Completed
  <1>6. gor[c].count \leq MaxRetries + faults
    BY <1>1, <1>2, <1>3 DEF Good, Bounded
  <1>7. pc \in {"pick", "retry"} /\ (q = "failed" => pc = "pick" /\ n \leq MaxRetries + 1 + faults)
        /\ (q # "failed" => n \leq MaxRetries)
    BY <1>2, <1>3, <1>6 DEF TooMany
  <1>8. Left(rounds[c][gor[c].round])
    BY <1>1, <1>2 DEF Fits, Left
  <1>9. n = gor[c].count + 1 /\ gor[c].count < n /\ gor[c].count \leq n
    BY <1>2
  <1> HIDE DEF n, q, g, pc
  <1>10. QED
    BY <1>1, <1>4, <1>5, <1>7, <1>8, <1>9, StoreStep

\* The client task is completed, after the file has been renamed.
LEMMA CompleteStep ==
  ASSUME RoundsInv, NEW c \in Client, Complete(c) \/ CompleteAgain(c)
  PROVE  RoundsInv'
  <1> DEFINE g == [gor[c] EXCEPT !.st = "success"]
  <1>1. Columns /\ Busy(gor[c]) /\ Len(rounds[c]) \in Nat /\ fcount[c] \in Nat
        /\ cstatus[c] \in ClientStatus /\ faults \in Nat
    BY InvParts DEF Complete, CompleteAgain, At, Busy
  <1>2. Good(rounds[c], cstatus[c], fcount[c], gor[c], aged[c], faults) /\ gor[c] \in Goroutine
        /\ gor[c].count \in Nat /\ Fits(rounds[c], aged[c], gor[c].round)
        /\ gor[c].round \in 1..Len(rounds[c]) /\ fcount[c] \leq gor[c].count
        /\ (rounds[c][gor[c].round].finish => gor[c].round = Len(rounds[c]))
        /\ (gor[c].pc # "wait" \/ rounds[c][gor[c].round].st = "downloaded" =>
              gor[c].st # "failed" /\ gor[c].count \leq MaxRetries)
    BY <1>1, BusyGoroutine
  <1>3. g \in Goroutine /\ g.round = gor[c].round /\ g.count = gor[c].count /\ g.st = "success"
    BY <1>2 DEF Goroutine
  <1>4. Done(rounds[c], aged[c]) /\ gor[c].round = Len(rounds[c])
        /\ gor[c].st # "failed" /\ gor[c].count \leq MaxRetries
    <2>1. CASE Complete(c)
      <3>1. gor[c].pc = "renamed"
        BY <2>1 DEF Complete, At
      <3>2. QED
        BY <1>1, <1>2, <3>1 DEF Good, Completed
    <2>2. CASE CompleteAgain(c)
      <3>1. rounds[c][gor[c].round].st = "downloaded" /\ rounds[c][gor[c].round].file = "result"
        BY <2>2 DEF CompleteAgain, Current
      <3>2. QED
        BY <1>1, <1>2, <3>1 DEF Fits, Done
    <2>3. QED
      BY <2>1, <2>2
  <1>5. CASE Store(c, g, "pick") /\ UNCHANGED <<rounds, lastID, aged, cleaner>>
    <2> HIDE DEF g
    <2>1. gor[c].count \leq g.count
      BY <1>2, <1>3
    <2>2. QED
      BY <1>1, <1>3, <1>4, <1>5, <2>1, StoreStep
  <1>6. CASE CompleteAgain(c) /\ gor[c].st = "success"
    <2> DEFINE h == [gor[c] EXCEPT !.pc = "pick"]
    <2>1. gor' = [gor EXCEPT ![c] = h]
          /\ UNCHANGED <<cstatus, fcount, cold, faults, dbFailed, rounds, lastID, aged, cleaner>>
      BY <1>1, <1>6 DEF CompleteAgain, At, Goto, Columns
    <2>2. h \in Goroutine /\ h.pc = "pick" /\ h.round = gor[c].round /\ h.st = "success"
          /\ h.count = gor[c].count
      BY <1>2, <1>6 DEF Goroutine
    <2>3. gor'[c] = h /\ gor' = [d \in Client |-> gor'[d]] /\ \A d \in Client \ {c} : gor'[d] = gor[d]
      BY <1>1, <2>1 DEF Columns
    <2> HIDE DEF h
    <2>4. Good(rounds[c], cstatus[c], fcount[c], h, aged[c], faults)
      <3>1. /\ Held(rounds[c], h) /\ Completed(rounds[c], cstatus[c], h, aged[c])
            /\ Bounded(rounds[c], cstatus[c], fcount[c], h, faults) /\ ~Busy(h)
            /\ fcount[c] \leq h.count /\ fcount[c] \leq fcount[c] /\ faults \leq faults
        BY <1>1, <1>2, <1>4, <2>2 DEF Good, Held, Completed, Bounded, Busy
      <3>2. QED
        BY <1>1, <1>2, <2>2, <3>1, RoundsStay
    <2>5. Sound(c)'
      BY <2>1, <2>3, <2>4 DEF Sound
    <2>6. Columns'
      BY <1>1, <2>1, <2>3, Zenon DEF Columns
    <2>7. QED
      BY <2>1, <2>3, <2>5, <2>6, RowsStay
  <1>7. QED
    BY <1>5, <1>6 DEF Complete, CompleteAgain

\* A round is added, or its statement ends with an error and the goroutine starts over.
LEMMA SaveRoundStep ==
  ASSUME RoundsInv, NEW c \in Client, Retry(c) \/ Continue(c)
  PROVE  RoundsInv'
  <1> DEFINE R == rounds[c]
             at(q) == [gor[c] EXCEPT !.pc = q]
  <1>1. SaveRound(c) /\ UNCHANGED <<cstatus, fcount, lastID, aged, cold, cleaner>> /\ Busy(gor[c])
        /\ (gor[c].pc = "retry" \/ (gor[c].pc = "wait" /\ R[gor[c].round].st = "downloaded"
                                    /\ ~R[gor[c].round].finish))
    BY DEF Retry, Continue, At, Current, cleanVars, Busy
  <1>2. Columns /\ Len(R) \in Nat /\ aged[c] \in Nat /\ R \in Seq(RoundRecord) /\ fcount[c] \in Nat
        /\ cstatus[c] \in ClientStatus /\ faults \in Nat /\ MaxRetries \in Nat
    BY InvParts
  <1>3. Good(R, cstatus[c], fcount[c], gor[c], aged[c], faults) /\ gor[c] \in Goroutine
        /\ fcount[c] \leq gor[c].count /\ gor[c].count \in Nat
        /\ gor[c].st # "failed" /\ gor[c].count \leq MaxRetries
    BY <1>1, BusyGoroutine
  <1>4. PICK q \in {"pick", "wait"} :
          /\ gor' = [gor EXCEPT ![c] = at(q)]
          /\ rounds' = [rounds EXCEPT ![c] = Append(R, Round(gor[c].round))]
             \/ (UNCHANGED rounds /\ q = "wait")
          /\ q = "wait" => faults' = faults + 1
          /\ NoFault \/ DBFails
    <2>1. \A p : Goto(c, p) <=> gor' = [gor EXCEPT ![c] = at(p)]
      BY <1>2 DEF Goto, Columns
    <2>2. AddRound(c) <=> rounds' = [rounds EXCEPT ![c] = Append(R, Round(gor[c].round))]
      BY <1>2 DEF AddRound, Columns
    <2>3. CASE AddRound(c) /\ Goto(c, "pick") /\ NoFault
      BY <2>1, <2>2, <2>3
    <2>4. CASE DBFails /\ Goto(c, "wait") /\ (AddRound(c) \/ UNCHANGED rounds)
      BY <2>1, <2>2, <2>4 DEF DBFails
    <2>5. QED
      BY <1>1, <2>3, <2>4 DEF SaveRound, Added
  <1>5. /\ faults' \in 0..MaxFaults /\ dbFailed' \in BOOLEAN
        /\ faults' = faults \/ faults' = faults + 1
    BY <1>2, <1>4, FaultIsTyped
  <1>6. at(q) \in Goroutine /\ at(q).pc = q /\ at(q).round = gor[c].round
        /\ at(q).st = gor[c].st /\ at(q).count = gor[c].count
    BY <1>3 DEF Goroutine
  <1>7. gor'[c] = at(q) /\ gor' = [d \in Client |-> gor'[d]] /\ \A d \in Client \ {c} : gor'[d] = gor[d]
    BY <1>2, <1>4 DEF Columns
  <1>8. faults' \in Nat /\ faults \leq faults' /\ (q = "wait" => faults < faults')
    BY <1>2, <1>4, <1>5
  <1>9. CASE rounds' = [rounds EXCEPT ![c] = Append(R, Round(gor[c].round))]
    <2>1. rounds'[c] = Append(R, Round(gor[c].round))
          /\ rounds' = [d \in Client |-> rounds'[d]] /\ \A d \in Client \ {c} : rounds'[d] = rounds[d]
      BY <1>2, <1>9 DEF Columns
    <2>2. Good(Append(R, Round(gor[c].round)), cstatus[c], fcount[c], at(q), aged[c], faults')
      <3> HIDE DEF R
      <3>1. QED
        BY <1>1, <1>3, <1>8, RoundAdded
    <2>3. Sound(c)'
      <3> HIDE DEF R, at
      <3>1. Good(rounds'[c], cstatus[c], fcount[c], gor'[c], aged[c], faults')
        BY <1>7, <2>1, <2>2
      <3>2. QED
        BY <1>1, <3>1 DEF Sound
    <2>4. Columns'
      BY <1>1, <1>2, <1>5, <1>7, <2>1, Zenon DEF Columns
    <2>5. Len(R) \leq Len(rounds'[c]) /\ \A i \in 1..Len(R) : rounds'[c][i] = R[i]
      BY <1>2, <2>1
    <2> HIDE DEF at
    <2>6. QED
      BY <1>1, <1>2, <1>5, <1>7, <2>1, <2>3, <2>4, <2>5, OneClient
  <1>10. CASE UNCHANGED rounds /\ q = "wait"
    <2> DEFINE h == at(q)
    <2>1. h \in Goroutine /\ h.pc = "wait" /\ h.round = gor[c].round /\ h.st = gor[c].st
          /\ h.count = gor[c].count
      BY <1>6, <1>10
    <2> HIDE DEF h
    <2>2. Held(R, h) /\ Completed(R, cstatus[c], h, aged[c])
          /\ Bounded(R, cstatus[c], fcount[c], h, faults')
      BY <1>1, <1>2, <1>3, <1>8, <2>1 DEF Good, Held, Completed, Bounded, Busy
    <2>3. Good(R, cstatus[c], fcount[c], h, aged[c], faults')
      <3>1. fcount[c] \leq fcount[c]
        BY <1>2
      <3> HIDE DEF R
      <3>2. QED
        BY <1>1, <1>2, <1>3, <1>8, <2>1, <2>2, <3>1, RoundsStay
    <2>4. Sound(c)'
      BY <1>1, <1>7, <1>10, <2>3 DEF Sound, h
    <2>5. Columns'
      BY <1>1, <1>2, <1>5, <1>7, <1>10, Zenon DEF Columns
    <2> HIDE DEF at
    <2>6. QED
      BY <1>1, <1>5, <1>7, <1>10, <2>4, <2>5, RowsStay
  <1>11. QED
    BY <1>4, <1>9, <1>10

\* The finished checkpoint is renamed.
LEMMA RenameStep ==
  ASSUME RoundsInv, NEW c \in Client, Rename(c)
  PROVE  RoundsInv'
  <1> DEFINE R == rounds[c]
             k == gor[c].round
             r == [R[k] EXCEPT !.file = "result"]
             Q == [R EXCEPT ![k] = r]
             h == [gor[c] EXCEPT !.pc = "renamed"]
  <1>1. Columns /\ Len(R) \in Nat /\ aged[c] \in Nat /\ R \in Seq(RoundRecord) /\ fcount[c] \in Nat
        /\ cstatus[c] \in ClientStatus /\ faults \in Nat
    BY InvParts
  <1>2. gor[c].pc = "wait" /\ R[k].st = "downloaded" /\ R[k].finish /\ Busy(gor[c])
        /\ UNCHANGED <<cstatus, fcount, lastID, aged, cold, cleaner, faults, dbFailed>>
    BY DEF Rename, At, Current, cleanVars, Busy
  <1>3. rounds' = [rounds EXCEPT ![c] = Q] /\ gor' = [gor EXCEPT ![c] = h]
    BY <1>1 DEF Rename, Goto, Columns
  <1>4. /\ rounds'[c] = Q /\ gor'[c] = h
        /\ rounds' = [d \in Client |-> rounds'[d]] /\ gor' = [d \in Client |-> gor'[d]]
        /\ \A d \in Client \ {c} : rounds'[d] = rounds[d] /\ gor'[d] = gor[d]
    BY <1>1, <1>3 DEF Columns
  <1>5. /\ Good(R, cstatus[c], fcount[c], gor[c], aged[c], faults) /\ gor[c] \in Goroutine
        /\ k \in 1..Len(R) /\ k = Len(R) /\ R[k] \in RoundRecord /\ fcount[c] \leq gor[c].count
        /\ gor[c].st # "failed" /\ gor[c].count \leq MaxRetries
    BY <1>2, BusyGoroutine
  <1>6. r \in RoundRecord /\ r.st = "downloaded" /\ r.finish = R[k].finish /\ r.after = R[k].after
        /\ r.file = "result"
    BY <1>2, <1>5 DEF RoundRecord
  <1>7. h \in Goroutine /\ h.pc = "renamed" /\ h.round = k /\ h.count = gor[c].count /\ h.st = gor[c].st
    BY <1>5 DEF Goroutine
  <1> HIDE DEF R, k, r, h
  <1>8. /\ Q \in Seq(RoundRecord) /\ Len(Q) = Len(R)
        /\ \A i \in 1..Len(R) : Q[i] = IF i = k THEN r ELSE R[i]
    BY <1>1, <1>5, <1>6, OneRoundChanges
  <1> HIDE DEF Q
  <1>9. Good(Q, cstatus[c], fcount[c], gor[c], aged[c], faults)
    <2>1. \A i \in 1..Len(R) : /\ Q[i].after = R[i].after /\ Q[i].finish = R[i].finish
                               /\ Q[i].st = R[i].st
                               /\ Q[i].file = R[i].file \/ (Q[i].file = "result" /\ R[i].finish)
      BY <1>2, <1>6, <1>8
    <2>2. QED
      BY <1>5, <1>8, <2>1, RoundsAreMarked
  <1>10. Good(Q, cstatus[c], fcount[c], h, aged[c], faults)
    <2>1. Done(Q, aged[c]) /\ h.round = Len(Q)
      <3>1. Q[k] = r /\ k = Len(Q) /\ k > 0
        BY <1>1, <1>5, <1>8
      <3>2. QED
        BY <1>2, <1>6, <1>7, <3>1 DEF Done
    <2>2. Held(Q, h) /\ Completed(Q, cstatus[c], h, aged[c]) /\ Bounded(Q, cstatus[c], fcount[c], h, faults)
      <3>1. Held(Q, h)
        BY <1>1, <1>5, <1>7, <1>8, <2>1 DEF Held
      <3>2. Completed(Q, cstatus[c], h, aged[c])
        BY <2>1 DEF Completed
      <3>3. Bounded(Q, cstatus[c], fcount[c], h, faults)
        BY <1>5, <1>7, <1>9 DEF Good, Bounded
      <3>4. QED
        BY <3>1, <3>2, <3>3
    <2>3. fcount[c] \leq fcount[c] /\ faults \leq faults /\ fcount[c] \leq h.count /\ gor[c].round = h.round
      BY <1>1, <1>5, <1>7 DEF k
    <2>4. QED
      BY <1>1, <1>2, <1>7, <1>9, <2>2, <2>3, RoundsStay
  <1>11. Sound(c)'
    BY <1>2, <1>4, <1>10 DEF Sound
  <1>12. Columns'
    BY <1>1, <1>2, <1>4, Zenon DEF Columns
  <1>13. Len(R) \leq Len(rounds'[c]) /\ aged[c] \leq aged'[c]
         /\ \A i \in 1..Len(R) : R[i].st = "deleted" => rounds'[c][i].st = "deleted"
    BY <1>1, <1>2, <1>4, <1>8
  <1>14. QED
    BY <1>2, <1>4, <1>11, <1>12, <1>13, OneClient DEF R

\* The bridge restarts: the goroutines are gone.
LEMMA CrashStep ==
  ASSUME RoundsInv, Crash
  PROVE  RoundsInv'
  <1>1. gor' = [c \in Client |-> Idle] /\ lastID' = 0 /\ cleaner' = Resting
        /\ UNCHANGED <<cstatus, fcount, rounds, aged, cold, dbFailed>>
    BY DEF Crash, FirstID
  <1>2. Columns'
    <2>1. Columns
      BY DEF RoundsInv
    <2>2. gor' = [c \in Client |-> gor'[c]]
      BY <1>1
    <2>3. lastID' \in Client \cup {0} /\ faults' \in 0..MaxFaults
      BY <1>1, <2>1, RoundsAssumption DEF Columns, Crash
    <2>4. QED
      BY <1>1, <2>1, <2>2, <2>3, Zenon DEF Columns
  <1>3. Batch'
    BY <1>1 DEF Batch, Resting, Refs
  <1>4. ASSUME NEW c \in Client PROVE Sound(c)'
    <2>1. Sound(c) /\ fcount[c] \in Nat /\ Len(rounds[c]) \in Nat
      BY InvParts
    <2>2. Idle \in Goroutine /\ Idle.pc = "none" /\ Idle.st = "running" /\ Idle.round = 0
      BY DEF Idle, Goroutine
    <2>3. Good(rounds[c], cstatus[c], fcount[c], gor[c], aged[c], faults)
      BY <2>1 DEF Sound
    <2>4. faults \in Nat /\ faults' \in Nat /\ faults \leq faults' /\ cstatus[c] \in ClientStatus
          /\ MaxRetries \in Nat
      BY InvParts DEF Crash
    <2>5. /\ Held(rounds[c], Idle) /\ Completed(rounds[c], cstatus[c], Idle, aged[c])
          /\ Bounded(rounds[c], cstatus[c], fcount[c], Idle, faults') /\ ~Busy(Idle)
      BY <2>1, <2>2, <2>3, <2>4 DEF Good, Held, Completed, Bounded, Busy
    <2>6. Good(rounds[c], cstatus[c], fcount[c], Idle, aged[c], faults')
      BY <2>1, <2>2, <2>3, <2>4, <2>5, RoundsStay
    <2>7. gor'[c] = Idle
      BY <1>1
    <2>8. QED
      BY <1>1, <2>6, <2>7 DEF Sound
  <1>5. QED
    BY <1>2, <1>3, <1>4 DEF RoundsInv, Sound

\* Rounds and client tasks grow old.
LEMMA ExpireStep ==
  ASSUME RoundsInv, NEW c \in Client, RowExpires(c) \/ ClientTaskExpires(c)
  PROVE  RoundsInv'
  <1>1. Columns /\ Sound(c) /\ Len(rounds[c]) \in Nat /\ aged[c] \in Nat
    BY InvParts
  <1>2. CASE RowExpires(c)
    <2>1. aged' = [aged EXCEPT ![c] = aged[c] + 1] /\ aged[c] < Len(rounds[c])
          /\ rounds[c][aged[c] + 1].st # "open"
          /\ UNCHANGED <<cstatus, fcount, rounds, lastID, gor, cold, cleaner, faults, dbFailed>>
      BY <1>2 DEF RowExpires
    <2>2. /\ aged'[c] = aged[c] + 1 /\ aged' = [d \in Client |-> aged'[d]]
          /\ \A d \in Client \ {c} : aged'[d] = aged[d]
      BY <1>1, <2>1 DEF Columns
    <2>3. Good(rounds[c], cstatus[c], fcount[c], gor[c], aged[c] + 1, faults)
      BY <1>1, <2>1, RoundExpires DEF Sound
    <2>4. Sound(c)'
      BY <2>1, <2>2, <2>3 DEF Sound
    <2>5. Columns'
      BY <1>1, <2>1, <2>2, Zenon DEF Columns
    <2>6. QED
      BY <1>1, <2>1, <2>2, <2>4, <2>5, OneClient
  <1>3. CASE ClientTaskExpires(c)
    <2>1. cold' \subseteq Client
          /\ UNCHANGED <<cstatus, fcount, rounds, lastID, gor, aged, cleaner, faults, dbFailed>>
      BY <1>1, <1>3 DEF ClientTaskExpires, Columns
    <2>2. QED
      BY <1>1, <2>1, RowsStay DEF Sound, Columns
  <1>4. QED
    BY <1>2, <1>3

\* The cleanup removes directories S and rows D of rounds that have expired.
LEMMA RemoveKeeps ==
  ASSUME RoundsInv, NEW S, NEW D, Remove(S, D),
         UNCHANGED <<cstatus, fcount, gor, aged>>, faults' = faults \/ faults' = faults + 1,
         \A c \in Client : \A i \in 1..Len(rounds[c]) :
           /\ <<c, i>> \in S => i \leq aged[c] \/ rounds[c][i].st = "deleted"
           /\ <<c, i>> \in D => i \leq aged[c] /\ \A j \in 1..i : <<c, j>> \in D \/ ~Has(c, j)
  PROVE  /\ rounds' = [c \in Client |-> rounds'[c]]
         /\ \A c \in Client :
              /\ Sound(c)' /\ Len(rounds'[c]) = Len(rounds[c])
              /\ \A i \in 1..Len(rounds[c]) :
                   rounds'[c][i].st = IF <<c, i>> \in D THEN "deleted" ELSE rounds[c][i].st
  <1> DEFINE mark(c, i) == [rounds[c][i] EXCEPT
                              !.file = IF <<c, i>> \in S THEN "none" ELSE rounds[c][i].file,
                              !.st = IF <<c, i>> \in D THEN "deleted" ELSE rounds[c][i].st]
  <1>1. rounds' = [c \in Client |-> [i \in 1..Len(rounds[c]) |-> mark(c, i)]]
    BY DEF Remove
  <1>2. ASSUME NEW c \in Client
        PROVE  /\ Sound(c)' /\ Len(rounds'[c]) = Len(rounds[c])
               /\ \A i \in 1..Len(rounds[c]) :
                    rounds'[c][i].st = IF <<c, i>> \in D THEN "deleted" ELSE rounds[c][i].st
    <2> DEFINE R == rounds[c]
               Q == [i \in 1..Len(R) |-> mark(c, i)]
    <2>1. Sound(c) /\ R \in Seq(RoundRecord) /\ Len(R) \in Nat /\ aged[c] \in Nat
      BY InvParts
    <2>2. ASSUME NEW i \in 1..Len(R)
          PROVE  /\ mark(c, i) \in RoundRecord
                 /\ mark(c, i).after = R[i].after /\ mark(c, i).finish = R[i].finish
                 /\ mark(c, i).st = IF <<c, i>> \in D THEN "deleted" ELSE R[i].st
                 /\ mark(c, i).file = IF <<c, i>> \in S THEN "none" ELSE R[i].file
      <3>1. R[i] \in RoundRecord
        BY <2>1
      <3>2. QED
        BY <3>1 DEF RoundRecord, RoundStatus
    <2> HIDE DEF mark
    <2>3. Q \in Seq(RoundRecord) /\ Len(Q) = Len(R) /\ \A i \in 1..Len(R) : Q[i] = mark(c, i)
      <3>1. Q \in [1..Len(R) -> RoundRecord]
        BY <2>2
      <3>2. QED
        BY <2>1, <3>1
    <2>4. rounds'[c] = Q
      BY <1>1
    <2> HIDE DEF Q
    <2>5. ASSUME NEW i \in 1..Len(R)
          PROVE  /\ Q[i].after = R[i].after /\ Q[i].finish = R[i].finish
                 /\ \/ Q[i].st = R[i].st
                    \/ Q[i].st = "deleted" /\ i \leq aged[c] /\ \A j \in 1..i : Q[j].st = "deleted"
                 /\ \/ Q[i].file = R[i].file
                    \/ Q[i].file = "result" /\ R[i].finish
                    \/ Q[i].file = "none" /\ (i \leq aged[c] \/ R[i].st = "deleted")
      <3>1. CASE <<c, i>> \in D
        <4>1. \A j \in 1..i : j \in 1..Len(R) /\ (<<c, j>> \in D \/ R[j].st = "deleted")
          BY <2>1, <2>5, <3>1 DEF Has
        <4>2. \A j \in 1..i : Q[j].st = "deleted"
          BY <2>2, <2>3, <4>1
        <4>3. i \leq aged[c]
          BY <3>1
        <4>4. QED
          BY <2>2, <2>3, <3>1, <4>2, <4>3
      <3>2. CASE <<c, i>> \notin D
        BY <2>2, <2>3, <3>2
      <3>3. QED
        BY <3>1, <3>2
    <2>6. Good(Q, cstatus[c], fcount[c], gor[c], aged[c], faults')
      <3>1. Good(R, cstatus[c], fcount[c], gor[c], aged[c], faults)
        BY <2>1 DEF Sound
      <3> HIDE DEF R
      <3>2. Good(Q, cstatus[c], fcount[c], gor[c], aged[c], faults)
        BY <2>3, <2>5, <3>1, RoundsAreMarked
      <3>3. faults \in Nat /\ faults' \in Nat /\ faults \leq faults'
        BY InvParts
      <3>4. QED
        BY <3>2, <3>3, LaterFaults
    <2>7. Sound(c)'
      BY <2>4, <2>6 DEF Sound
    <2>8. QED
      BY <2>2, <2>3, <2>4, <2>7
  <1>3. QED
    BY <1>1, <1>2

\* One pass of the cleanup, step by step.
LEMMA CleanStep ==
  ASSUME RoundsInv, Clean
  PROVE  RoundsInv'
  <1>1. Columns /\ Batch
    BY DEF RoundsInv
  <1>2. \A c \in Client : Sound(c) /\ Len(rounds[c]) \in Nat /\ aged[c] \in Nat
    BY InvParts
  <1>3. ASSUME rounds' = [c \in Client |-> rounds'[c]], faults' \in 0..MaxFaults,
               UNCHANGED <<cstatus, fcount, lastID, gor, aged, cold, dbFailed>>
        PROVE  Columns'
    BY <1>1, <1>3, Zenon DEF Columns
  <1>4. CASE CleanDirectories
    <2> DEFINE N == {}
    <2>1. PICK S \in {Expired, {}} : Remove(S, N)
      BY <1>4 DEF CleanDirectories
    <2>2. UNCHANGED <<cstatus, fcount, lastID, gor, aged, cold, dbFailed>>
          /\ cleaner' = [pc |-> "delete", batch |-> Expired] /\ faults' \in 0..MaxFaults
          /\ (faults' = faults \/ faults' = faults + 1)
      BY <1>1, <1>4, RoundsAssumption DEF CleanDirectories, Columns, NoFault
    <2>none. \A p : p \notin N
      OBVIOUS
    <2> HIDE DEF N
    <2>3. \A c \in Client : \A i \in 1..Len(rounds[c]) :
            /\ <<c, i>> \in S => i \leq aged[c] \/ rounds[c][i].st = "deleted"
            /\ <<c, i>> \in N => i \leq aged[c] /\ \A j \in 1..i : <<c, j>> \in N \/ ~Has(c, j)
      BY <2>none DEF Expired
    <2>marked. /\ rounds' = [c \in Client |-> rounds'[c]]
               /\ \A c \in Client :
                    /\ Sound(c)' /\ Len(rounds'[c]) = Len(rounds[c])
                    /\ \A i \in 1..Len(rounds[c]) :
                         rounds'[c][i].st = IF <<c, i>> \in N THEN "deleted" ELSE rounds[c][i].st
      BY <2>1, <2>2, <2>3, RemoveKeeps
    <2>4. /\ rounds' = [c \in Client |-> rounds'[c]]
          /\ \A c \in Client :
               /\ Sound(c)' /\ Len(rounds'[c]) = Len(rounds[c])
               /\ \A i \in 1..Len(rounds[c]) : rounds'[c][i].st = rounds[c][i].st
      BY <2>none, <2>marked
    <2>5. Columns'
      BY <1>3, <2>2, <2>4
    <2>6. Refs' = Refs
      BY <2>4 DEF Refs
    <2>7. ASSUME NEW c \in Client, NEW i \in 1..Len(rounds[c]), <<c, i>> \in Expired
          PROVE  i \leq aged[c] /\ \A j \in 1..i : <<c, j>> \in Expired \/ ~Has(c, j)'
      <3>1. i \leq aged[c]
        BY <2>7 DEF Expired
      <3>2. \A j \in 1..i : j \leq aged[c] /\ j \in 1..Len(rounds[c]) /\ <<c, j>> \in Refs
        BY <1>2, <3>1 DEF Refs
      <3>3. \A j \in 1..i : Has(c, j)' => <<c, j>> \in Expired
        BY <2>4, <3>2 DEF Has, Expired
      <3>4. QED
        BY <3>1, <3>3
    <2>8. Batch'
      <3>1. cleaner'.pc = "delete" /\ cleaner'.batch = Expired /\ Expired \subseteq Refs
        BY <2>2 DEF Expired
      <3>2. QED
        BY <2>2, <2>4, <2>6, <2>7, <3>1 DEF Batch
    <2>9. QED
      BY <2>4, <2>5, <2>8 DEF RoundsInv, Sound
  <1>5. CASE CleanRows
    <2>1. Remove({}, cleaner.batch) /\ cleaner' = [pc |-> "clients", batch |-> {}]
          /\ UNCHANGED <<cstatus, fcount, lastID, gor, aged, cold, faults, dbFailed>>
      BY <1>5 DEF CleanRows
    <2>2. rounds' = [c \in Client |-> rounds'[c]] /\ \A c \in Client : Sound(c)'
      BY <1>1, <2>1, RemoveKeeps DEF Batch
    <2>3. Columns' /\ Batch'
      <3>1. faults' \in 0..MaxFaults
        BY <1>1, <2>1 DEF Columns
      <3>2. QED
        BY <1>3, <2>1, <2>2, <3>1 DEF Batch
    <2>4. QED
      BY <2>2, <2>3 DEF RoundsInv, Sound
  <1>6. CASE CleanClientTasks
    <2>1. cstatus' = [c \in Client |-> IF c \in Abandoned THEN "deleted" ELSE cstatus[c]]
          /\ cleaner' = [pc |-> "orphans", batch |-> {}]
          /\ UNCHANGED <<fcount, rounds, lastID, gor, aged, cold, faults, dbFailed>>
      BY <1>6 DEF CleanClientTasks
    <2>2. Columns'
      <3>1. cstatus' = [c \in Client |-> cstatus'[c]]
        BY <2>1
      <3>2. QED
        BY <1>1, <2>1, <3>1, Zenon DEF Columns
    <2>3. Batch'
      BY <2>1 DEF Batch
    <2>4. ASSUME NEW c \in Client PROVE Sound(c)'
      <3>1. cstatus'[c] \in {cstatus[c], "deleted"} /\ "deleted" \in ClientStatus
        BY <2>1 DEF ClientStatus
      <3>2. Good(rounds[c], cstatus'[c], fcount[c], gor[c], aged[c], faults)
        BY <1>2, <3>1, StatusChanges DEF Sound
      <3>3. QED
        BY <2>1, <3>2 DEF Sound
    <2>5. QED
      BY <2>2, <2>3, <2>4 DEF RoundsInv, Sound
  <1>7. CASE CleanOrphans
    <2> DEFINE S == {p \in Refs : ~Has(p[1], p[2])}
    <2>1. Remove(S, {}) /\ cleaner' = [pc |-> "rows", batch |-> {}]
          /\ UNCHANGED <<cstatus, fcount, lastID, gor, aged, cold, faults, dbFailed>>
      BY <1>7 DEF CleanOrphans, Resting
    <2>2. \A c \in Client : \A i \in 1..Len(rounds[c]) :
            <<c, i>> \in S => rounds[c][i].st = "deleted"
      BY DEF Has
    <2> HIDE DEF S
    <2>3. rounds' = [c \in Client |-> rounds'[c]] /\ \A c \in Client : Sound(c)'
      BY <2>1, <2>2, RemoveKeeps
    <2>4. Columns' /\ Batch'
      <3>1. faults' \in 0..MaxFaults
        BY <1>1, <2>1 DEF Columns
      <3>2. QED
        BY <1>3, <2>1, <2>3, <3>1 DEF Batch
    <2>5. QED
      BY <2>3, <2>4 DEF RoundsInv, Sound
  <1>8. QED
    BY <1>4, <1>5, <1>6, <1>7 DEF Clean

-----------------------------------------------------------------------------
\* Every step keeps the invariant.
LEMMA RoundsStep == RoundsInv /\ [Next]_vars => RoundsInv'
  <1>1. SUFFICES ASSUME RoundsInv, [Next]_vars PROVE RoundsInv'
    OBVIOUS
  <1>2. CASE TakeUp
    BY <1>1, <1>2, TakeUpStep
  <1>3. CASE Crash
    BY <1>1, <1>3, CrashStep
  <1>4. CASE Clean
    BY <1>1, <1>4, CleanStep
  <1>5. ASSUME NEW c \in Client,
               \/ InsertClientTask(c) \/ InsertFirstRow(c) \/ RoundEnds(c)
               \/ ClientStep(c) \/ RowExpires(c) \/ ClientTaskExpires(c)
        PROVE  RoundsInv'
    BY <1>1, <1>5, InsertStep, RoundEndsStep, PickStep, CountFailureStep, SaveRoundStep, RenameStep,
       CompleteStep, ExpireStep DEF ClientStep
  <1>6. CASE UNCHANGED vars
    <2>1. UNCHANGED <<rounds, cstatus, fcount, gor, aged, cleaner, lastID, cold, faults, dbFailed>>
      BY <1>6 DEF vars
    <2>2. QED
      BY <1>1, <2>1 DEF RoundsInv, Columns, Batch, Refs, Has
  <1>7. QED
    BY <1>1, <1>2, <1>3, <1>4, <1>5, <1>6 DEF Next

\* Every reachable state satisfies the invariant: a round follows one that has ended
\* without FINISH, a goroutine holds the last round or one that is to be followed, only
\* a finished checkpoint that is the last round completes the client task, the failures
\* that were retried are counted, and only faults let a round be followed again.
THEOREM RoundsAreOrdered == Spec => []RoundsInv
  <1>1. RoundsInv /\ [Next]_vars => RoundsInv'
    BY RoundsStep
  <1>2. QED
    BY RoundsInit, <1>1, PTL DEF Spec

\* The invariant contains the types.
LEMMA RoundsTyped == RoundsInv => SRTypeOK
  <1>1. SUFFICES ASSUME RoundsInv PROVE SRTypeOK
    OBVIOUS
  <1>2. Columns /\ Batch
    BY <1>1 DEF RoundsInv
  <1>3. \A c \in Client : Sound(c) /\ cstatus[c] \in ClientStatus /\ fcount[c] \in Nat
    BY <1>1, InvParts
  <1>4. cstatus \in [Client -> {"absent", "running", "success", "failed", "deleted"}]
    BY <1>2, <1>3 DEF Columns, ClientStatus
  <1>5. fcount \in [Client -> 0..(MaxRetries + 1 + faults)]
    <2>1. \A c \in Client : fcount[c] \in 0..(MaxRetries + 1 + faults)
      <3>1. SUFFICES ASSUME NEW c \in Client PROVE fcount[c] \in 0..(MaxRetries + 1 + faults)
        OBVIOUS
      <3>2. fcount[c] \leq MaxRetries + 1 + faults /\ fcount[c] \in Nat
        BY <1>3 DEF Sound, Good, Bounded
      <3>3. faults \in Nat /\ MaxRetries \in Nat
        BY <1>1, InvParts
      <3>4. QED
        BY <3>2, <3>3
    <2>2. QED
      BY <1>2, <2>1 DEF Columns
  <1>6. ASSUME NEW c \in Client
        PROVE  /\ aged[c] \in 0..Len(rounds[c])
               /\ \A i \in 1..Len(rounds[c]) :
                    rounds[c][i] \in [st : {"open", "failed", "downloaded", "deleted"}, after : 0..(i - 1),
                                      finish : BOOLEAN, file : {"none", "checkpoint", "result"}]
               /\ gor[c] \in [pc : {"none", "pick", "wait", "retry", "renamed"},
                              st : {"running", "success", "failed"}, count : Nat,
                              round : 0..Len(rounds[c])]
    <2>1. aged[c] \in 0..Len(rounds[c])
      BY <1>3 DEF Sound, Good, Ordered
    <2>2. ASSUME NEW i \in 1..Len(rounds[c])
          PROVE  rounds[c][i] \in [st : {"open", "failed", "downloaded", "deleted"}, after : 0..(i - 1),
                                   finish : BOOLEAN, file : {"none", "checkpoint", "result"}]
      <3>1. rounds[c] \in Seq(RoundRecord) /\ Len(rounds[c]) \in Nat
        BY <1>1, InvParts
      <3>2. rounds[c][i] \in RoundRecord
        BY <3>1
      <3>3. rounds[c][i].after \in 0..(i - 1)
        BY <1>3, <3>1 DEF Sound, Good, Ordered, Fits
      <3>4. QED
        BY <3>2, <3>3 DEF RoundRecord, RoundStatus
    <2>3. gor[c] \in [pc : {"none", "pick", "wait", "retry", "renamed"},
                      st : {"running", "success", "failed"}, count : Nat, round : 0..Len(rounds[c])]
      <3>1. gor[c] \in Goroutine /\ Len(rounds[c]) \in Nat /\ gor[c].round \leq Len(rounds[c])
        BY <1>1, <1>3, InvParts DEF Sound, Good, Held
      <3>2. gor[c].round \in 0..Len(rounds[c])
        BY <3>1 DEF Goroutine
      <3>3. QED
        BY <3>1, <3>2 DEF Goroutine
    <2>4. QED
      BY <2>1, <2>2, <2>3
  <1>7. /\ lastID \in Client \cup {0} /\ cold \subseteq Client
        /\ cleaner.pc \in {"rows", "delete", "clients", "orphans"} /\ cleaner.batch \subseteq Refs
        /\ faults \in 0..MaxFaults /\ dbFailed \in BOOLEAN
    BY <1>2, Zenon DEF Columns, Batch
  <1>8. QED
    BY <1>4, <1>5, <1>6, <1>7, Zenon DEF SRTypeOK

\* The columns, the rounds, the goroutines and the cleanup keep their types, and
\* failed_count passes MaxRetries + 1 only by the number of faults.
THEOREM RoundsTypeCorrect == Spec => []SRTypeOK
  BY RoundsAreOrdered, RoundsTyped, PTL

\* A client task that reads success has a result to download until its rows expire,
\* whichever rounds were added twice.
THEOREM CompletedIsServed == Spec => []SuccessIsServed
  <1>1. RoundsInv => SuccessIsServed
    <2>1. SUFFICES ASSUME RoundsInv, NEW c \in Client, cstatus[c] = "success"
                   PROVE  Served(c) \/ \E i \in 1..aged[c] : rounds[c][i].finish
      BY DEF SuccessIsServed
    <2>2. Sound(c) /\ Len(rounds[c]) \in Nat /\ aged[c] \in Nat
      BY <2>1, InvParts
    <2>3. Done(rounds[c], aged[c]) /\ aged[c] \in 0..Len(rounds[c])
      BY <2>1, <2>2 DEF Sound, Good, Completed, Ordered
    <2>4. CASE Len(rounds[c]) \leq aged[c]
      <3>1. Len(rounds[c]) \in 1..aged[c] /\ rounds[c][Len(rounds[c])].finish
        BY <2>2, <2>3, <2>4 DEF Done
      <3>2. QED
        BY <3>1
    <2>5. CASE rounds[c][Len(rounds[c])].st = "downloaded" /\ rounds[c][Len(rounds[c])].file = "result"
      <3>1. Len(rounds[c]) \in Downloaded(c) /\ \A j \in Downloaded(c) : j \leq Len(rounds[c])
        BY <2>2, <2>3, <2>5 DEF Downloaded, Done
      <3>2. QED
        BY <2>5, <3>1 DEF Served
    <2>6. QED
      BY <2>3, <2>4, <2>5 DEF Done
  <1>2. QED
    BY RoundsAreOrdered, <1>1, PTL

\* A round is followed once more only after an error that hid the first time: there are
\* never more such rounds than there were faults, whatever is repeated or restarted.
THEOREM RepeatsAreLost == Spec => []RepeatsAreErrors
  <1>1. RoundsInv => RepeatsAreErrors
    <2>1. SUFFICES ASSUME RoundsInv, NEW c \in Client
                   PROVE  Cardinality(Repeated(c)) \leq faults
      BY DEF RepeatsAreErrors
    <2>2. Cardinality(Twice(rounds[c])) \leq faults
      BY <2>1, InvParts DEF Sound, Good, Doubled
    <2>3. Repeated(c) = Twice(rounds[c])
      BY DEF Repeated, Twice
    <2>4. QED
      BY <2>2, <2>3
  <1>2. QED
    BY RoundsAreOrdered, <1>1, PTL

\* Every failed round that was retried is counted in failed_count, whatever
\* statement failed or restart came between.
THEOREM RetriesAreCounted == Spec => []FailuresAreCounted
  <1>1. RoundsInv => FailuresAreCounted
    <2>1. SUFFICES ASSUME RoundsInv, NEW c \in Client
                   PROVE  Cardinality({i \in 1..Len(rounds[c]) : \E j \in 1..Len(rounds[c]) :
                            rounds[c][j].after = i /\ rounds[c][i].st = "failed"}) \leq fcount[c]
      BY DEF FailuresAreCounted
    <2>2. Cardinality(Tried(rounds[c])) \leq fcount[c]
      BY <2>1, InvParts DEF Sound, Good, Counted
    <2>3. Tried(rounds[c]) = {i \in 1..Len(rounds[c]) : \E j \in 1..Len(rounds[c]) :
                                rounds[c][j].after = i /\ rounds[c][i].st = "failed"}
      BY DEF Tried, Follows
    <2>4. QED
      BY <2>2, <2>3
  <1>2. QED
    BY RoundsAreOrdered, <1>1, PTL

=============================================================================
