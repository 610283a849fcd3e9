--------------------------- MODULE TraceStoreProofs ---------------------------
(***************************************************************************)
(* What the calls of the trace store preserve, for any number of client    *)
(* tasks and any limit on the traces.                                      *)
(***************************************************************************)
EXTENDS TraceStore, FiniteSetTheorems, SequenceTheorems, TLAPS

\* Partial functions from X to Y.
Partial(X, Y) == UNION {[D -> Y] : D \in SUBSET X}

StoreType ==
  [order : Seq(ClientTask), tasks : Partial(ClientTask, SUBSET Row),
   named : SUBSET ClientTask, finished : SUBSET ClientTask,
   index : [Index -> Partial(Row \cup ClientTask, ClientTask)]]

\* The traces are listed once each, in order.
OrderListsTraces(s) ==
  /\ \A i, j \in 1..Len(s.order) : s.order[i] = s.order[j] => i = j
  /\ \A i \in 1..Len(s.order) : s.order[i] \in DOMAIN s.tasks
  /\ \A k \in DOMAIN s.tasks : \E i \in 1..Len(s.order) : s.order[i] = k

\* What index i should hold, and the trace each entry should lead to.
EntriesOf(s, i) ==
  (UNION {FiledOf(s.tasks[k], i) : k \in DOMAIN s.tasks})
    \cup (IF i = "client" THEN s.named ELSE {})
Owner(i, x) == IF i = "client" THEN x ELSE Client(x)

\* A trace lists rows of its own client task, and the indexes hold exactly the
\* entries of the traces that there are.
StoreInv(s) ==
  /\ s \in StoreType
  /\ s.named \subseteq DOMAIN s.tasks /\ s.finished \subseteq DOMAIN s.tasks
  /\ OrderListsTraces(s)
  /\ \A k \in DOMAIN s.tasks : \A t \in s.tasks[k] : Client(t) = k
  /\ \A i \in Index : /\ DOMAIN s.index[i] = EntriesOf(s, i)
                      /\ \A x \in DOMAIN s.index[i] : s.index[i][x] = Owner(i, x)

-----------------------------------------------------------------------------
\* A function into Y whose domain lies in X is partial, and the other way round.
LEMMA PartialIs ==
  ASSUME NEW X, NEW Y, NEW f
  PROVE  f \in Partial(X, Y) <=>
           /\ DOMAIN f \subseteq X
           /\ f = [x \in DOMAIN f |-> f[x]] /\ \A x \in DOMAIN f : f[x] \in Y
  BY DEF Partial

\* Whatever a row is filed under belongs to its client task.
LEMMA FiledBelongs ==
  ASSUME NEW t \in Row, NEW i \in Index
  PROVE  /\ Filed(t)[i] \in Row \cup ClientTask
         /\ Owner(i, Filed(t)[i]) = Client(t)
         /\ Client(t) \in ClientTask
  BY DEF Index, Filed, Owner, Client, Group, Row

\* An entry is there for a row of a trace, or for a client task that was named.
LEMMA EntryIs ==
  ASSUME NEW s, NEW i, NEW x
  PROVE  x \in EntriesOf(s, i) <=>
           \/ \E k \in DOMAIN s.tasks : x \in FiledOf(s.tasks[k], i)
           \/ i = "client" /\ x \in s.named
  BY DEF EntriesOf

\* The components of a well-typed store.
LEMMA StoreFields ==
  ASSUME NEW s \in StoreType
  PROVE  /\ s.order \in Seq(ClientTask)
         /\ DOMAIN s.tasks \subseteq ClientTask
         /\ s.tasks = [k \in DOMAIN s.tasks |-> s.tasks[k]]
         /\ \A k \in DOMAIN s.tasks : s.tasks[k] \subseteq Row
         /\ s.named \subseteq ClientTask /\ s.finished \subseteq ClientTask
         /\ DOMAIN s.index = Index
  <1>1. s.tasks \in Partial(ClientTask, SUBSET Row)
    BY DEF StoreType
  <1>2. QED
    BY <1>1, PartialIs DEF StoreType

\* The entries of one index.
LEMMA IndexFields ==
  ASSUME NEW s \in StoreType, NEW i \in Index
  PROVE  /\ DOMAIN s.index[i] \subseteq Row \cup ClientTask
         /\ s.index[i] = [x \in DOMAIN s.index[i] |-> s.index[i][x]]
         /\ \A x \in DOMAIN s.index[i] : s.index[i][x] \in ClientTask
  <1>1. s.index[i] \in Partial(Row \cup ClientTask, ClientTask)
    BY DEF StoreType
  <1>2. QED
    BY <1>1, PartialIs

\* Replacing one component leaves the others alone.
LEMMA SetTasks ==
  ASSUME NEW s \in StoreType, NEW x \in Partial(ClientTask, SUBSET Row)
  PROVE  LET n == [s EXCEPT !.tasks = x] IN
         /\ n \in StoreType /\ n.tasks = x
         /\ n.order = s.order /\ n.named = s.named /\ n.finished = s.finished
         /\ n.index = s.index
  BY DEF StoreType

\* The same of the indexes.
LEMMA SetIndex ==
  ASSUME NEW s \in StoreType, NEW x \in [Index -> Partial(Row \cup ClientTask, ClientTask)]
  PROVE  LET n == [s EXCEPT !.index = x] IN
         /\ n \in StoreType /\ n.index = x
         /\ n.order = s.order /\ n.named = s.named /\ n.finished = s.finished
         /\ n.tasks = s.tasks
  BY DEF StoreType

-----------------------------------------------------------------------------
\* Adding rows to a trace changes its rows and the indexes, nothing else.
LEMMA AddTasksIs ==
  ASSUME NEW s \in StoreType, NEW k \in DOMAIN s.tasks, NEW T \in SUBSET Row,
         NEW n, n = AddTasks(s, k, T)
  PROVE  /\ n \in StoreType
         /\ n.order = s.order /\ n.named = s.named /\ n.finished = s.finished
         /\ DOMAIN n.tasks = DOMAIN s.tasks
         /\ n.tasks[k] = s.tasks[k] \cup T
         /\ \A l \in DOMAIN s.tasks \ {k} : n.tasks[l] = s.tasks[l]
         /\ \A i \in Index : n.index[i] = Point(s.index[i], FiledOf(T, i), k)
  <1> DEFINE x == [s.tasks EXCEPT ![k] = @ \cup T]
             y == [i \in Index |-> Point(s.index[i], FiledOf(T, i), k)]
             m == [s EXCEPT !.tasks = x]
  <1>1. x \in Partial(ClientTask, SUBSET Row)
    <2>1. DOMAIN x \subseteq ClientTask /\ x = [l \in DOMAIN x |-> x[l]]
      BY StoreFields
    <2>2. \A l \in DOMAIN x : x[l] \in SUBSET Row
      BY StoreFields
    <2>3. QED
      BY <2>1, <2>2, PartialIs
  <1>2. ASSUME NEW i \in Index PROVE y[i] \in Partial(Row \cup ClientTask, ClientTask)
    <2> DEFINE f == s.index[i]
               X == FiledOf(T, i)
               g == Point(f, X, k)
    <2>1. X \subseteq Row \cup ClientTask
      BY FiledBelongs DEF FiledOf
    <2>2. k \in ClientTask
      BY StoreFields
    <2>3. DOMAIN f \subseteq Row \cup ClientTask /\ \A z \in DOMAIN f : f[z] \in ClientTask
      BY IndexFields
    <2>4. DOMAIN g = DOMAIN f \cup X /\ g = [z \in DOMAIN g |-> g[z]]
      BY DEF Point
    <2>5. \A z \in DOMAIN g : g[z] \in ClientTask
      BY <2>2, <2>3 DEF Point
    <2>6. g \in Partial(Row \cup ClientTask, ClientTask)
      <3> HIDE DEF f, X, g
      <3>1. QED
        BY <2>1, <2>3, <2>4, <2>5, PartialIs
    <2>7. QED
      BY <2>6
  <1>3. n = [m EXCEPT !.index = y]
    BY DEF AddTasks, StoreType
  <1>4. m \in StoreType /\ m.tasks = x
        /\ m.order = s.order /\ m.named = s.named /\ m.finished = s.finished
    BY <1>1, SetTasks
  <1>5. y \in [Index -> Partial(Row \cup ClientTask, ClientTask)]
    BY <1>2
  <1>6. n \in StoreType /\ n.tasks = x /\ n.index = y
        /\ n.order = s.order /\ n.named = s.named /\ n.finished = s.finished
    <2> HIDE DEF x, y, m
    <2>1. QED
      BY <1>3, <1>4, <1>5, SetIndex
  <1>7. QED
    BY <1>6

\* The rows of a trace's own client task may be added to it.
LEMMA AddTasksSound ==
  ASSUME NEW s, StoreInv(s), NEW k \in DOMAIN s.tasks,
         NEW T \in SUBSET Row, \A t \in T : Client(t) = k,
         NEW n, n = AddTasks(s, k, T)
  PROVE  StoreInv(n)
  <1>1. s \in StoreType
    BY DEF StoreInv
  <1>2. n.order = s.order /\ n.named = s.named /\ n.finished = s.finished
        /\ DOMAIN n.tasks = DOMAIN s.tasks /\ n \in StoreType
    BY <1>1, AddTasksIs
  <1>3. OrderListsTraces(n)
    BY <1>2 DEF StoreInv, OrderListsTraces
  <1>4. n.tasks[k] = s.tasks[k] \cup T /\ \A l \in DOMAIN s.tasks \ {k} : n.tasks[l] = s.tasks[l]
    BY <1>1, AddTasksIs
  <1>5. \A l \in DOMAIN n.tasks : \A t \in n.tasks[l] : Client(t) = l
    BY <1>2, <1>4 DEF StoreInv
  <1>6. ASSUME NEW i \in Index
        PROVE  /\ DOMAIN n.index[i] = EntriesOf(n, i)
               /\ \A x \in DOMAIN n.index[i] : n.index[i][x] = Owner(i, x)
    <2>1. n.index[i] = Point(s.index[i], FiledOf(T, i), k)
      BY <1>1, AddTasksIs
    <2>2. DOMAIN s.index[i] = EntriesOf(s, i)
          /\ \A x \in DOMAIN s.index[i] : s.index[i][x] = Owner(i, x)
      BY DEF StoreInv
    <2>3. DOMAIN n.index[i] = EntriesOf(s, i) \cup FiledOf(T, i)
      BY <2>1, <2>2 DEF Point
    <2>4. FiledOf(n.tasks[k], i) = FiledOf(s.tasks[k], i) \cup FiledOf(T, i)
      BY <1>4 DEF FiledOf
    <2>5. EntriesOf(n, i) = EntriesOf(s, i) \cup FiledOf(T, i)
      <3>1. ASSUME NEW x
            PROVE  x \in EntriesOf(n, i) <=> x \in EntriesOf(s, i) \/ x \in FiledOf(T, i)
        <4>1. \A l \in DOMAIN s.tasks :
                x \in FiledOf(n.tasks[l], i) <=>
                  x \in FiledOf(s.tasks[l], i) \/ (l = k /\ x \in FiledOf(T, i))
          BY <1>4, <2>4
        <4>2. x \in EntriesOf(n, i) <=>
                (\E l \in DOMAIN s.tasks : x \in FiledOf(n.tasks[l], i)) \/ (i = "client" /\ x \in s.named)
          BY <1>2, EntryIs
        <4>3. x \in EntriesOf(s, i) <=>
                (\E l \in DOMAIN s.tasks : x \in FiledOf(s.tasks[l], i)) \/ (i = "client" /\ x \in s.named)
          BY EntryIs
        <4>4. QED
          BY <4>1, <4>2, <4>3
      <3>2. QED
        BY <3>1
    <2>6. \A x \in FiledOf(T, i) : Owner(i, x) = k
      BY FiledBelongs DEF FiledOf
    <2>7. \A x \in DOMAIN n.index[i] : n.index[i][x] = Owner(i, x)
      BY <2>1, <2>2, <2>6 DEF Point
    <2>8. QED
      BY <2>3, <2>5, <2>7
  <1>7. QED
    BY <1>2, <1>3, <1>5, <1>6 DEF StoreInv

-----------------------------------------------------------------------------
\* What a new trace changes.
LEMMA NewTraceIs ==
  ASSUME NEW s \in StoreType, NEW k \in ClientTask \ DOMAIN s.tasks, NEW N \in SUBSET {k},
         NEW n, n = NewTrace(s, k, N)
  PROVE  /\ n \in StoreType
         /\ n.order = Append(s.order, k) /\ n.finished = s.finished
         /\ n.named = s.named \cup N
         /\ DOMAIN n.tasks = DOMAIN s.tasks \cup {k} /\ n.tasks[k] = {}
         /\ \A l \in DOMAIN s.tasks : n.tasks[l] = s.tasks[l]
         /\ n.index["client"] = Point(s.index["client"], N, k)
         /\ \A i \in Index \ {"client"} : n.index[i] = s.index[i]
  <1> DEFINE o == Append(s.order, k)
             x == Point(s.tasks, {k}, {})
             d == s.named \cup N
             c == Point(s.index["client"], N, k)
             y == [s.index EXCEPT !["client"] = c]
  <1>1. n = [s EXCEPT !.order = o, !.tasks = x, !.named = d, !.index = y]
    BY DEF NewTrace
  <1>2. o \in Seq(ClientTask)
    BY StoreFields, AppendProperties
  <1>3. x \in Partial(ClientTask, SUBSET Row)
    <2>1. /\ DOMAIN x \subseteq ClientTask
          /\ x = [l \in DOMAIN x |-> x[l]]
          /\ \A l \in DOMAIN x : x[l] \in SUBSET Row
      BY StoreFields DEF Point
    <2> HIDE DEF x
    <2>2. QED
      BY <2>1, PartialIs
  <1>4. d \in SUBSET ClientTask
    BY StoreFields
  <1>5. c \in Partial(Row \cup ClientTask, ClientTask)
    <2>1. "client" \in Index
      BY DEF Index
    <2>2. /\ DOMAIN c \subseteq Row \cup ClientTask
          /\ c = [z \in DOMAIN c |-> c[z]]
          /\ \A z \in DOMAIN c : c[z] \in ClientTask
      BY <2>1, IndexFields DEF Point
    <2>3. QED
      BY <2>2, PartialIs
  <1>6. y \in [Index -> Partial(Row \cup ClientTask, ClientTask)]
    <2>1. s.index \in [Index -> Partial(Row \cup ClientTask, ClientTask)]
      BY DEF StoreType
    <2> DEFINE P == Partial(Row \cup ClientTask, ClientTask)
    <2> HIDE DEF c, P
    <2>2. QED
      BY <2>1, <1>5 DEF P
  <1>7. /\ n \in StoreType /\ n.tasks = x /\ n.order = o /\ n.named = d
        /\ n.finished = s.finished /\ n.index = y
    <2> HIDE DEF o, x, d, y
    <2>1. QED
      BY <1>1, <1>2, <1>3, <1>4, <1>6 DEF StoreType
  <1>8. DOMAIN x = DOMAIN s.tasks \cup {k} /\ x[k] = {} /\ \A l \in DOMAIN s.tasks : x[l] = s.tasks[l]
    BY DEF Point
  <1>9. y["client"] = c /\ \A i \in Index \ {"client"} : y[i] = s.index[i]
    BY StoreFields DEF Index
  <1>10. QED
    BY <1>7, <1>8, <1>9

\* A trace that is not there yet may be appended.
LEMMA NewTraceSound ==
  ASSUME NEW s, StoreInv(s), NEW k \in ClientTask \ DOMAIN s.tasks, NEW N \in SUBSET {k},
         NEW n, n = NewTrace(s, k, N)
  PROVE  StoreInv(n)
  <1>1. s \in StoreType
    BY DEF StoreInv
  <1>2. /\ n \in StoreType
        /\ n.order = Append(s.order, k) /\ n.finished = s.finished
        /\ n.named = s.named \cup N
        /\ DOMAIN n.tasks = DOMAIN s.tasks \cup {k} /\ n.tasks[k] = {}
        /\ \A l \in DOMAIN s.tasks : n.tasks[l] = s.tasks[l]
    BY <1>1, NewTraceIs
  <1>3. OrderListsTraces(n)
    <2>1. s.order \in Seq(ClientTask) /\ Len(s.order) \in Nat
      BY <1>1, StoreFields, LenProperties
    <2>2. /\ Len(n.order) = Len(s.order) + 1
          /\ \A i \in 1..Len(s.order) : n.order[i] = s.order[i]
          /\ n.order[Len(s.order) + 1] = k
      BY <1>2, <2>1, AppendProperties
    <2>3. /\ \A i, j \in 1..Len(s.order) : s.order[i] = s.order[j] => i = j
          /\ \A i \in 1..Len(s.order) : s.order[i] \in DOMAIN s.tasks
          /\ \A l \in DOMAIN s.tasks : \E i \in 1..Len(s.order) : s.order[i] = l
      BY DEF StoreInv, OrderListsTraces
    <2>4. \A i, j \in 1..Len(n.order) : n.order[i] = n.order[j] => i = j
      BY <2>1, <2>2, <2>3
    <2>5. \A i \in 1..Len(n.order) : n.order[i] \in DOMAIN n.tasks
      BY <1>2, <2>1, <2>2, <2>3
    <2>6. \A l \in DOMAIN n.tasks : \E i \in 1..Len(n.order) : n.order[i] = l
      <3>1. Len(s.order) + 1 \in 1..Len(n.order) /\ 1..Len(s.order) \subseteq 1..Len(n.order)
        BY <2>1, <2>2
      <3>2. QED
        BY <1>2, <2>2, <2>3, <3>1
    <2>7. QED
      BY <2>4, <2>5, <2>6 DEF OrderListsTraces
  <1>4. \A l \in DOMAIN n.tasks : \A t \in n.tasks[l] : Client(t) = l
    BY <1>2 DEF StoreInv
  <1>5. n.named \subseteq DOMAIN n.tasks /\ n.finished \subseteq DOMAIN n.tasks
    BY <1>2 DEF StoreInv
  <1>6. ASSUME NEW i \in Index
        PROVE  /\ DOMAIN n.index[i] = EntriesOf(n, i)
               /\ \A x \in DOMAIN n.index[i] : n.index[i][x] = Owner(i, x)
    <2>1. /\ i = "client" => n.index[i] = Point(s.index[i], N, k)
          /\ i # "client" => n.index[i] = s.index[i]
      BY <1>1, NewTraceIs
    <2>2. DOMAIN s.index[i] = EntriesOf(s, i)
          /\ \A x \in DOMAIN s.index[i] : s.index[i][x] = Owner(i, x)
      BY DEF StoreInv
    <2>3. DOMAIN n.index[i] = EntriesOf(s, i) \cup (IF i = "client" THEN N ELSE {})
      BY <2>1, <2>2 DEF Point
    <2>4. FiledOf({}, i) = {}
      BY DEF FiledOf
    <2>5. ASSUME NEW x
          PROVE  x \in EntriesOf(n, i) <=> x \in EntriesOf(s, i) \/ (i = "client" /\ x \in N)
      <3>1. x \in EntriesOf(n, i) <=>
              (\E l \in DOMAIN n.tasks : x \in FiledOf(n.tasks[l], i)) \/ (i = "client" /\ x \in n.named)
        BY EntryIs
      <3>2. x \in EntriesOf(s, i) <=>
              (\E l \in DOMAIN s.tasks : x \in FiledOf(s.tasks[l], i)) \/ (i = "client" /\ x \in s.named)
        BY EntryIs
      <3>3. (\E l \in DOMAIN n.tasks : x \in FiledOf(n.tasks[l], i)) <=>
              \E l \in DOMAIN s.tasks : x \in FiledOf(s.tasks[l], i)
        BY <1>2, <2>4
      <3>4. x \in n.named <=> x \in s.named \/ x \in N
        BY <1>2
      <3>5. QED
        BY <3>1, <3>2, <3>3, <3>4
    <2>6. DOMAIN n.index[i] = EntriesOf(n, i)
      BY <2>3, <2>5
    <2>7. \A x \in DOMAIN n.index[i] : n.index[i][x] = Owner(i, x)
      BY <2>1, <2>2 DEF Point, Owner
    <2>8. QED
      BY <2>6, <2>7
  <1>7. QED
    BY <1>2, <1>3, <1>4, <1>5, <1>6 DEF StoreInv

-----------------------------------------------------------------------------
\* What eviction of the oldest trace takes away.
LEMMA EvictIs ==
  ASSUME NEW s, StoreInv(s), Len(s.order) > MaxTraces,
         NEW n, n = Evict(s), NEW k, k = Head(s.order)
  PROVE  /\ n \in StoreType /\ k \in DOMAIN s.tasks
         /\ n.order = Tail(s.order) /\ Len(n.order) = Len(s.order) - 1
         /\ \A i \in 1..Len(n.order) : n.order[i] = s.order[i + 1]
         /\ s.order[1] = k /\ Len(s.order) \in Nat \ {0}
         /\ DOMAIN n.tasks = DOMAIN s.tasks \ {k}
         /\ \A l \in DOMAIN n.tasks : n.tasks[l] = s.tasks[l]
         /\ n.named = s.named \ {k} /\ n.finished = s.finished \ {k}
         /\ \A i \in Index : n.index[i] = Forget(s.index[i], EvictedEntries(s, k, i))
  <1>1. s \in StoreType
    BY DEF StoreInv
  <1>2. s.order \in Seq(ClientTask) /\ Len(s.order) \in Nat
    BY <1>1, StoreFields, LenProperties
  <1>3. s.order # <<>> /\ Len(s.order) \in Nat \ {0}
    BY <1>2, EmptySeq, TraceAssumption
  <1>4. /\ Tail(s.order) \in Seq(ClientTask)
        /\ Len(Tail(s.order)) = Len(s.order) - 1
        /\ \A i \in 1..Len(Tail(s.order)) : Tail(s.order)[i] = s.order[i + 1]
    BY <1>2, <1>3, HeadTailProperties
  <1>5. s.order[1] = k
    BY <1>2, <1>3
  <1>6. k \in DOMAIN s.tasks
    <2>1. 1 \in 1..Len(s.order)
      BY <1>3
    <2>2. QED
      BY <1>5, <2>1 DEF StoreInv, OrderListsTraces
  <1> DEFINE x == Forget(s.tasks, {k})
             y == [i \in Index |-> Forget(s.index[i], EvictedEntries(s, k, i))]
  <1>7. n = [order |-> Tail(s.order), tasks |-> x, named |-> s.named \ {k},
             finished |-> s.finished \ {k}, index |-> y]
    BY <1>2, TraceAssumption DEF Evict
  <1>8. DOMAIN x = DOMAIN s.tasks \ {k} /\ \A l \in DOMAIN x : x[l] = s.tasks[l]
    BY DEF Forget, Restrict
  <1>9. x \in Partial(ClientTask, SUBSET Row)
    <2>1. x = [l \in DOMAIN x |-> x[l]]
      BY DEF Forget, Restrict
    <2>2. DOMAIN x \subseteq ClientTask /\ \A l \in DOMAIN x : x[l] \in SUBSET Row
      BY <1>1, <1>8, StoreFields
    <2> HIDE DEF x
    <2>3. QED
      BY <2>1, <2>2, PartialIs
  <1>10. y \in [Index -> Partial(Row \cup ClientTask, ClientTask)]
    <2>1. ASSUME NEW i \in Index PROVE y[i] \in Partial(Row \cup ClientTask, ClientTask)
      <3> DEFINE f == s.index[i]
                 g == Forget(f, EvictedEntries(s, k, i))
      <3>1. DOMAIN f \subseteq Row \cup ClientTask /\ \A z \in DOMAIN f : f[z] \in ClientTask
        BY <1>1, IndexFields
      <3>2. /\ g = [z \in DOMAIN g |-> g[z]]
            /\ DOMAIN g \subseteq DOMAIN f
            /\ \A z \in DOMAIN g : g[z] = f[z]
        BY DEF Forget, Restrict
      <3>3. g \in Partial(Row \cup ClientTask, ClientTask)
        <4> HIDE DEF f, g
        <4>1. QED
          BY <3>1, <3>2, PartialIs
      <3>4. QED
        BY <3>3
    <2>2. QED
      BY <2>1
  <1>11. s.named \ {k} \in SUBSET ClientTask /\ s.finished \ {k} \in SUBSET ClientTask
    BY <1>1, StoreFields
  <1>12. n \in StoreType /\ n.tasks = x /\ n.order = Tail(s.order) /\ n.named = s.named \ {k}
         /\ n.finished = s.finished \ {k} /\ n.index = y
    <2> DEFINE o == Tail(s.order)
               d == s.named \ {k}
               f == s.finished \ {k}
    <2>1. o \in Seq(ClientTask) /\ d \in SUBSET ClientTask /\ f \in SUBSET ClientTask
      BY <1>4, <1>11
    <2>2. n = [order |-> o, tasks |-> x, named |-> d, finished |-> f, index |-> y]
      BY <1>7
    <2> HIDE DEF o, x, d, f, y
    <2>3. n \in StoreType /\ n.tasks = x /\ n.order = o /\ n.named = d /\ n.finished = f /\ n.index = y
      <3>1. n.tasks = x /\ n.order = o /\ n.named = d /\ n.finished = f /\ n.index = y
        BY ONLY <2>2
      <3>2. n \in StoreType
        BY ONLY <1>9, <1>10, <2>1, <2>2 DEF StoreType
      <3>3. QED
        BY <3>1, <3>2
    <2>4. QED
      BY <2>3 DEF o, d, f
  <1>13. \A i \in Index : y[i] = Forget(s.index[i], EvictedEntries(s, k, i))
    OBVIOUS
  <1>14. QED
    BY <1>3, <1>4, <1>5, <1>6, <1>8, <1>12, <1>13

\* Eviction takes every entry of the trace and no entry of another one.
LEMMA EvictSound ==
  ASSUME NEW s, StoreInv(s), Len(s.order) > MaxTraces, NEW n, n = Evict(s)
  PROVE  StoreInv(n)
  <1> DEFINE k == Head(s.order)
  <1> HIDE DEF k
  <1>1. /\ n \in StoreType /\ k \in DOMAIN s.tasks
        /\ n.order = Tail(s.order) /\ Len(n.order) = Len(s.order) - 1
        /\ \A i \in 1..Len(n.order) : n.order[i] = s.order[i + 1]
        /\ s.order[1] = k /\ Len(s.order) \in Nat \ {0}
        /\ DOMAIN n.tasks = DOMAIN s.tasks \ {k}
        /\ \A l \in DOMAIN n.tasks : n.tasks[l] = s.tasks[l]
        /\ n.named = s.named \ {k} /\ n.finished = s.finished \ {k}
        /\ \A i \in Index : n.index[i] = Forget(s.index[i], EvictedEntries(s, k, i))
    BY EvictIs DEF k
  <1>2. OrderListsTraces(n)
    <2>1. /\ \A i, j \in 1..Len(s.order) : s.order[i] = s.order[j] => i = j
          /\ \A i \in 1..Len(s.order) : s.order[i] \in DOMAIN s.tasks
          /\ \A l \in DOMAIN s.tasks : \E i \in 1..Len(s.order) : s.order[i] = l
      BY DEF StoreInv, OrderListsTraces
    <2>2. \A i \in 1..Len(n.order) : i + 1 \in 1..Len(s.order) /\ i + 1 # 1
      BY <1>1
    <2>3. \A i, j \in 1..Len(n.order) : n.order[i] = n.order[j] => i = j
      BY <1>1, <2>1, <2>2
    <2>4. \A i \in 1..Len(n.order) : n.order[i] \in DOMAIN n.tasks
      <3>1. 1 \in 1..Len(s.order)
        BY <1>1
      <3>2. QED
        BY <1>1, <2>1, <2>2, <3>1
    <2>5. ASSUME NEW l \in DOMAIN n.tasks PROVE \E i \in 1..Len(n.order) : n.order[i] = l
      <3>1. PICK j \in 1..Len(s.order) : s.order[j] = l
        BY <1>1, <2>1
      <3>2. j # 1
        BY <1>1, <3>1
      <3>3. j - 1 \in 1..Len(n.order) /\ (j - 1) + 1 = j
        BY <1>1, <3>1, <3>2
      <3>4. QED
        BY <1>1, <3>1, <3>3
    <2>6. QED
      BY <2>3, <2>4, <2>5 DEF OrderListsTraces
  <1>3. \A l \in DOMAIN s.tasks : \A t \in s.tasks[l] : Client(t) = l
    BY DEF StoreInv
  <1>4. s \in StoreType
    BY DEF StoreInv
  <1>5. ASSUME NEW i \in Index
        PROVE  /\ DOMAIN n.index[i] = EntriesOf(n, i)
               /\ \A x \in DOMAIN n.index[i] : n.index[i][x] = Owner(i, x)
    <2>1. DOMAIN s.index[i] = EntriesOf(s, i)
          /\ \A x \in DOMAIN s.index[i] : s.index[i][x] = Owner(i, x)
      BY DEF StoreInv
    <2>2. DOMAIN n.index[i] = EntriesOf(s, i) \ EvictedEntries(s, k, i)
          /\ \A x \in DOMAIN n.index[i] : n.index[i][x] = Owner(i, x)
      <3>1. n.index[i] = Forget(s.index[i], EvictedEntries(s, k, i))
        BY <1>1
      <3>2. n.index[i] = [x \in EntriesOf(s, i) \ EvictedEntries(s, k, i) |-> s.index[i][x]]
        BY <2>1, <3>1 DEF Forget, Restrict
      <3>3. QED
        BY <2>1, <3>2
    <2>3. ASSUME NEW l \in DOMAIN s.tasks, NEW x \in FiledOf(s.tasks[l], i)
          PROVE  Owner(i, x) = l
      <3>1. PICK t \in s.tasks[l] : x = Filed(t)[i]
        BY DEF FiledOf
      <3>2. t \in Row
        BY <1>4, StoreFields
      <3>3. QED
        BY <1>3, <3>1, <3>2, FiledBelongs
    <2>4. \A x : i = "client" => Owner(i, x) = x
      BY DEF Owner
    <2>5. ASSUME NEW x
          PROVE  x \in EntriesOf(n, i) <=> x \in EntriesOf(s, i) /\ x \notin EvictedEntries(s, k, i)
      <3>1. x \in EntriesOf(n, i) <=>
              (\E l \in DOMAIN n.tasks : x \in FiledOf(n.tasks[l], i)) \/ (i = "client" /\ x \in n.named)
        BY EntryIs
      <3>2. x \in EntriesOf(s, i) <=>
              (\E l \in DOMAIN s.tasks : x \in FiledOf(s.tasks[l], i)) \/ (i = "client" /\ x \in s.named)
        BY EntryIs
      <3>3. x \in EvictedEntries(s, k, i) <=>
              x \in FiledOf(s.tasks[k], i) \/ (i = "client" /\ x = k /\ x \in s.named)
        BY DEF EvictedEntries
      <3>4. (\E l \in DOMAIN n.tasks : x \in FiledOf(n.tasks[l], i)) <=>
              \E l \in DOMAIN s.tasks : l # k /\ x \in FiledOf(s.tasks[l], i)
        BY <1>1
      <3>5. x \in n.named <=> x \in s.named /\ x # k
        BY <1>1
      <3>6. \A l \in DOMAIN s.tasks : x \in FiledOf(s.tasks[l], i) => Owner(i, x) = l
        BY <2>3
      <3>7. QED
        BY <1>1, <2>4, <3>1, <3>2, <3>3, <3>4, <3>5, <3>6
    <2>6. QED
      BY <2>2, <2>5
  <1>6. /\ \A l \in DOMAIN n.tasks : \A t \in n.tasks[l] : Client(t) = l
        /\ n.named \subseteq DOMAIN n.tasks /\ n.finished \subseteq DOMAIN n.tasks
    BY <1>1, <1>3 DEF StoreInv
  <1>7. QED
    BY <1>1, <1>2, <1>5, <1>6 DEF StoreInv

-----------------------------------------------------------------------------
\* What a call may change: no trace but those in K appears or goes back to
\* unfinished, and no row but those in T joins a trace.
Grows(s, n, K, T) ==
  /\ DOMAIN n.tasks \subseteq DOMAIN s.tasks \cup K
  /\ \A k \in DOMAIN n.tasks : \A t \in n.tasks[k] :
       t \in T \/ (k \in DOMAIN s.tasks /\ t \in s.tasks[k])
  /\ \A k \in DOMAIN n.tasks : k \notin n.finished =>
       k \in K \/ (k \in DOMAIN s.tasks /\ k \notin s.finished)

\* The store within its limit.
SoundStore(s) == StoreInv(s) /\ Len(s.order) \leq MaxTraces

\* A store without traces is sound.
LEMMA EmptyStoreSound == SoundStore(EmptyStore)
  <1>1. EmptyStore \in StoreType
    <2> DEFINE e == <<>>
               y == [i \in Index |-> e]
    <2>1. e \in Seq(ClientTask) /\ e \in Partial(ClientTask, SUBSET Row)
      <3>1. e \in Seq(ClientTask)
        BY EmptySeq
      <3>2. e \in Partial(ClientTask, SUBSET Row)
        BY DEF Partial
      <3>3. QED
        BY <3>1, <3>2
    <2>2. y \in [Index -> Partial(Row \cup ClientTask, ClientTask)]
      BY DEF Partial
    <2>3. EmptyStore = [order |-> e, tasks |-> e, named |-> {}, finished |-> {}, index |-> y]
      BY DEF EmptyStore
    <2>4. {} \in SUBSET ClientTask
      OBVIOUS
    <2> HIDE DEF e, y
    <2>5. QED
      BY ONLY <2>1, <2>2, <2>3, <2>4 DEF StoreType
  <1>2. QED
    BY <1>1, TraceAssumption
    DEF SoundStore, StoreInv, EmptyStore, OrderListsTraces, EntriesOf, FiledOf

\* Adding rows of a trace that is there keeps the store sound.
LEMMA AddTasksKeeps ==
  ASSUME NEW s, SoundStore(s), NEW k \in DOMAIN s.tasks,
         NEW T \in SUBSET Row, \A t \in T : Client(t) = k,
         NEW n, n = AddTasks(s, k, T)
  PROVE  SoundStore(n) /\ Grows(s, n, {}, T)
  <1>1. StoreInv(n)
    BY AddTasksSound DEF SoundStore
  <1>2. /\ n.order = s.order /\ n.finished = s.finished
        /\ DOMAIN n.tasks = DOMAIN s.tasks
        /\ n.tasks[k] = s.tasks[k] \cup T
        /\ \A l \in DOMAIN s.tasks \ {k} : n.tasks[l] = s.tasks[l]
    BY AddTasksIs DEF SoundStore, StoreInv
  <1>3. QED
    BY <1>1, <1>2 DEF SoundStore, Grows

\* Starting a trace, whatever was evicted for it.
LEMMA StartTraceKeeps ==
  ASSUME NEW s, SoundStore(s), NEW k \in ClientTask, NEW N \in SUBSET {k},
         NEW T \in SUBSET Row, \A t \in T : Client(t) = k,
         NEW n, n = StartTrace(s, k, N, T)
  PROVE  SoundStore(n) /\ Grows(s, n, {k}, T)
  <1>1. CASE MaxTraces = 0 \/ T \cup N = {}
    BY <1>1 DEF StartTrace, Grows
  <1>2. CASE ~(MaxTraces = 0 \/ T \cup N = {}) /\ k \in DOMAIN s.tasks
    <2>1. n = AddTasks(s, k, T)
      BY <1>2 DEF StartTrace
    <2>2. QED
      BY <1>2, <2>1, AddTasksKeeps DEF Grows
  <1>3. CASE ~(MaxTraces = 0 \/ T \cup N = {}) /\ k \notin DOMAIN s.tasks
    <2>1. PICK f : f = NewTrace(s, k, N)
      OBVIOUS
    <2>2. PICK a : a = AddTasks(f, k, T)
      OBVIOUS
    <2>3. n = Evict(a)
      BY <1>3, <2>1, <2>2 DEF StartTrace
    <2>4. StoreInv(s) /\ s \in StoreType /\ s.order \in Seq(ClientTask) /\ Len(s.order) \in Nat
      BY StoreFields, LenProperties DEF SoundStore, StoreInv
    <2>5. StoreInv(f)
      BY <1>3, <2>1, <2>4, NewTraceSound
    <2>6. /\ f \in StoreType
          /\ f.order = Append(s.order, k) /\ f.finished = s.finished
          /\ DOMAIN f.tasks = DOMAIN s.tasks \cup {k} /\ f.tasks[k] = {}
          /\ \A l \in DOMAIN s.tasks : f.tasks[l] = s.tasks[l]
      BY <1>3, <2>1, <2>4, NewTraceIs
    <2>7. StoreInv(a)
      BY <2>2, <2>5, <2>6, AddTasksSound
    <2>8. /\ a.order = f.order /\ a.finished = f.finished
          /\ DOMAIN a.tasks = DOMAIN f.tasks
          /\ a.tasks[k] = f.tasks[k] \cup T
          /\ \A l \in DOMAIN f.tasks \ {k} : a.tasks[l] = f.tasks[l]
      <3>1. f \in StoreType /\ k \in DOMAIN f.tasks /\ T \in SUBSET Row
        BY <2>6
      <3>2. QED
        BY ONLY <2>2, <3>1, AddTasksIs
    <2>9. Len(a.order) = Len(s.order) + 1
      BY <2>4, <2>6, <2>8, AppendProperties
    <2>10. Grows(s, a, {k}, T)
      BY <1>3, <2>6, <2>8 DEF Grows
    <2>11. CASE Len(a.order) \leq MaxTraces
      BY <2>3, <2>7, <2>10, <2>11 DEF Evict, SoundStore
    <2>12. CASE ~(Len(a.order) \leq MaxTraces)
      <3>1. Len(a.order) > MaxTraces
        BY <2>4, <2>9, <2>12, TraceAssumption
      <3>2. StoreInv(n)
        BY <2>3, <2>7, <3>1, EvictSound
      <3>3. /\ Len(n.order) = Len(a.order) - 1
            /\ DOMAIN n.tasks \subseteq DOMAIN a.tasks
            /\ \A l \in DOMAIN n.tasks : n.tasks[l] = a.tasks[l]
            /\ \A l \in DOMAIN n.tasks : l \notin n.finished => l \notin a.finished
        BY <2>3, <2>7, <3>1, EvictIs
      <3>4. Len(n.order) \leq MaxTraces
        BY <2>4, <2>9, <3>3, TraceAssumption DEF SoundStore
      <3>5. QED
        BY <2>10, <3>2, <3>3, <3>4 DEF SoundStore, Grows
    <2>13. QED
      BY <2>11, <2>12
  <1>4. QED
    BY <1>1, <1>2, <1>3

\* Finishing one changes nothing else.
LEMMA FinishTraceKeeps ==
  ASSUME NEW s, SoundStore(s), NEW k, NEW n, n = FinishTrace(s, k)
  PROVE  SoundStore(n) /\ Grows(s, n, {}, {}) /\ (k \in DOMAIN n.tasks => k \in n.finished)
  <1>1. CASE k \notin DOMAIN s.tasks
    BY <1>1 DEF FinishTrace, Grows
  <1>2. CASE k \in DOMAIN s.tasks
    <2>1. s \in StoreType /\ k \in ClientTask
      BY <1>2, StoreFields DEF SoundStore, StoreInv
    <2>2. n = [s EXCEPT !.finished = @ \cup {k}]
      BY <1>2 DEF FinishTrace
    <2>3. s.finished \cup {k} \in SUBSET ClientTask
      BY <2>1, StoreFields
    <2>4. n \in StoreType /\ n.finished = s.finished \cup {k}
          /\ n.order = s.order /\ n.tasks = s.tasks /\ n.named = s.named /\ n.index = s.index
      BY ONLY <2>1, <2>2, <2>3 DEF StoreType
    <2>5. \A i : EntriesOf(n, i) = EntriesOf(s, i)
      BY <2>4 DEF EntriesOf
    <2>6. OrderListsTraces(n)
      BY <2>4 DEF SoundStore, StoreInv, OrderListsTraces
    <2>7. SoundStore(n)
      BY <1>2, <2>4, <2>5, <2>6 DEF SoundStore, StoreInv
    <2>8. QED
      BY <2>4, <2>7 DEF Grows
  <1>3. QED
    BY <1>1, <1>2

\* The rows of a client task find its trace by the index, if there is one.
LEMMA RegisterClientTasksKeeps ==
  ASSUME NEW s, SoundStore(s), NEW c \in ClientTask,
         NEW T \in SUBSET Row, \A t \in T : Client(t) = c,
         NEW n, n = RegisterClientTasks(s, c, T)
  PROVE  SoundStore(n) /\ Grows(s, n, {}, T)
  <1>1. CASE c \in DOMAIN s.index["client"] /\ s.index["client"][c] \in DOMAIN s.tasks
    <2>1. s.index["client"][c] = c
      BY <1>1 DEF SoundStore, StoreInv, Index, Owner
    <2>2. n = AddTasks(s, c, T)
      BY <1>1, <2>1 DEF RegisterClientTasks
    <2>3. QED
      BY <1>1, <2>1, <2>2, AddTasksKeeps
  <1>2. CASE ~(c \in DOMAIN s.index["client"] /\ s.index["client"][c] \in DOMAIN s.tasks)
    BY <1>2 DEF RegisterClientTasks, Grows
  <1>3. QED
    BY <1>1, <1>2

\* Every trace that an index leads a row to is the live trace of its client task.
LEMMA PrimaryIsOwn ==
  ASSUME NEW s, StoreInv(s), NEW t \in Row, NEW k \in PrimaryForTask(s, t)
  PROVE  k = Client(t) /\ k \in DOMAIN s.tasks
  <1>1. PICK i \in Index : Filed(t)[i] \in DOMAIN s.index[i] /\ k = s.index[i][Filed(t)[i]]
    BY DEF PrimaryForTask, Index
  <1>2. DOMAIN s.index[i] = EntriesOf(s, i) /\ k = Owner(i, Filed(t)[i])
    BY <1>1 DEF StoreInv
  <1>3. k = Client(t)
    BY <1>2, FiledBelongs
  <1>4. k \in DOMAIN s.tasks
    <2>1. Filed(t)[i] \in EntriesOf(s, i)
      BY <1>1, <1>2
    <2>2. CASE i = "client" /\ Filed(t)[i] \in s.named
      BY <1>2, <2>2 DEF StoreInv, Owner
    <2>3. CASE \E l \in DOMAIN s.tasks : Filed(t)[i] \in FiledOf(s.tasks[l], i)
      <3>1. PICK l \in DOMAIN s.tasks : Filed(t)[i] \in FiledOf(s.tasks[l], i)
        BY <2>3
      <3>2. PICK u \in s.tasks[l] : Filed(t)[i] = Filed(u)[i]
        BY <3>1 DEF FiledOf
      <3>3. u \in Row /\ Client(u) = l
        BY <3>2, StoreFields DEF StoreInv
      <3>4. Owner(i, Filed(u)[i]) = l
        BY <3>3, FiledBelongs
      <3>5. QED
        BY <1>2, <3>2, <3>4
    <2>4. QED
      BY <2>1, <2>2, <2>3, EntryIs
  <1>5. QED
    BY <1>3, <1>4

\* So rows that are registered beside a row of their client task join its trace.
LEMMA RegisterTasksKeeps ==
  ASSUME NEW s, SoundStore(s), NEW t \in Row,
         NEW T \in SUBSET Row, \A u \in T : Client(u) = Client(t),
         NEW n, n = RegisterTasks(s, t, T)
  PROVE  SoundStore(n) /\ Grows(s, n, {}, T)
  <1>1. CASE PrimaryForTask(s, t) = {}
    BY <1>1 DEF RegisterTasks, Grows
  <1>2. CASE PrimaryForTask(s, t) # {}
    <2>1. PICK k : k = CHOOSE l \in PrimaryForTask(s, t) : TRUE
      OBVIOUS
    <2>2. k \in PrimaryForTask(s, t)
      BY <1>2, <2>1
    <2>3. n = AddTasks(s, k, T)
      BY <1>2, <2>1 DEF RegisterTasks
    <2>4. k = Client(t) /\ k \in DOMAIN s.tasks
      BY <2>2, PrimaryIsOwn DEF SoundStore
    <2>5. QED
      BY <2>3, <2>4, AddTasksKeeps
  <1>3. QED
    BY <1>1, <1>2

-----------------------------------------------------------------------------
\* In a sound store every entry leads to a live trace that has it.
LEMMA SoundEntries ==
  ASSUME NEW s, SoundStore(s), NEW i \in Index, NEW x \in DOMAIN s.index[i],
         NEW k, k = s.index[i][x]
  PROVE  /\ k \in DOMAIN s.tasks
         /\ x \in FiledOf(s.tasks[k], i) \/ (i = "client" /\ x = k /\ k \in s.named)
  <1>1. x \in EntriesOf(s, i) /\ k = Owner(i, x)
    BY DEF SoundStore, StoreInv
  <1>2. CASE i = "client" /\ x \in s.named
    BY <1>1, <1>2 DEF SoundStore, StoreInv, Owner
  <1>3. CASE \E l \in DOMAIN s.tasks : x \in FiledOf(s.tasks[l], i)
    <2>1. PICK l \in DOMAIN s.tasks : x \in FiledOf(s.tasks[l], i)
      BY <1>3
    <2>2. PICK u \in s.tasks[l] : x = Filed(u)[i]
      BY <2>1 DEF FiledOf
    <2>3. u \in Row /\ Client(u) = l
      BY <2>2, StoreFields DEF SoundStore, StoreInv
    <2>4. k = l
      BY <1>1, <2>2, <2>3, FiledBelongs
    <2>5. QED
      BY <2>1, <2>4
  <1>4. QED
    BY <1>1, <1>2, <1>3, EntryIs

\* There is one entry of the order for each trace, and the list shows them all.
LEMMA SoundOrder ==
  ASSUME NEW s, SoundStore(s)
  PROVE  /\ Len(s.order) = Cardinality(DOMAIN s.tasks)
         /\ Range(ListTraces(s, MaxTraces)) = DOMAIN s.tasks
  <1>1. s.order \in Seq(ClientTask) /\ Len(s.order) \in Nat
        /\ s.order \in [1..Len(s.order) -> ClientTask]
    BY StoreFields, LenProperties DEF SoundStore, StoreInv
  <1>2. /\ \A i, j \in 1..Len(s.order) : s.order[i] = s.order[j] => i = j
        /\ \A i \in 1..Len(s.order) : s.order[i] \in DOMAIN s.tasks
        /\ \A k \in DOMAIN s.tasks : \E i \in 1..Len(s.order) : s.order[i] = k
    BY DEF SoundStore, StoreInv, OrderListsTraces
  <1>3. s.order \in Bijection(1..Len(s.order), DOMAIN s.tasks)
    <2>1. s.order \in [1..Len(s.order) -> DOMAIN s.tasks]
      BY <1>1, <1>2
    <2>2. QED
      BY <1>2, <2>1 DEF Bijection, Injection, Surjection, IsInjective
  <1>4. Cardinality(DOMAIN s.tasks) = Len(s.order)
    BY <1>1, <1>3, FS_CountingElements DEF ExistsBijection
  <1>5. ListTraces(s, MaxTraces) = [i \in 1..Len(s.order) |-> s.order[Len(s.order) + 1 - i]]
    <2>1. Len(s.order) = MaxTraces \/ Len(s.order) < MaxTraces
      BY <1>1, TraceAssumption DEF SoundStore
    <2>2. QED
      BY <1>1, <2>1, TraceAssumption DEF ListTraces
  <1>6. \A i \in 1..Len(s.order) : /\ Len(s.order) + 1 - i \in 1..Len(s.order)
                                   /\ Len(s.order) + 1 - (Len(s.order) + 1 - i) = i
    BY <1>1
  <1>7. Range(ListTraces(s, MaxTraces)) = DOMAIN s.tasks
    <2>1. Range(ListTraces(s, MaxTraces)) = {s.order[Len(s.order) + 1 - i] : i \in 1..Len(s.order)}
      BY <1>5 DEF Range
    <2>2. \A k \in DOMAIN s.tasks : \E i \in 1..Len(s.order) : s.order[Len(s.order) + 1 - i] = k
      <3>1. ASSUME NEW k \in DOMAIN s.tasks
            PROVE  \E i \in 1..Len(s.order) : s.order[Len(s.order) + 1 - i] = k
        <4>1. PICK j \in 1..Len(s.order) : s.order[j] = k
          BY <1>2
        <4>2. QED
          BY <1>6, <4>1
      <3>2. QED
        BY <3>1
    <2>3. \A i \in 1..Len(s.order) : s.order[Len(s.order) + 1 - i] \in DOMAIN s.tasks
      BY <1>2, <1>6
    <2>4. QED
      BY <2>1, <2>2, <2>3
  <1>8. QED
    BY <1>4, <1>7

\* Each row of a trace leads back to it, and by its task id to the rows of it.
LEMMA SoundRows ==
  ASSUME NEW s, SoundStore(s), NEW k \in DOMAIN s.tasks, NEW t \in s.tasks[k]
  PROVE  PrimaryForTask(s, t) = {k} /\ t \in GetTrace(s, Group(t))
  <1>1. t \in Row /\ Client(t) = k
    BY StoreFields DEF SoundStore, StoreInv
  <1>2. ASSUME NEW i \in Index PROVE Filed(t)[i] \in DOMAIN s.index[i] /\ s.index[i][Filed(t)[i]] = k
    <2>1. Filed(t)[i] \in FiledOf(s.tasks[k], i)
      BY DEF FiledOf
    <2>2. Filed(t)[i] \in DOMAIN s.index[i]
      BY <2>1, EntryIs DEF SoundStore, StoreInv
    <2>3. QED
      BY <1>1, <2>2, FiledBelongs DEF SoundStore, StoreInv
  <1>3. "commitment" \in {i \in Index : Filed(t)[i] \in DOMAIN s.index[i]} /\ "taskID" \in Index
    BY <1>2 DEF Index
  <1>4. PrimaryForTask(s, t) = {s.index["commitment"][Filed(t)["commitment"]]}
    BY <1>3 DEF PrimaryForTask
  <1>5. Filed(t)["taskID"] = Group(t)
    BY DEF Filed
  <1>6. QED
    BY <1>2, <1>3, <1>4, <1>5 DEF GetTrace, Index

=============================================================================
