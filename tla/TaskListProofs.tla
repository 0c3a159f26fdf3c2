--------------------------- MODULE TaskListProofs ---------------------------
(***************************************************************************)
(* The operations on the task list keep it in the order of the passes,     *)
(* however often these have wrapped around.  The lemmas speak of distances *)
(* from the pass of the head: along an ordered list they grow, and none is *)
(* longer than the longest stride, which is less than half of the numbers  *)
(* there are.                                                              *)
(***************************************************************************)
EXTENDS TaskList, WellFoundedInduction, SequenceTheorems, TLAPS

(* A set of numbers that is not empty has a least one. *)
LEMMA LeastNat ==
  ASSUME NEW S, S \subseteq Nat, S # {}
  PROVE  \E n \in S : \A m \in S : n <= m
<1>1. \E n \in S : \A m \in S : ~(m < n)
  <2>1. \E n \in S : \A m \in S : ~(<<m, n>> \in OpToRel(<, Nat))
    BY NatLessThanWellFounded, WFMin, Zenon
  <2> QED
    BY <2>1, Zenon DEF OpToRel
<1> QED
  BY <1>1

(* Sums and differences of passes are passes, and the difference of two    *)
(* passes undoes their sum.                                                *)
LEMMA Arithmetic ==
  /\ MaxStride \in Nat /\ Modulus \in Nat /\ 2 * MaxStride < Modulus
  /\ Pass \subseteq Nat
  /\ \A a \in Pass, b \in 0..MaxStride : Plus(a, b) \in Pass /\ Minus(Plus(a, b), a) = b
  /\ \A a, b \in Pass : Minus(a, b) \in Pass
  /\ \A a \in Pass : Minus(a, a) = 0
BY TaskAssumption DEF Pass, Plus, Minus

(* Passes that are no more than MaxStride past some pass h are compared    *)
(* by how far they are.                                                    *)
LEMMA Compare ==
  ASSUME NEW h \in Pass, NEW x \in Pass, NEW y \in Pass,
         Minus(x, h) <= MaxStride, Minus(y, h) <= MaxStride
  PROVE  /\ PassGT(x, y) <=> Minus(x, h) > Minus(y, h)
         /\ Minus(y, h) <= Minus(x, h) => Minus(x, y) = Minus(x, h) - Minus(y, h)
BY TaskAssumption DEF Pass, Minus, PassGT

(* The list is in order when all its passes are counted from h. *)
SortedFrom(l, ps, h) ==
  /\ \A i, j \in 1..Len(l) : l[i] = l[j] => i = j
  /\ \A i, j \in 1..Len(l) : i <= j => Minus(ps[l[i]], h) <= Minus(ps[l[j]], h)
  /\ \A i \in 1..Len(l) : Minus(ps[l[i]], h) <= MaxStride

(* A list sorted from the pass of its head is an ordered one. *)
LEMMA SortedIsOrdered ==
  ASSUME NEW l \in Seq(Task), NEW ps \in [Task -> Pass], NEW h \in Pass,
         SortedFrom(l, ps, h)
  PROVE  Ordered(l, ps)
<1>1. CASE Len(l) = 0
  BY <1>1 DEF Ordered
<1>2. CASE Len(l) # 0
  <2>1. 1 \in 1..Len(l) /\ \A i \in 1..Len(l) : l[i] \in Task /\ ps[l[i]] \in Pass
    BY <1>2
  <2>2. ASSUME NEW i \in 1..Len(l)
        PROVE  Behind(l, ps, i) = Minus(ps[l[i]], h) - Minus(ps[l[1]], h)
    <3>1. /\ Minus(ps[l[i]], h) <= MaxStride
          /\ Minus(ps[l[1]], h) <= MaxStride
          /\ Minus(ps[l[1]], h) <= Minus(ps[l[i]], h)
      BY <2>1 DEF SortedFrom
    <3> QED
      BY <2>1, <3>1, Compare DEF Behind
  <2>3. \A i \in 1..Len(l) : Minus(ps[l[i]], h) \in Nat
    BY <2>1, Arithmetic, Zenon
  <2>4. \A i, j \in 1..Len(l) : i <= j => Behind(l, ps, i) <= Behind(l, ps, j)
    BY <2>1, <2>2, <2>3 DEF SortedFrom
  <2>5. \A i \in 1..Len(l) : Behind(l, ps, i) <= MaxStride
    BY <2>1, <2>2, <2>3, Arithmetic DEF SortedFrom
  <2> QED
    BY <2>4, <2>5 DEF Ordered, SortedFrom
<1> QED
  BY <1>1, <1>2

(* An ordered list is sorted from the pass of its head. *)
LEMMA OrderedIsSorted ==
  ASSUME NEW l \in Seq(Task), NEW ps \in [Task -> Pass], l # <<>>, Ordered(l, ps)
  PROVE  SortedFrom(l, ps, ps[l[1]])
BY DEF Ordered, SortedFrom, Behind

(* Without its head a list stays sorted from the same pass. *)
LEMMA TailSorted ==
  ASSUME NEW l \in Seq(Task), NEW ps \in [Task -> Pass], NEW h \in Pass, l # <<>>,
         SortedFrom(l, ps, h)
  PROVE  /\ Tail(l) \in Seq(Task)
         /\ ~OnList(Tail(l), l[1])
         /\ \A t : t # l[1] => (OnList(Tail(l), t) <=> OnList(l, t))
         /\ SortedFrom(Tail(l), ps, h)
<1>1. /\ Tail(l) \in Seq(Task) /\ Len(Tail(l)) = Len(l) - 1 /\ Len(l) \in Nat \ {0}
      /\ \A i \in 1..Len(Tail(l)) : Tail(l)[i] = l[i + 1]
  BY HeadTailProperties, EmptySeq
<1>2. ~OnList(Tail(l), l[1])
  BY <1>1 DEF OnList, SortedFrom
<1>3. ASSUME NEW t, t # l[1]
      PROVE  OnList(Tail(l), t) <=> OnList(l, t)
  <2>1. OnList(Tail(l), t) => OnList(l, t)
    BY <1>1 DEF OnList
  <2>2. ASSUME NEW i \in 1..Len(l), l[i] = t
        PROVE  OnList(Tail(l), t)
    <3>1. i - 1 \in 1..Len(Tail(l)) /\ Tail(l)[i - 1] = t
      BY <1>1, <1>3, <2>2
    <3> QED
      BY <3>1, SMTT(30) DEF OnList
  <2> QED
    BY <2>1, <2>2 DEF OnList
<1>4. SortedFrom(Tail(l), ps, h)
  BY <1>1 DEF SortedFrom
<1> QED
  BY <1>1, <1>2, <1>3, <1>4

(* The place a task is put at exists, and the tasks before it and after it *)
(* are the ones with no greater and with greater passes.                   *)
LEMMA SlotIs ==
  ASSUME NEW l \in Seq(Task), NEW ps, NEW p
  PROVE  /\ Slot(l, ps, p) \in 1..(Len(l) + 1)
         /\ \A j \in 1..(Slot(l, ps, p) - 1) : ~PassGT(ps[l[j]], p)
         /\ Slot(l, ps, p) <= Len(l) => PassGT(ps[l[Slot(l, ps, p)]], p)
<1> DEFINE S == {i \in 1..(Len(l) + 1) : i <= Len(l) => PassGT(ps[l[i]], p)}
<1>1. S \subseteq Nat /\ Len(l) + 1 \in S
  OBVIOUS
<1>2. PICK n \in S : \A m \in S : n <= m
  BY <1>1, LeastNat, Zenon
<1>3. /\ n \in 1..(Len(l) + 1)
      /\ \A j \in 1..(n - 1) : ~PassGT(ps[l[j]], p)
      /\ n <= Len(l) => PassGT(ps[l[n]], p)
  BY <1>2
<1> QED
  BY <1>3, SMTT(30) DEF Slot

(* The list with a task put in. *)
LEMMA Inserted ==
  ASSUME NEW l \in Seq(Task), NEW n \in 1..(Len(l) + 1), NEW t \in Task
  PROVE  /\ InsertAt(l, n, t) \in Seq(Task)
         /\ Len(InsertAt(l, n, t)) = Len(l) + 1
         /\ \A k \in 1..(Len(l) + 1) :
              InsertAt(l, n, t)[k] = IF k < n THEN l[k] ELSE IF k = n THEN t ELSE l[k - 1]
         /\ \A u : OnList(InsertAt(l, n, t), u) <=> u = t \/ OnList(l, u)
<1> DEFINE m == InsertAt(l, n, t)
<1>1. /\ m \in Seq(Task)
      /\ Len(m) = Len(l) + 1
      /\ \A k \in 1..(Len(l) + 1) :
           m[k] = IF k < n THEN l[k] ELSE IF k = n THEN t ELSE l[k - 1]
  BY DEF InsertAt
<1>2. ASSUME NEW u, OnList(m, u)
      PROVE  u = t \/ OnList(l, u)
  <2>1. PICK k \in 1..(Len(l) + 1) : m[k] = u
    BY <1>1, <1>2 DEF OnList
  <2> HIDE DEF m
  <2>2. CASE k < n
    BY <1>1, <2>1, <2>2 DEF OnList
  <2>3. CASE k = n
    BY <1>1, <2>1, <2>3
  <2>4. CASE k > n
    <3>1. l[k - 1] = u /\ k - 1 \in 1..Len(l)
      BY <1>1, <2>1, <2>4
    <3> QED
      BY <3>1 DEF OnList
  <2> QED
    BY <2>2, <2>3, <2>4
<1>3. m[n] = t /\ n \in 1..Len(m)
  BY <1>1
<1>4. ASSUME NEW u, NEW i \in 1..Len(l), l[i] = u
      PROVE  OnList(m, u)
  <2>1. CASE i < n
    <3>1. m[i] = u /\ i \in 1..Len(m)
      BY <1>1, <1>4, <2>1
    <3> QED
      BY <3>1 DEF OnList
  <2>2. CASE ~(i < n)
    <3>1. m[i + 1] = u /\ i + 1 \in 1..Len(m)
      BY <1>1, <1>4, <2>2
    <3> QED
      BY <3>1 DEF OnList
  <2> QED
    BY <2>1, <2>2
<1>5. \A u : OnList(m, u) <=> u = t \/ OnList(l, u)
  BY <1>2, <1>3, <1>4, Zenon DEF OnList
<1> QED
  BY <1>1, <1>5

(* A task put at its place, no more than the longest stride behind, keeps  *)
(* the list sorted.                                                        *)
LEMMA InsertSorted ==
  ASSUME NEW l \in Seq(Task), NEW ps \in [Task -> Pass], NEW h \in Pass,
         NEW p \in Pass, NEW t \in Task,
         SortedFrom(l, ps, h), Minus(p, h) <= MaxStride, ~OnList(l, t)
  PROVE  SortedFrom(InsertAt(l, Slot(l, ps, p), t), [ps EXCEPT ![t] = p], h)
<1> DEFINE n == Slot(l, ps, p)
           m == InsertAt(l, n, t)
           q == [ps EXCEPT ![t] = p]
           d(k) == Minus(ps[l[k]], h)
<1>1. n \in 1..(Len(l) + 1) /\ Len(l) \in Nat
  BY SlotIs
<1>2. /\ Len(m) = Len(l) + 1
      /\ \A k \in 1..(Len(l) + 1) :
           m[k] = IF k < n THEN l[k] ELSE IF k = n THEN t ELSE l[k - 1]
  BY <1>1, Inserted, SMTT(30)
<1>3. \A k \in 1..Len(l) : /\ l[k] \in Task /\ l[k] # t /\ ps[l[k]] \in Pass
                           /\ d(k) \in Nat /\ d(k) <= MaxStride
  <2>1. \A k \in 1..Len(l) : l[k] \in Task /\ l[k] # t /\ ps[l[k]] \in Pass
    BY DEF OnList
  <2>2. \A k \in 1..Len(l) : d(k) \in Pass /\ d(k) <= MaxStride
    BY <2>1, Arithmetic, Zenon DEF SortedFrom
  <2> QED
    BY <2>1, <2>2, Arithmetic, Zenon
<1>4. Minus(p, h) \in Nat
  BY Arithmetic, Zenon
<1>5. ASSUME NEW k \in 1..Len(l), k < n
      PROVE  d(k) <= Minus(p, h)
  <2>1. ~PassGT(ps[l[k]], p)
    BY <1>1, <1>5, SlotIs
  <2>2. PassGT(ps[l[k]], p) <=> d(k) > Minus(p, h)
    BY <1>3, Compare
  <2> QED
    BY <1>3, <1>4, <2>1, <2>2
<1>6. ASSUME NEW k \in 1..Len(l), n <= k
      PROVE  Minus(p, h) <= d(k)
  <2>1. n \in 1..Len(l) /\ PassGT(ps[l[n]], p)
    BY <1>1, <1>6, SlotIs
  <2>2. PassGT(ps[l[n]], p) <=> d(n) > Minus(p, h)
    BY <1>3, <2>1, Compare
  <2>3. d(n) <= d(k)
    BY <1>6, <2>1 DEF SortedFrom
  <2> QED
    BY <1>3, <1>4, <2>1, <2>2, <2>3
<1>7. \A k \in 1..Len(m) :
        Minus(q[m[k]], h) = IF k < n THEN d(k) ELSE IF k = n THEN Minus(p, h) ELSE d(k - 1)
  <2> TAKE k \in 1..Len(m)
  <2>1. CASE k < n
    <3>1. m[k] = l[k] /\ k \in 1..Len(l)
      BY <1>1, <1>2, <2>1
    <3> QED
      BY <1>3, <2>1, <3>1
  <2>2. CASE k = n
    BY <1>1, <1>2, <2>2
  <2>3. CASE k > n
    <3>1. m[k] = l[k - 1] /\ k - 1 \in 1..Len(l)
      BY <1>1, <1>2, <2>3
    <3>2. ~(k < n) /\ k # n
      BY <1>1, <2>3
    <3> QED
      BY <1>3, <3>1, <3>2
  <2> QED
    BY <1>1, <1>2, <2>1, <2>2, <2>3
<1>8. \A i, j \in 1..Len(m) : m[i] = m[j] => i = j
  <2> HIDE DEF m, n, d, q
  <2>1. \A i, j \in 1..Len(l) : l[i] = l[j] => i = j
    BY DEF SortedFrom
  <2>2. ASSUME NEW i \in 1..Len(m), NEW j \in 1..Len(m), i < j
        PROVE  m[i] # m[j]
    <3>1. CASE j < n
      BY <1>1, <1>2, <2>1, <2>2, <3>1
    <3>2. CASE i < n /\ j = n
      BY <1>1, <1>2, <1>3, <2>2, <3>2
    <3>3. CASE i < n /\ j > n
      <4>1. /\ m[i] = l[i] /\ i \in 1..Len(l)
            /\ m[j] = l[j - 1] /\ j - 1 \in 1..Len(l)
        BY <1>1, <1>2, <2>2, <3>3
      <4>2. i # j - 1
        BY <1>1, <3>3
      <4> QED
        BY <2>1, <4>1, <4>2
    <3>4. CASE i = n
      <4>1. m[i] = t /\ m[j] = l[j - 1] /\ j - 1 \in 1..Len(l)
        BY <1>1, <1>2, <2>2, <3>4
      <4> QED
        BY <1>3, <4>1
    <3>5. CASE i > n
      <4>1. /\ m[i] = l[i - 1] /\ i - 1 \in 1..Len(l)
            /\ m[j] = l[j - 1] /\ j - 1 \in 1..Len(l)
        BY <1>1, <1>2, <2>2, <3>5
      <4>2. i - 1 # j - 1
        BY <2>2
      <4> QED
        BY <2>1, <4>1, <4>2
    <3> QED
      BY <1>1, <1>2, <2>2, <3>1, <3>2, <3>3, <3>4, <3>5
  <2> QED
    BY <1>1, <1>2, <2>2
<1>9. \A i, j \in 1..Len(l) : i <= j => d(i) <= d(j)
  BY DEF SortedFrom
<1> HIDE DEF d, n, m, q
<1>10. \A i, j \in 1..Len(m) : i <= j => Minus(q[m[i]], h) <= Minus(q[m[j]], h)
  <2> SUFFICES ASSUME NEW i \in 1..Len(m), NEW j \in 1..Len(m), i <= j
               PROVE  Minus(q[m[i]], h) <= Minus(q[m[j]], h)
    OBVIOUS
  <2>1. CASE j < n
    BY <1>1, <1>2, <1>7, <1>9, <2>1
  <2>2. CASE i < n /\ j = n
    BY <1>1, <1>2, <1>5, <1>7, <2>2
  <2>3. CASE i < n /\ j > n
    BY <1>1, <1>2, <1>7, <1>9, <2>3
  <2>4. CASE i = n /\ j = n
    BY <1>1, <1>4, <1>7, <2>4
  <2>5. CASE i = n /\ j > n
    BY <1>1, <1>2, <1>6, <1>7, <2>5
  <2>6. CASE i > n
    BY <1>1, <1>2, <1>7, <1>9, <2>6
  <2> QED
    BY <1>1, <1>2, <2>1, <2>2, <2>3, <2>4, <2>5, <2>6
<1>11. \A i \in 1..Len(m) : Minus(q[m[i]], h) <= MaxStride
  BY <1>1, <1>2, <1>3, <1>7
<1>12. SortedFrom(m, q, h)
  BY <1>8, <1>10, <1>11 DEF SortedFrom
<1> QED
  BY <1>12 DEF n, m, q

-----------------------------------------------------------------------------
(* The operations on the tasks. *)

TaskRecord == [list : Seq(Task), pass : [Task -> Pass], sched : [Task -> BOOLEAN]]

(* The tasks that K describes are well typed and their list is ordered. *)
GoodTasks(K) == K \in TaskRecord /\ Ordered(K.list, K.pass)

(* Task::reschedule keeps the list good, lists the task and sets           *)
(* is_scheduled.                                                           *)
LEMMA RescheduledGood ==
  ASSUME NEW K, GoodTasks(K), NEW t \in Task
  PROVE  /\ GoodTasks(Rescheduled(K, t))
         /\ Rescheduled(K, t).sched = [K.sched EXCEPT ![t] = TRUE]
         /\ \A u : OnList(Rescheduled(K, t).list, u) <=> u = t \/ OnList(K.list, u)
<1>1. K.list \in Seq(Task) /\ K.pass \in [Task -> Pass] /\ K.sched \in [Task -> BOOLEAN]
      /\ Ordered(K.list, K.pass)
  BY DEF GoodTasks, TaskRecord
<1>2. CASE OnList(K.list, t)
  <2>1. Rescheduled(K, t) = [K EXCEPT !.sched[t] = TRUE]
    BY <1>2 DEF Rescheduled
  <2>2. /\ Rescheduled(K, t) \in TaskRecord
        /\ Rescheduled(K, t).list = K.list /\ Rescheduled(K, t).pass = K.pass
        /\ Rescheduled(K, t).sched = [K.sched EXCEPT ![t] = TRUE]
    <3>1. [K EXCEPT !.sched[t] = TRUE] \in TaskRecord
      BY Zenon DEF GoodTasks, TaskRecord
    <3>2. /\ [K EXCEPT !.sched[t] = TRUE].list = K.list
          /\ [K EXCEPT !.sched[t] = TRUE].pass = K.pass
          /\ [K EXCEPT !.sched[t] = TRUE].sched = [K.sched EXCEPT ![t] = TRUE]
      BY DEF GoodTasks, TaskRecord
    <3> QED
      BY <2>1, <3>1, <3>2
  <2> QED
    BY <1>1, <1>2, <2>2 DEF GoodTasks
<1>3. CASE ~OnList(K.list, t)
  <2> DEFINE p == NewPass(K.list, K.pass, t)
             n == Slot(K.list, K.pass, p)
             h == IF K.list = <<>> THEN 0 ELSE K.pass[K.list[1]]
             m == InsertAt(K.list, n, t)
             q == [K.pass EXCEPT ![t] = p]
  <2>1. Rescheduled(K, t) =
          [sched |-> [K.sched EXCEPT ![t] = TRUE], pass |-> q, list |-> m]
    BY <1>3 DEF Rescheduled
  <2>2. h \in Pass
    <3>1. CASE K.list = <<>>
      BY <3>1, TaskAssumption DEF Pass
    <3>2. CASE K.list # <<>>
      <4>1. K.list[1] \in Task
        BY <1>1, <3>2
      <4> QED
        BY <1>1, <3>2, <4>1
    <3> QED
      BY <3>1, <3>2
  <2>3. p \in Pass /\ Minus(p, h) <= MaxStride
    <3>1. Stride[t] \in 0..MaxStride /\ p = Plus(h, Stride[t])
      BY TaskAssumption DEF NewPass
    <3> HIDE DEF h, p
    <3>2. Plus(h, Stride[t]) \in Pass /\ Minus(Plus(h, Stride[t]), h) = Stride[t]
      BY <2>2, <3>1, Arithmetic
    <3> QED
      BY <3>1, <3>2
  <2>4. SortedFrom(K.list, K.pass, h)
    <3>1. CASE K.list = <<>>
      BY <3>1 DEF SortedFrom
    <3>2. CASE K.list # <<>>
      BY <1>1, <3>2, OrderedIsSorted, SMTT(30)
    <3> QED
      BY <3>1, <3>2
  <2>5. SortedFrom(m, q, h)
    BY <1>1, <1>3, <2>2, <2>3, <2>4, InsertSorted
  <2>6. n \in 1..(Len(K.list) + 1)
    BY <1>1, SlotIs
  <2>7. m \in Seq(Task) /\ \A u : OnList(m, u) <=> u = t \/ OnList(K.list, u)
    BY <1>1, <2>6, Inserted
  <2>8. q \in [Task -> Pass] /\ [K.sched EXCEPT ![t] = TRUE] \in [Task -> BOOLEAN]
    BY <1>1, <2>3
  <2>9. Ordered(m, q)
    BY <2>2, <2>5, <2>7, <2>8, SortedIsOrdered
  <2> HIDE DEF m, q
  <2> QED
    BY <2>1, <2>7, <2>8, <2>9 DEF GoodTasks, TaskRecord
<1> QED
  BY <1>2, <1>3
(* Task::unschedule only clears is_scheduled. *)
LEMMA UnscheduledGood ==
  ASSUME NEW K, GoodTasks(K), NEW t \in Task
  PROVE  /\ GoodTasks(Unscheduled(K, t))
         /\ Unscheduled(K, t).sched = [K.sched EXCEPT ![t] = FALSE]
         /\ Unscheduled(K, t).list = K.list
BY Zenon DEF GoodTasks, TaskRecord, Unscheduled

(* Taking the head off keeps the list good, with the other tasks on it. *)
LEMMA HeadRemovedGood ==
  ASSUME NEW K, GoodTasks(K), K.list # <<>>
  PROVE  /\ GoodTasks(HeadRemoved(K))
         /\ HeadRemoved(K).sched = K.sched
         /\ \A u : u # K.list[1] /\ OnList(K.list, u) => OnList(HeadRemoved(K).list, u)
<1> DEFINE l == Tail(K.list)
           q == [K.pass EXCEPT ![K.list[1]] = 0]
           h == K.pass[K.list[1]]
<1>1. K.list \in Seq(Task) /\ K.pass \in [Task -> Pass] /\ K.sched \in [Task -> BOOLEAN]
      /\ Ordered(K.list, K.pass)
  BY DEF GoodTasks, TaskRecord
<1>2. K.list[1] \in Task /\ h \in Pass /\ 0 \in Pass
  BY <1>1, TaskAssumption, SMTT(30) DEF Pass
<1>3. SortedFrom(K.list, K.pass, h)
  BY <1>1, OrderedIsSorted
<1>4. /\ l \in Seq(Task) /\ ~OnList(l, K.list[1]) /\ SortedFrom(l, K.pass, h)
      /\ \A u : u # K.list[1] => (OnList(l, u) <=> OnList(K.list, u))
  BY <1>1, <1>2, <1>3, TailSorted
<1>5. \A i \in 1..Len(l) : l[i] \in Task /\ q[l[i]] = K.pass[l[i]]
  BY <1>1, <1>4 DEF OnList
<1>6. SortedFrom(l, q, h)
  BY <1>4, <1>5 DEF SortedFrom
<1>7. q \in [Task -> Pass]
  BY <1>1, <1>2
<1>8. Ordered(l, q)
  BY <1>2, <1>4, <1>6, <1>7, SortedIsOrdered, Zenon
<1>9. HeadRemoved(K) \in TaskRecord /\ HeadRemoved(K).list = l
      /\ HeadRemoved(K).pass = q /\ HeadRemoved(K).sched = K.sched
  BY <1>1, <1>4, <1>7, Zenon DEF HeadRemoved, GoodTasks, TaskRecord
<1> QED
  BY <1>4, <1>8, <1>9 DEF GoodTasks

(* The head put back at its new place keeps the list good, with the same   *)
(* tasks on it.                                                            *)
LEMMA RequeuedGood ==
  ASSUME NEW K, GoodTasks(K), K.list # <<>>, NEW worked \in BOOLEAN
  PROVE  /\ GoodTasks(Requeued(K, worked))
         /\ Requeued(K, worked).sched = K.sched
         /\ \A u : OnList(K.list, u) => OnList(Requeued(K, worked).list, u)
<1> DEFINE t == K.list[1]
           l == Tail(K.list)
           h == K.pass[t]
           p == NextPass(K, worked)
           n == Slot(l, K.pass, p)
           m == InsertAt(l, n, t)
           q == [K.pass EXCEPT ![t] = p]
<1>1. K.list \in Seq(Task) /\ K.pass \in [Task -> Pass] /\ K.sched \in [Task -> BOOLEAN]
      /\ Ordered(K.list, K.pass)
  BY DEF GoodTasks, TaskRecord
<1>2. t \in Task /\ h \in Pass
  BY <1>1
<1>3. SortedFrom(K.list, K.pass, h)
  BY <1>1, OrderedIsSorted
<1>4. /\ l \in Seq(Task) /\ ~OnList(l, t) /\ SortedFrom(l, K.pass, h)
      /\ \A u : u # t => (OnList(l, u) <=> OnList(K.list, u))
  BY <1>1, <1>2, <1>3, TailSorted
<1>5. p \in Pass /\ Minus(p, h) <= MaxStride
  <2>1. Stride[t] \in 1..MaxStride /\ Stride[t] \in 0..MaxStride
    BY <1>2, TaskAssumption
  <2>2. Plus(h, Stride[t]) \in Pass /\ Minus(Plus(h, Stride[t]), h) = Stride[t]
    BY <1>2, <2>1, Arithmetic, Zenon
  <2>3. Len(K.list) > 1 =>
          K.pass[K.list[2]] \in Pass /\ Minus(K.pass[K.list[2]], h) <= MaxStride
    BY <1>1, <1>3 DEF SortedFrom
  <2>4. p = Plus(h, Stride[t]) \/ (Len(K.list) > 1 /\ p = K.pass[K.list[2]])
    BY DEF NextPass
  <2> HIDE DEF h, p, t
  <2> QED
    BY <2>1, <2>2, <2>3, <2>4
<1>6. SortedFrom(m, q, h)
  BY <1>1, <1>2, <1>4, <1>5, InsertSorted, Zenon
<1>7. n \in 1..(Len(l) + 1)
  BY <1>4, SlotIs, Zenon
<1>8. m \in Seq(Task) /\ \A u : OnList(m, u) <=> u = t \/ OnList(l, u)
  <2> HIDE DEF l, n, t
  <2> QED
    BY <1>2, <1>4, <1>7, Inserted, ZenonT(30)
<1>9. q \in [Task -> Pass]
  BY <1>1, <1>5
<1>10. Ordered(m, q)
  BY <1>2, <1>6, <1>8, <1>9, SortedIsOrdered
<1>11. Requeued(K, worked) = [K EXCEPT !.pass = q, !.list = m]
  BY <1>1 DEF Requeued, GoodTasks, TaskRecord
<1> HIDE DEF m, q
<1>12. Requeued(K, worked) \in TaskRecord /\ Requeued(K, worked).list = m
       /\ Requeued(K, worked).pass = q /\ Requeued(K, worked).sched = K.sched
  BY <1>8, <1>9, <1>11, Zenon DEF GoodTasks, TaskRecord
<1> QED
  BY <1>4, <1>8, <1>10, <1>12 DEF GoodTasks

(* "fix task list" keeps the list good, and every scheduled task on it. *)
LEMMA FixedGood ==
  ASSUME NEW K, GoodTasks(K), K.list # <<>>, NEW worked \in BOOLEAN
  PROVE  /\ GoodTasks(Fixed(K, worked))
         /\ Fixed(K, worked).sched = K.sched
         /\ \A u : K.sched[u] /\ OnList(K.list, u) => OnList(Fixed(K, worked).list, u)
BY HeadRemovedGood, RequeuedGood DEF Fixed
=============================================================================
