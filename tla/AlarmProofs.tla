----------------------------- MODULE AlarmProofs -----------------------------
(***************************************************************************)
(* Machine-checked proofs about Alarm, for any alarms, periods and threads *)
(* under the discipline Usage.                                             *)
(***************************************************************************)
EXTENDS Alarm, SequenceTheorems, WellFoundedInduction, TLAPS

\* An alarm set with alarm_set_on_mloop is used on the main message loop only.
\* Without it the closure of a cancelled alarm can be the one the loop has just
\* started (alarm.cc:268), and a callback comes after alarm_cancel.
Usage == \A a \in Alarms : Target[a] = "mloop" => Users[a] \subseteq {"mloop"}

-------------------------------------------------------------------------------
(* Lists without repetition *)

LEMMA SequenceFromFunction ==
  ASSUME NEW S, NEW n \in Nat, NEW f \in [1 .. n -> S]
  PROVE  f \in Seq(S) /\ Len(f) = n /\ DOMAIN f = 1 .. n
<1>1. f \in Seq(S) /\ DOMAIN f = 1 .. n
  BY SeqDef, SMTT(30)
<1> QED
  BY <1>1, LenProperties, SMTT(30)

LEMMA LeastIndex ==
  ASSUME NEW X \in SUBSET Nat, X # {}
  PROVE  \E i \in X : \A j \in X : i <= j
<1>1. \E i \in X : \A j \in X : ~(<<j, i>> \in OpToRel(<, Nat))
  BY NatLessThanWellFounded, WFMin, Zenon
<1>2. PICK i \in X : \A j \in X : ~(<<j, i>> \in OpToRel(<, Nat))
  BY <1>1, Zenon
<1>3. \A j \in X : ~(j < i)
  <2>1. \A j \in X : /\ <<j, i>> \in Nat \X Nat
                     /\ <<j, i>>[1] = j /\ <<j, i>>[2] = i
    BY SMTT(30)
  <2> QED
    BY <1>2, <2>1, Zenon DEF OpToRel
<1> QED
  BY <1>3, SMTT(30)

\* list_remove: the other elements stay, and so does the first one.
LEMMA WithoutProperties ==
  ASSUME NEW S, NEW s \in Seq(S), NEW a, IsInjective(s)
  PROVE  /\ Without(s, a) \in Seq(S) /\ IsInjective(Without(s, a))
         /\ Range(Without(s, a)) = Range(s) \ {a}
         /\ s # <<>> /\ Head(s) # a =>
              Without(s, a) # <<>> /\ Head(Without(s, a)) = Head(s)
<1>1. CASE a \notin Range(s)
  BY <1>1, Zenon DEF Without
<1>2. CASE a \in Range(s)
  <2>1. PICK n : n = Len(s)
    BY Zenon
  <2>2. n \in Nat /\ DOMAIN s = 1 .. n /\ s \in [1 .. n -> S]
    BY <2>1, LenProperties, ElementOfSeq, SMTT(30)
  <2>3. \E i \in DOMAIN s : s[i] = a /\ \A j \in 1 .. i - 1 : s[j] # a
    BY <1>2, <2>2, SMTT(30) DEF Range, IsInjective
  <2>4. PICK i : i = CHOOSE k \in DOMAIN s : s[k] = a /\ \A j \in 1 .. k - 1 : s[j] # a
    BY Zenon
  <2>5. i \in 1 .. n /\ s[i] = a
    BY <2>2, <2>3, <2>4, Zenon
  <2>6. PICK r : r = [j \in 1 .. n - 1 |-> IF j < i THEN s[j] ELSE s[j + 1]]
    BY Zenon
  <2>7. Without(s, a) = r
    BY <1>2, <2>1, <2>4, <2>6, Zenon DEF Without
  <2>8. /\ n - 1 \in Nat /\ r \in [1 .. n - 1 -> S] /\ DOMAIN r = 1 .. n - 1
        /\ \A j \in 1 .. n - 1 : r[j] = IF j < i THEN s[j] ELSE s[j + 1]
    BY <2>2, <2>5, <2>6, SMTT(30)
  <2>9. r \in Seq(S) /\ Len(r) = n - 1
    BY <2>8, SequenceFromFunction, Zenon
  <2>10. IsInjective(r)
    BY <2>2, <2>5, <2>8, SMTT(30) DEF IsInjective
  <2>11. Range(r) \subseteq Range(s) \ {a}
    BY <2>2, <2>5, <2>8, SMTT(30) DEF IsInjective, Range
  <2>12. ASSUME NEW k \in 1 .. n, s[k] # a
         PROVE  s[k] \in Range(r)
    <3>1. CASE k < i
      BY <2>2, <2>5, <2>8, <3>1, SMTT(30) DEF Range
    <3>2. CASE k > i
      <4>1. k - 1 \in 1 .. n - 1 /\ r[k - 1] = s[k]
        BY <2>2, <2>5, <2>8, <3>2, SMTT(30)
      <4> QED
        BY <2>8, <4>1, Zenon DEF Range
    <3> QED
      BY <2>2, <2>5, <2>12, <3>1, <3>2, SMTT(30)
  <2>13. Range(s) \ {a} \subseteq Range(r)
    BY <2>2, <2>12, Zenon DEF Range
  <2>14. ASSUME s # <<>>, Head(s) # a
         PROVE  r # <<>> /\ Head(r) = Head(s)
    BY <2>1, <2>2, <2>5, <2>8, <2>9, <2>14, HeadTailProperties, EmptySeq, SMTT(30)
  <2> QED
    BY <2>7, <2>9, <2>10, <2>11, <2>13, <2>14, Zenon
<1> QED
  BY <1>1, <1>2, Zenon

LEMMA InsertAfterProperties ==
  ASSUME NEW S, NEW s \in Seq(S), NEW a \in S, NEW n \in 0 .. Len(s),
         IsInjective(s), a \notin Range(s)
  PROVE  /\ insert_after(s, n, a) \in Seq(S) /\ IsInjective(insert_after(s, n, a))
         /\ Range(insert_after(s, n, a)) = Range(s) \cup {a}
         /\ insert_after(s, n, a) # <<>>
         /\ Head(insert_after(s, n, a)) # a => s # <<>> /\ Head(insert_after(s, n, a)) = Head(s)
<1>1. PICK m : m = Len(s)
  BY Zenon
<1>2. m \in Nat /\ n \in 0 .. m /\ DOMAIN s = 1 .. m /\ s \in [1 .. m -> S]
  BY <1>1, LenProperties, ElementOfSeq, SMTT(30)
<1>3. PICK r : r = insert_after(s, n, a)
  BY Zenon
<1>4. r = [j \in 1 .. m + 1 |-> IF j <= n THEN s[j] ELSE IF j = n + 1 THEN a ELSE s[j - 1]]
  BY <1>1, <1>3, Zenon DEF insert_after
<1>5. /\ m + 1 \in Nat /\ r \in [1 .. m + 1 -> S] /\ DOMAIN r = 1 .. m + 1
      /\ \A j \in 1 .. m + 1 :
           r[j] = IF j <= n THEN s[j] ELSE IF j = n + 1 THEN a ELSE s[j - 1]
  BY <1>2, <1>4, SMTT(30)
<1>6. r \in Seq(S) /\ Len(r) = m + 1
  BY <1>5, SequenceFromFunction, Zenon
<1>7. IsInjective(r)
  <2> SUFFICES ASSUME NEW j \in 1 .. m + 1, NEW k \in 1 .. m + 1, r[j] = r[k]
               PROVE  j = k
    BY <1>5, Zenon DEF IsInjective
  <2>1. \A i \in 1 .. m : s[i] # a
    BY <1>2, Zenon DEF Range
  <2>2. \A x, y \in 1 .. m : s[x] = s[y] => x = y
    BY <1>2, Zenon DEF IsInjective
  <2> QED
    BY <1>2, <1>5, <2>1, <2>2, SMTT(30)
<1>8. Range(r) \subseteq Range(s) \cup {a}
  BY <1>2, <1>5, SMTT(30) DEF Range
<1>9. Range(s) \cup {a} \subseteq Range(r)
  <2>1. a \in Range(r)
    <3>1. n + 1 \in 1 .. m + 1 /\ r[n + 1] = a
      BY <1>2, <1>5, SMTT(30)
    <3> QED
      BY <1>5, <3>1, Zenon DEF Range
  <2>2. ASSUME NEW k \in 1 .. m
        PROVE  s[k] \in Range(r)
    <3>1. CASE k <= n
      <4>1. k \in 1 .. m + 1 /\ r[k] = s[k]
        BY <1>2, <1>5, <3>1, SMTT(30)
      <4> QED
        BY <1>5, <4>1, Zenon DEF Range
    <3>2. CASE k > n
      <4>1. k + 1 \in 1 .. m + 1 /\ r[k + 1] = s[k]
        BY <1>2, <1>5, <3>2, SMTT(30)
      <4> QED
        BY <1>5, <4>1, Zenon DEF Range
    <3> QED
      BY <1>2, <3>1, <3>2, SMTT(30)
  <2> QED
    BY <1>2, <2>1, <2>2, Zenon DEF Range
<1>10. r # <<>> /\ Head(r) = r[1]
  BY <1>2, <1>6, HeadTailProperties, EmptySeq, SMTT(30)
<1>11. ASSUME Head(r) # a
       PROVE  s # <<>> /\ Head(r) = Head(s)
  BY <1>1, <1>2, <1>5, <1>10, <1>11, HeadTailProperties, EmptySeq, SMTT(30)
<1> QED
  BY <1>3, <1>6, <1>7, <1>8, <1>9, <1>10, <1>11, Zenon

\* schedule_next_instance finds a place for the alarm in any list.
LEMMA InsertSortedProperties ==
  ASSUME NEW s \in Seq(Alarms), NEW a \in Alarms, NEW time \in [Alarms -> Nat],
         IsInjective(s), a \notin Range(s)
  PROVE  /\ insert_sorted(s, a, time) \in Seq(Alarms)
         /\ IsInjective(insert_sorted(s, a, time))
         /\ Range(insert_sorted(s, a, time)) = Range(s) \cup {a}
         /\ insert_sorted(s, a, time) # <<>>
         /\ Head(insert_sorted(s, a, time)) # a =>
              s # <<>> /\ Head(insert_sorted(s, a, time)) = Head(s)
<1>1. PICK m : m = Len(s)
  BY Zenon
<1>2. m \in Nat /\ \A i \in 1 .. m : s[i] \in Alarms /\ time[s[i]] \in Nat
  BY <1>1, LenProperties, ElementOfSeq, SMTT(30)
<1>3. PICK X : X = {n \in 0 .. m : n = m \/ time[s[n + 1]] > time[a]}
  BY Zenon
<1>4. X \in SUBSET Nat /\ m \in X
  BY <1>2, <1>3, SMTT(30)
<1>5. PICK n \in X : \A j \in X : n <= j
  BY <1>4, LeastIndex, Zenon
<1>6. \A i \in 1 .. n : time[s[i]] <= time[a]
  <2> SUFFICES ASSUME NEW i \in 1 .. n, ~(time[s[i]] <= time[a])
               PROVE  FALSE
    OBVIOUS
  <2>1. n \in 0 .. m /\ i - 1 \in 0 .. m /\ (i - 1) + 1 = i /\ ~(n <= i - 1)
    BY <1>2, <1>3, <1>5, SMTT(30)
  <2>2. i \in 1 .. m /\ time[a] \in Nat
    BY <1>2, <2>1, SMTT(30)
  <2>3. time[s[i]] > time[a]
    BY <1>2, <2>2, SMTT(30)
  <2>4. i - 1 \in X
    BY <1>3, <2>1, <2>3, Zenon
  <2> QED
    BY <1>5, <2>1, <2>4, Zenon
<1>7. /\ n \in 0 .. Len(s)
      /\ n = Len(s) \/ time[s[n + 1]] > time[a]
      /\ \A i \in 1 .. n : time[s[i]] <= time[a]
  BY <1>1, <1>3, <1>5, <1>6, Zenon
<1>8. PICK k : k = CHOOSE j \in 0 .. Len(s) :
                     /\ j = Len(s) \/ time[s[j + 1]] > time[a]
                     /\ \A i \in 1 .. j : time[s[i]] <= time[a]
  BY Zenon
<1>9. k \in 0 .. Len(s) /\ insert_sorted(s, a, time) = insert_after(s, k, a)
  BY <1>7, <1>8, Zenon DEF insert_sorted
<1>10. PICK r : r = insert_after(s, k, a)
  BY Zenon
<1>11. /\ r \in Seq(Alarms) /\ IsInjective(r) /\ Range(r) = Range(s) \cup {a}
       /\ r # <<>>
       /\ Head(r) # a => s # <<>> /\ Head(r) = Head(s)
  BY <1>9, <1>10, InsertAfterProperties, SMTT(30)
<1>12. insert_sorted(s, a, time) = r
  BY <1>9, <1>10, Zenon
<1> QED
  BY <1>11, <1>12, Zenon

LEMMA AppendElements ==
  ASSUME NEW S, NEW s \in Seq(S), NEW e \in S
  PROVE  /\ Append(s, e) \in Seq(S)
         /\ Range(Append(s, e)) = Range(s) \cup {e}
         /\ IsInjective(s) /\ e \notin Range(s) => IsInjective(Append(s, e))
<1>1. PICK t \in Seq(S) : t = Append(s, e)
  BY AppendProperties, Zenon
<1>2. /\ Len(s) \in Nat /\ DOMAIN s = 1 .. Len(s)
      /\ Len(t) = Len(s) + 1 /\ DOMAIN t = 1 .. Len(s) + 1
      /\ \A i \in 1 .. Len(s) : t[i] = s[i]
      /\ t[Len(s) + 1] = e
  BY <1>1, AppendProperties, LenProperties, SMTT(30)
<1>3. Range(t) = Range(s) \cup {e}
  BY <1>2, SMTT(30) DEF Range
<1>4. IsInjective(s) /\ e \notin Range(s) => IsInjective(t)
  BY <1>2, SMTT(30) DEF Range, IsInjective
<1> QED
  BY <1>1, <1>3, <1>4, Zenon

LEMMA TailElements ==
  ASSUME NEW S, NEW s \in Seq(S), s # <<>>, IsInjective(s)
  PROVE  /\ Head(s) \in S /\ Head(s) \in Range(s)
         /\ Tail(s) \in Seq(S) /\ IsInjective(Tail(s))
         /\ Range(Tail(s)) = Range(s) \ {Head(s)}
<1>1. PICK t \in Seq(S) : t = Tail(s)
  BY HeadTailProperties, Zenon
<1>2. PICK n : n = Len(s)
  BY Zenon
<1>3. /\ n \in Nat \ {0} /\ DOMAIN s = 1 .. n /\ Head(s) = s[1]
      /\ Len(t) = n - 1 /\ DOMAIN t = 1 .. n - 1
      /\ \A i \in 1 .. n - 1 : t[i] = s[i + 1]
  BY <1>1, <1>2, HeadTailProperties, LenProperties, EmptySeq, SMTT(30)
<1>4. Head(s) \in Range(s) /\ Head(s) \in S
  BY <1>3, ElementOfSeq, HeadTailProperties, SMTT(30) DEF Range
<1>5. IsInjective(t)
  <2>1. \A x, y \in 1 .. n : s[x] = s[y] => x = y
    BY <1>3, Zenon DEF IsInjective
  <2>2. \A x, y \in 1 .. n - 1 : t[x] = t[y] => x = y
    BY <1>3, <2>1, SMTT(30)
  <2> QED
    BY <1>3, <2>2, Zenon DEF IsInjective
<1>6. Range(t) \subseteq Range(s) \ {Head(s)}
  BY <1>3, SMTT(30) DEF IsInjective, Range
<1>7. ASSUME NEW k \in 1 .. n, s[k] # Head(s)
      PROVE  s[k] \in Range(t)
  <2>1. k - 1 \in 1 .. n - 1 /\ t[k - 1] = s[k]
    BY <1>3, <1>7, SMTT(30)
  <2> QED
    BY <1>3, <2>1, Zenon DEF Range
<1>8. Range(s) \ {Head(s)} \subseteq Range(t)
  BY <1>3, <1>7, Zenon DEF Range
<1> QED
  BY <1>1, <1>4, <1>5, <1>6, <1>8, Zenon

LEMMA EmptyList == Range(<<>>) = {} /\ IsInjective(<<>>)
  BY SMTT(30) DEF Range, IsInjective

-------------------------------------------------------------------------------
(* The invariant *)

\* The deadline of a periodic alarm lies ahead.
PhaseInv == \A a \in Alarms : phase[a] <= period[a]

\* No list holds an alarm twice, and each queue holds alarms of its own thread.
ListInv ==
  /\ IsInjective(alarms) /\ IsInjective(queue) /\ IsInjective(posted)
  /\ \A a \in Range(queue) : Target[a] = "default"
  /\ \A a \in Range(posted) : Target[a] = "mloop"

TypeInv == TypeOK /\ PhaseInv /\ ListInv

\* The closure that the message loop has started but that has not yet taken
\* alarms_mutex.
Picked(a) == cb["mloop"].pc = "picked" /\ cb["mloop"].alarm = a

\* An expired instance of |a| waits to be called.
Pending(a) == a \in Range(queue) \/ a \in Range(posted) \/ Picked(a)

\* What the service refers to is set, and for every instance that waits to be
\* called there is an expiry: two only for a periodic alarm. A one-shot alarm is
\* in one place at most.
PlaceInv(a) ==
  /\ a \in Range(alarms) => callback[a] = "set"
  /\ Pending(a) => callback[a] = "set" /\ due[a] # 0
  /\ a \in Range(posted) /\ Picked(a) => due[a] = 2
  /\ a \notin PeriodicAlarms => due[a] # 2
  /\ a \in Range(alarms) /\ a \notin PeriodicAlarms => due[a] = 0

\* A callback thread has its own alarms in hand, and alarms_mutex from the time
\* it resets one until it holds the callback mutex.
CallInv(t) ==
  /\ cb[t].pc \in {"cleared", "running"} =>
       cb[t].alarm \in Alarms /\ Target[cb[t].alarm] = t /\ cb[t].call = "due"
  /\ cb[t].pc = "cleared" =>
       alarms_mutex = t /\ (callback[cb[t].alarm] = "set" <=> cb[t].alarm \in PeriodicAlarms)

ThreadInv ==
  /\ cb["default"].pc = "picked" => cb["default"].alarm = NoAlarm
  /\ cb["mloop"].pc = "picked" =>
       cb["mloop"].alarm \in Alarms /\ Target[cb["mloop"].alarm] = "mloop"
  /\ \A t \in CallbackThreads : CallInv(t)
  /\ \A t \in Threads : op[t].pc # "none" => op[t].alarm \in Alarms
  /\ cleanup = "locked" => alarms_mutex = "cleanup"

\* An alarm that is released, or about to be, is not set.
FreedInv(a) ==
  a \in freed \/ (\E t \in Threads : op[t].pc = "free" /\ op[t].alarm = a) =>
    callback[a] = "null"

AlarmInv ==
  /\ TypeInv
  /\ \A a \in Alarms : PlaceInv(a)
  /\ ThreadInv
  /\ \A a \in Alarms : FreedInv(a)

-------------------------------------------------------------------------------
(* What the operations do to the lists *)

LEMMA RemovePending ==
  ASSUME TypeInv, NEW a \in Alarms, remove_pending_alarm(a)
  PROVE  /\ queue' \in Seq(Alarms) /\ posted' \in Seq(Alarms)
         /\ IsInjective(queue') /\ IsInjective(posted')
         /\ Range(queue') = Range(queue) \ {a}
         /\ Range(posted') = Range(posted) \ {a}
<1>1. /\ queue \in Seq(Alarms) /\ IsInjective(queue)
      /\ posted \in Seq(Alarms) /\ IsInjective(posted)
      /\ \A b \in Range(queue) : Target[b] = "default"
      /\ \A b \in Range(posted) : Target[b] = "mloop"
  BY Zenon DEF TypeInv, TypeOK, ListType, ListInv
<1>2. "mloop" # "default"
  OBVIOUS
<1>3. CASE Target[a] = "mloop"
  <2>1. posted' = Without(posted, a) /\ queue' = queue /\ a \notin Range(queue)
    BY <1>1, <1>2, <1>3, Zenon DEF remove_pending_alarm
  <2> QED
    BY <1>1, <2>1, WithoutProperties, Zenon
<1>4. CASE Target[a] # "mloop"
  <2>1. queue' = Without(queue, a) /\ posted' = posted /\ a \notin Range(posted)
    BY <1>1, <1>4, Zenon DEF remove_pending_alarm
  <2> QED
    BY <1>1, <2>1, WithoutProperties, Zenon
<1> QED
  BY <1>3, <1>4, Zenon

\* alarm_set: the alarm is on the list and nowhere else.
LEMMA SetLists ==
  ASSUME TypeInv, NEW t, NEW a \in Alarms, NEW p \in Periods, alarm_set(t, a, p)
  PROVE  /\ ListType' /\ ListInv'
         /\ left' \in [Alarms -> Nat] /\ left' = [left EXCEPT ![a] = p]
         /\ Range(alarms') = Range(alarms) \cup {a}
         /\ Range(queue') = Range(queue) \ {a} /\ Range(posted') = Range(posted) \ {a}
<1>1. /\ alarms \in Seq(Alarms) /\ IsInjective(alarms) /\ left \in [Alarms -> Nat] /\ p \in Nat
      /\ \A b \in Range(queue) : Target[b] = "default"
      /\ \A b \in Range(posted) : Target[b] = "mloop"
  BY TimeAssumption, Zenon DEF TypeInv, TypeOK, ListType, ListInv, RecordType
<1>2. PICK rest, time : /\ rest = Without(alarms, a) /\ time = [left EXCEPT ![a] = p]
                        /\ alarms' = insert_sorted(rest, a, time) /\ left' = time
  BY Zenon DEF alarm_set
<1>3. time \in [Alarms -> Nat]
  BY <1>1, <1>2
<1>4. rest \in Seq(Alarms) /\ IsInjective(rest) /\ Range(rest) = Range(alarms) \ {a}
  BY <1>1, <1>2, WithoutProperties, Zenon
<1>5. PICK list : list = insert_sorted(rest, a, time)
  BY Zenon
<1>6. list \in Seq(Alarms) /\ IsInjective(list) /\ Range(list) = Range(rest) \cup {a}
  BY <1>3, <1>4, <1>5, InsertSortedProperties, SMTT(90)
<1>7. remove_pending_alarm(a)
  BY Zenon DEF alarm_set
<1>8. Range(list) = Range(alarms) \cup {a}
  BY <1>4, <1>6, Zenon
<1> QED
  BY <1>1, <1>2, <1>3, <1>5, <1>6, <1>7, <1>8, RemovePending, Zenon DEF ListType, ListInv

LEMMA CancelLists ==
  ASSUME TypeInv, NEW a \in Alarms, alarm_cancel_internal(a)
  PROVE  /\ ListType' /\ ListInv'
         /\ Range(alarms') = Range(alarms) \ {a}
         /\ Range(queue') = Range(queue) \ {a} /\ Range(posted') = Range(posted) \ {a}
<1>1. /\ alarms \in Seq(Alarms) /\ IsInjective(alarms)
      /\ \A b \in Range(queue) : Target[b] = "default"
      /\ \A b \in Range(posted) : Target[b] = "mloop"
  BY Zenon DEF TypeInv, TypeOK, ListType, ListInv
<1>2. alarms' = Without(alarms, a) /\ remove_pending_alarm(a)
  BY Zenon DEF alarm_cancel_internal
<1>3. alarms' \in Seq(Alarms) /\ IsInjective(alarms') /\ Range(alarms') = Range(alarms) \ {a}
  BY <1>1, <1>2, WithoutProperties, Zenon
<1> QED
  BY <1>1, <1>2, <1>3, RemovePending, Zenon DEF ListType, ListInv

\* callback_dispatch: a one-shot alarm leaves the list, a periodic one stays on
\* it; the alarm joins the queue of its thread, if there is one.
LEMMA DispatchLists ==
  ASSUME TypeInv, dispatch_root, NEW a, a = Head(alarms), PlaceInv(a)
  PROVE  /\ a \in Alarms /\ a \in Range(alarms)
         /\ ListType' /\ ListInv' /\ left' \in [Alarms -> Nat]
         /\ Range(alarms') = IF a \in PeriodicAlarms THEN Range(alarms)
                             ELSE Range(alarms) \ {a}
         /\ \/ /\ Target[a] = "default" /\ UNCHANGED posted
               /\ Range(queue') = Range(queue) \cup {a}
            \/ /\ Target[a] = "mloop" /\ UNCHANGED queue
               /\ Range(posted') \in {Range(posted), Range(posted) \cup {a}}
<1>1. /\ alarms \in Seq(Alarms) /\ IsInjective(alarms) /\ left \in [Alarms -> Nat]
      /\ queue \in Seq(Alarms) /\ IsInjective(queue)
      /\ posted \in Seq(Alarms) /\ IsInjective(posted)
      /\ \A b \in Range(queue) : Target[b] = "default"
      /\ \A b \in Range(posted) : Target[b] = "mloop"
      /\ alarms # <<>>
  BY Zenon DEF TypeInv, TypeOK, ListType, ListInv, RecordType, dispatch_root, Expired
<1>2. PICK rest : rest = Tail(alarms)
  BY Zenon
<1>3. /\ a \in Alarms /\ a \in Range(alarms) /\ rest \in Seq(Alarms) /\ IsInjective(rest)
      /\ Range(rest) = Range(alarms) \ {a}
  BY <1>1, <1>2, TailElements, Zenon
<1>4. /\ alarms' \in Seq(Alarms) /\ IsInjective(alarms') /\ left' \in [Alarms -> Nat]
      /\ Range(alarms') = IF a \in PeriodicAlarms THEN Range(alarms) ELSE Range(alarms) \ {a}
  <2>1. CASE a \in PeriodicAlarms
    <3>1. PICK time : /\ time = [left EXCEPT ![a] = period[a] - phase[a]]
                      /\ alarms' = insert_sorted(rest, a, time) /\ left' = time
      BY <1>2, <2>1, Zenon DEF dispatch_root
    <3>2. period[a] - phase[a] \in Nat
      <4>1. period[a] \in Nat /\ phase[a] \in Nat /\ phase[a] <= period[a]
        BY <1>3, Zenon DEF TypeInv, TypeOK, RecordType, PhaseInv
      <4>2. PICK x, y : x = period[a] /\ y = phase[a]
        BY Zenon
      <4>3. x - y \in Nat
        BY <4>1, <4>2
      <4> QED
        BY <4>2, <4>3, Zenon
    <3>3. time \in [Alarms -> Nat]
      BY <1>1, <3>1, <3>2, Zenon
    <3>4. PICK list : list = insert_sorted(rest, a, time)
      BY Zenon
    <3>5. list \in Seq(Alarms) /\ IsInjective(list) /\ Range(list) = Range(rest) \cup {a}
      BY <1>3, <3>3, <3>4, InsertSortedProperties, SMTT(30)
    <3>6. Range(list) = Range(alarms)
      BY <1>3, <3>5, Zenon
    <3> QED
      BY <2>1, <3>1, <3>3, <3>4, <3>5, <3>6, Zenon
  <2>2. CASE a \notin PeriodicAlarms
    <3>1. alarms' = rest /\ left' = left
      BY <1>2, <2>2, Zenon DEF dispatch_root
    <3> QED
      BY <1>1, <1>3, <2>2, <3>1, Zenon
  <2> QED
    BY <2>1, <2>2, Zenon
<1>5. PICK q, s : q = Without(queue, a) /\ s = Without(posted, a)
  BY Zenon
<1>6. /\ q \in Seq(Alarms) /\ IsInjective(q) /\ Range(q) = Range(queue) \ {a}
      /\ s \in Seq(Alarms) /\ IsInjective(s) /\ Range(s) = Range(posted) \ {a}
  <2>1. q \in Seq(Alarms) /\ IsInjective(q) /\ Range(q) = Range(queue) \ {a}
    BY <1>1, <1>5, WithoutProperties, SMTT(30)
  <2>2. s \in Seq(Alarms) /\ IsInjective(s) /\ Range(s) = Range(posted) \ {a}
    BY <1>1, <1>5, WithoutProperties, SMTT(30)
  <2> QED
    BY <2>1, <2>2, Zenon
<1>7. CASE Target[a] = "mloop"
  <2>1. queue' = queue /\ (posted' = posted \/ posted' = Append(s, a))
    BY <1>5, <1>7, Zenon DEF dispatch_root
  <2>2. /\ Append(s, a) \in Seq(Alarms) /\ IsInjective(Append(s, a))
        /\ Range(Append(s, a)) = Range(posted) \cup {a}
    <3>1. a \notin Range(s)
      BY <1>6, Zenon
    <3>2. /\ Append(s, a) \in Seq(Alarms) /\ IsInjective(Append(s, a))
          /\ Range(Append(s, a)) = Range(s) \cup {a}
      BY <1>3, <1>6, <3>1, AppendElements, SMTT(30)
    <3> QED
      BY <1>6, <3>2, Zenon
  <2> QED
    BY <1>1, <1>3, <1>4, <1>7, <2>1, <2>2, Zenon DEF ListType, ListInv
<1>8. CASE Target[a] # "mloop"
  <2>1. Target[a] = "default"
    BY <1>3, <1>8, AlarmAssumption DEF CallbackThreads
  <2>2. PICK r : /\ queue' = Append(r, a) /\ posted' = posted
                 /\ r = q \/ (r = queue /\ a \notin PeriodicAlarms)
    BY <1>5, <1>8, Zenon DEF dispatch_root
  <2>3. a \notin PeriodicAlarms => a \notin Range(queue)
    BY <1>3, Zenon DEF PlaceInv, Pending
  <2>4. r \in Seq(Alarms) /\ IsInjective(r) /\ Range(r) = Range(queue) \ {a} /\ a \notin Range(r)
    BY <1>1, <1>6, <2>2, <2>3, Zenon
  <2>5. /\ Append(r, a) \in Seq(Alarms) /\ IsInjective(Append(r, a))
        /\ Range(Append(r, a)) = Range(r) \cup {a}
    BY <1>3, <2>4, AppendElements, SMTT(30)
  <2>6. Range(Append(r, a)) = Range(queue) \cup {a}
    BY <2>4, <2>5, Zenon
  <2> QED
    BY <1>1, <1>3, <1>4, <2>1, <2>2, <2>5, <2>6, Zenon DEF ListType, ListInv
<1> QED
  BY <1>7, <1>8, Zenon
\* The message loop or alarm_queue_ready takes the first alarm.
LEMMA TakeFirst ==
  ASSUME NEW s \in Seq(Alarms), IsInjective(s), s # <<>>
  PROVE  /\ Head(s) \in Alarms /\ Head(s) \in Range(s)
         /\ Tail(s) \in Seq(Alarms) /\ IsInjective(Tail(s))
         /\ Range(Tail(s)) = Range(s) \ {Head(s)}
  BY TailElements, SMTT(30)

-------------------------------------------------------------------------------
(* Types *)

LEMMA ListStep ==
  ASSUME TypeInv, \A a \in Alarms : PlaceInv(a), Next
  PROVE  ListType' /\ ListInv'
<1>0. /\ alarms \in Seq(Alarms) /\ IsInjective(alarms)
      /\ queue \in Seq(Alarms) /\ IsInjective(queue)
      /\ posted \in Seq(Alarms) /\ IsInjective(posted)
      /\ \A b \in Range(queue) : Target[b] = "default"
      /\ \A b \in Range(posted) : Target[b] = "mloop"
  BY Zenon DEF TypeInv, TypeOK, ListType, ListInv
<1>1. ASSUME UNCHANGED <<alarms, queue, posted>>
      PROVE  ListType' /\ ListInv'
  BY <1>0, <1>1, Zenon DEF ListType, ListInv
<1>2. ASSUME NEW t \in Threads, NEW a \in Alarms,
             \/ \E p \in Periods : alarm_set(t, a, p)
             \/ alarm_cancel(t, a)
             \/ alarm_free_scheduled(t, a)
      PROVE  ListType' /\ ListInv'
  BY <1>2, SetLists, CancelLists, Zenon DEF alarm_cancel, alarm_free_scheduled
<1>3. CASE dispatch_root
  <2>1. PICK a : a = Head(alarms)
    BY Zenon
  <2>2. a \in Alarms
    BY <1>0, <1>3, <2>1, TakeFirst, Zenon DEF dispatch_root, Expired
  <2> QED
    BY <1>3, <2>1, <2>2, DispatchLists, Zenon
<1>4. CASE closure_runs
  <2>1. posted # <<>> /\ posted' = Tail(posted) /\ UNCHANGED <<alarms, queue>>
    BY <1>4, Zenon DEF closure_runs
  <2> QED
    BY <1>0, <2>1, TakeFirst, Zenon DEF ListType, ListInv
<1>5. CASE alarm_queue_ready
  <2>1. /\ UNCHANGED <<alarms, posted>>
        /\ queue' = queue \/ (queue # <<>> /\ queue' = Tail(queue))
    BY <1>5, Zenon DEF alarm_queue_ready
  <2>2. queue' \in Seq(Alarms) /\ IsInjective(queue') /\ Range(queue') \subseteq Range(queue)
    BY <1>0, <2>1, TakeFirst, Zenon
  <2> QED
    BY <1>0, <2>1, <2>2, Zenon DEF ListType, ListInv
<1>6. CASE message_loop_stops \/ cleanup_ends
  <2>1. /\ alarms' = alarms \/ alarms' = <<>>
        /\ queue' = queue \/ queue' = <<>>
        /\ posted' = posted \/ posted' = <<>>
    BY <1>6, Zenon DEF message_loop_stops, cleanup_ends
  <2>2. <<>> \in Seq(Alarms)
    BY EmptySeq, Zenon
  <2> QED
    BY <1>0, <2>1, <2>2, EmptyList, Zenon DEF ListType, ListInv
<1>7. ASSUME NEW t, NEW a, alarm_free_idle(t, a)
      PROVE  ListType' /\ ListInv'
  BY <1>1, <1>7, Zenon DEF alarm_free_idle, pendingVars
<1>8. CASE \/ Return \/ tick \/ timer_callback \/ dispatcher_wakes \/ dispatch_none
           \/ queue_readable \/ alarm_ready_mloop \/ cleanup_begins \/ cleanup_locks
           \/ \E t \in CallbackThreads : callback_begins(t) \/ callback_returns(t)
  BY <1>1, <1>8, Zenon
  DEF Return, alarm_cancel_returns, tick, timer_callback, dispatcher_wakes, dispatch_none,
      queue_readable, alarm_ready_mloop, cleanup_begins, cleanup_locks, callback_begins,
      callback_returns, pendingVars
<1> QED
  BY <1>2, <1>3, <1>4, <1>5, <1>6, <1>7, <1>8, Zenon
  DEF Next, Use, Dispatcher, DefaultThread, MessageLoop, Cleanup, CallbackThreads

LEMMA RecordStep ==
  ASSUME TypeInv, \A a \in Alarms : PlaceInv(a), Next
  PROVE  RecordType' /\ PhaseInv'
<1>0. /\ callback \in [Alarms -> {"set", "null"}] /\ left \in [Alarms -> Nat]
      /\ period \in [Alarms -> Nat] /\ phase \in [Alarms -> Nat]
      /\ \A a \in Alarms : phase[a] <= period[a]
      /\ Periods \subseteq Nat \ {0} /\ ListType
  BY TimeAssumption, Zenon DEF TypeInv, TypeOK, RecordType, PhaseInv
<1>1. ASSUME UNCHANGED <<period, phase>>, left' \in [Alarms -> Nat],
             callback' \in [Alarms -> {"set", "null"}]
      PROVE  RecordType' /\ PhaseInv'
  BY <1>0, <1>1, Zenon DEF RecordType, PhaseInv
<1>2. ASSUME NEW t, NEW a \in Alarms, NEW p \in Periods, alarm_set(t, a, p)
      PROVE  RecordType' /\ PhaseInv'
  <2>1. left' \in [Alarms -> Nat]
    BY <1>2, SetLists, Zenon
  <2>2. /\ callback' = [callback EXCEPT ![a] = "set"]
        /\ period' = [period EXCEPT ![a] = p] /\ phase' = [phase EXCEPT ![a] = 0]
    BY <1>2, Zenon DEF alarm_set
  <2>3. p \in Nat /\ 0 <= p
    BY <1>0
  <2>4. /\ callback' \in [Alarms -> {"set", "null"}]
        /\ period' \in [Alarms -> Nat] /\ phase' \in [Alarms -> Nat]
    BY <1>0, <2>2, <2>3
  <2>5. \A b \in Alarms : phase'[b] <= period'[b]
    BY <1>0, <2>2, <2>3
  <2> QED
    BY <2>1, <2>4, <2>5, Zenon DEF RecordType, PhaseInv
<1>3. ASSUME NEW t, NEW a \in Alarms, alarm_cancel(t, a) \/ alarm_free_scheduled(t, a)
      PROVE  RecordType' /\ PhaseInv'
  <2>1. /\ callback' = [callback EXCEPT ![a] = "null"] /\ left' = [left EXCEPT ![a] = 0]
        /\ UNCHANGED <<period, phase>>
    BY <1>3, Zenon DEF alarm_cancel, alarm_free_scheduled, alarm_cancel_internal
  <2>2. callback' \in [Alarms -> {"set", "null"}] /\ left' \in [Alarms -> Nat]
    BY <1>0, <2>1
  <2> QED
    BY <1>1, <2>1, <2>2, Zenon
<1>4. CASE tick
  <2>1. left' \in [Alarms -> Nat]
    <3>1. \A a \in Alarms : Elapse(left[a]) \in Nat
      BY <1>0, TimeAssumption DEF Elapse
    <3> QED
      BY <1>4, <3>1 DEF tick
  <2>2. \A n \in Nat, m \in Nat \ {0} : (n + 1) % m \in Nat /\ (n + 1) % m <= m
    OBVIOUS
  <2>3. /\ phase' = [a \in Alarms |-> IF a \notin PeriodicAlarms \/ period[a] = 0 THEN 0
                                      ELSE (phase[a] + 1) % period[a]]
        /\ UNCHANGED <<callback, period>>
    BY <1>4, Zenon DEF tick
  <2>4. ASSUME NEW a \in Alarms
        PROVE  phase'[a] \in Nat /\ phase'[a] <= period[a]
    BY <1>0, <2>2, <2>3
  <2>5. phase' \in [Alarms -> Nat]
    BY <2>3, <2>4, Zenon
  <2> QED
    BY <1>0, <2>1, <2>3, <2>4, <2>5, Zenon DEF RecordType, PhaseInv
<1>5. CASE dispatch_root
  <2>1. PICK a : a = Head(alarms)
    BY Zenon
  <2>2. a \in Alarms
    BY <1>0, <1>5, <2>1, HeadTailProperties, Zenon DEF dispatch_root, Expired, ListType
  <2>3. left' \in [Alarms -> Nat]
    BY <1>5, <2>1, <2>2, DispatchLists, Zenon
  <2>4. UNCHANGED <<callback, period, phase>>
    BY <1>5, Zenon DEF dispatch_root
  <2> QED
    BY <1>0, <1>1, <2>3, <2>4, Zenon
<1>6. ASSUME NEW t, NEW a, alarm_ready_generic(t, a), UNCHANGED <<period, phase>>
      PROVE  RecordType' /\ PhaseInv'
  <2>1. callback' \in [Alarms -> {"set", "null"}] /\ left' \in [Alarms -> Nat]
    BY <1>0, <1>6 DEF alarm_ready_generic
  <2> QED
    BY <1>1, <1>6, <2>1, Zenon
<1>7. ASSUME UNCHANGED <<callback, left, period, phase>>
      PROVE  RecordType' /\ PhaseInv'
  BY <1>0, <1>1, <1>7, Zenon
<1>8. CASE alarm_queue_ready \/ alarm_ready_mloop
  BY <1>6, <1>7, <1>8, Zenon DEF alarm_queue_ready, alarm_ready_mloop
<1>9. CASE \/ \E t \in Threads, a \in Alarms : alarm_free_idle(t, a)
           \/ Return \/ message_loop_stops \/ timer_callback \/ dispatcher_wakes
           \/ dispatch_none \/ queue_readable \/ closure_runs \/ Cleanup
           \/ \E t \in CallbackThreads : callback_begins(t) \/ callback_returns(t)
  BY <1>7, <1>9, Zenon
  DEF alarm_free_idle, Return, alarm_cancel_returns, message_loop_stops, timer_callback,
      dispatcher_wakes, dispatch_none, queue_readable, closure_runs, Cleanup,
      cleanup_begins, cleanup_locks, cleanup_ends, callback_begins, callback_returns,
      recordVars
<1> QED
  BY <1>2, <1>3, <1>4, <1>5, <1>8, <1>9, Zenon
  DEF Next, Use, Dispatcher, DefaultThread, MessageLoop, CallbackThreads

LEMMA RescheduleType ==
  ASSUME TimerType, NEW list \in Seq(Alarms), NEW time \in [Alarms -> Nat],
         reschedule_root_alarm(list, time, alarm_expired)
  PROVE  TimerType'
<1>1. list # <<>> => time[Head(list)] \in Nat
  BY HeadTailProperties, SMTT(30)
<1>2. PICK x : x = time[Head(list)]
  BY Zenon
<1>3. list # <<>> => x \in Nat
  BY <1>1, <1>2, Zenon
<1>4. /\ timer' \in {x, Off} /\ (list = <<>> => timer' = Off)
      /\ wakeup_timer' \in {x, wakeup_timer, Off} /\ (list = <<>> => wakeup_timer' = wakeup_timer)
      /\ timer_set' \in {"yes", "no", timer_set}
      /\ wakelock' \in {"held", "released", wakelock}
      /\ alarm_expired' \in {alarm_expired, alarm_expired + 1}
  BY <1>2 DEF reschedule_root_alarm
<1>5. alarm_expired' \in Nat
  BY <1>4 DEF TimerType
<1>6. timer' \in Nat \cup {Off} /\ wakeup_timer' \in Nat \cup {Off}
  BY <1>3, <1>4, Zenon DEF TimerType
<1>7. timer_set' \in {"no", "yes"} /\ wakelock' \in {"held", "released"}
  BY <1>4, Zenon DEF TimerType
<1> QED
  BY <1>5, <1>6, <1>7, Zenon DEF TimerType

LEMMA TimerStep ==
  ASSUME TypeInv, \A a \in Alarms : PlaceInv(a), Next
  PROVE  TimerType'
<1>0. /\ TimerType /\ alarms \in Seq(Alarms) /\ IsInjective(alarms) /\ left \in [Alarms -> Nat]
      /\ alarm_expired \in Nat
  BY Zenon DEF TypeInv, TypeOK, ListType, ListInv, RecordType, TimerType
<1>1. ListType' /\ left' \in [Alarms -> Nat]
  BY ListStep, RecordStep, Zenon DEF RecordType
<1>2. ASSUME UNCHANGED timerVars
      PROVE  TimerType'
  BY <1>0, <1>2, Zenon DEF TimerType, timerVars
<1>3. ASSUME NEW t, NEW a \in Alarms, NEW p \in Periods, alarm_set(t, a, p)
      PROVE  TimerType'
  <2>1. \/ reschedule_root_alarm(alarms', left', alarm_expired)
        \/ UNCHANGED timerVars
    BY <1>3, Zenon DEF alarm_set
  <2>2. PICK list \in Seq(Alarms), time \in [Alarms -> Nat] : list = alarms' /\ time = left'
    BY <1>1, Zenon DEF ListType
  <2>3. \/ reschedule_root_alarm(list, time, alarm_expired)
        \/ UNCHANGED timerVars
    BY <2>1, <2>2, Zenon
  <2> QED
    BY <1>0, <1>2, <2>3, RescheduleType, Zenon
<1>4. ASSUME NEW t, NEW a \in Alarms, alarm_cancel(t, a) \/ alarm_free_scheduled(t, a)
      PROVE  TimerType'
  <2>1. PICK list : list = Without(alarms, a)
    BY Zenon
  <2>2. list \in Seq(Alarms)
    BY <1>0, <2>1, WithoutProperties, SMTT(30)
  <2>3. \/ reschedule_root_alarm(list, left, alarm_expired)
        \/ UNCHANGED timerVars
    BY <1>4, <2>1, Zenon DEF alarm_cancel, alarm_free_scheduled, alarm_cancel_internal
  <2> QED
    BY <1>0, <1>2, <2>2, <2>3, RescheduleType, Zenon
<1>5. CASE dispatch_none
  BY <1>0, <1>5, RescheduleType, Zenon DEF dispatch_none
<1>6. CASE dispatch_root
  <2>1. reschedule_root_alarm(alarms', left', alarm_expired)
    BY <1>6, Zenon DEF dispatch_root
  <2>2. PICK list \in Seq(Alarms), time \in [Alarms -> Nat] : list = alarms' /\ time = left'
    BY <1>1, Zenon DEF ListType
  <2>3. reschedule_root_alarm(list, time, alarm_expired)
    BY <2>1, <2>2, Zenon
  <2> QED
    BY <1>0, <2>3, RescheduleType, Zenon
<1>7. CASE tick
  <2>1. \A x \in Nat \cup {Off} : Elapse(x) \in Nat \cup {Off}
    BY DEF Elapse
  <2> QED
    BY <1>0, <1>7, <2>1, Zenon DEF tick, TimerType
<1>8. CASE timer_callback \/ dispatcher_wakes \/ cleanup_begins \/ cleanup_ends
  <2>1. alarm_expired' \in Nat
    BY <1>0, <1>8 DEF timer_callback, dispatcher_wakes, cleanup_begins, cleanup_ends
  <2>2. /\ timer' \in {timer, Off} /\ wakeup_timer' \in {wakeup_timer, Off}
        /\ UNCHANGED <<timer_set, wakelock>>
    BY <1>8, Zenon DEF timer_callback, dispatcher_wakes, cleanup_begins, cleanup_ends
  <2> QED
    BY <1>0, <2>1, <2>2, Zenon DEF TimerType
<1>9. CASE \/ \E t \in Threads, a \in Alarms : alarm_free_idle(t, a)
           \/ Return \/ message_loop_stops \/ queue_readable \/ closure_runs
           \/ alarm_queue_ready \/ alarm_ready_mloop \/ cleanup_locks
           \/ \E t \in CallbackThreads : callback_begins(t) \/ callback_returns(t)
  BY <1>2, <1>9, Zenon
  DEF alarm_free_idle, Return, alarm_cancel_returns, message_loop_stops, queue_readable,
      closure_runs, alarm_queue_ready, alarm_ready_mloop, cleanup_locks, callback_begins,
      callback_returns
<1> QED
  BY <1>3, <1>4, <1>5, <1>6, <1>7, <1>8, <1>9, Zenon
  DEF Next, Use, Dispatcher, DefaultThread, MessageLoop, Cleanup, CallbackThreads

LEMMA ThreadTypeStep ==
  ASSUME TypeInv, ThreadInv, Next
  PROVE  ThreadType'
<1>0. /\ ThreadType
      /\ queue # <<>> => Head(queue) \in Alarms
      /\ posted # <<>> => Head(posted) \in Alarms
      /\ "default" \in CallbackThreads /\ "mloop" \in CallbackThreads
  BY HeadTailProperties, Zenon DEF TypeInv, TypeOK, ListType, CallbackThreads
<1>1. ASSUME UNCHANGED threadVars
      PROVE  ThreadType'
  BY <1>0, <1>1, Zenon DEF ThreadType, threadVars
<1>2. ASSUME UNCHANGED <<message_loop, dispatcher, cb, alarms_mutex, cleanup>>,
             op' \in [Threads -> [pc : {"none", "cancel", "free"}, alarm : Alarms \cup {NoAlarm}]]
      PROVE  ThreadType'
  BY <1>0, <1>2, Zenon DEF ThreadType
<1>3. ASSUME UNCHANGED <<message_loop, dispatcher, op, cleanup>>,
             alarms_mutex' \in {alarms_mutex, "free"} \cup CallbackThreads,
             cb' \in [CallbackThreads ->
                        [pc : {"idle", "picked", "cleared", "running"},
                         alarm : Alarms \cup {NoAlarm},
                         call : {"none", "due", "early", "null"}]]
      PROVE  ThreadType'
  BY <1>0, <1>3, Zenon DEF ThreadType
<1>4. ASSUME NEW t \in Threads, NEW a \in Alarms,
             alarm_cancel(t, a) \/ alarm_free_scheduled(t, a)
      PROVE  ThreadType'
  <2>1. PICK v \in {"cancel", "free"} : op' = [op EXCEPT ![t] = [pc |-> v, alarm |-> a]]
    BY <1>4, Zenon DEF alarm_cancel, alarm_free_scheduled
  <2>2. op' \in [Threads -> [pc : {"none", "cancel", "free"}, alarm : Alarms \cup {NoAlarm}]]
    BY <1>0, <2>1 DEF ThreadType
  <2> QED
    BY <1>2, <1>4, <2>2, Zenon DEF alarm_cancel, alarm_free_scheduled
<1>5. ASSUME NEW t \in Threads, alarm_cancel_returns(t)
      PROVE  ThreadType'
  <2>1. op' \in [Threads -> [pc : {"none", "cancel", "free"}, alarm : Alarms \cup {NoAlarm}]]
    BY <1>0, <1>5 DEF ThreadType, alarm_cancel_returns, no_op
  <2> QED
    BY <1>2, <1>5, <2>1, Zenon DEF alarm_cancel_returns
<1>6. ASSUME NEW t \in CallbackThreads, NEW a \in Alarms, alarm_ready_generic(t, a),
             UNCHANGED <<message_loop, dispatcher, op, cleanup>>
      PROVE  ThreadType'
  <2>1. cb' \in [CallbackThreads ->
                   [pc : {"idle", "picked", "cleared", "running"},
                    alarm : Alarms \cup {NoAlarm},
                    call : {"none", "due", "early", "null"}]]
    <3>1. PICK v \in {"null", "early", "due"} :
            cb' = [cb EXCEPT ![t] = [pc |-> "cleared", alarm |-> a, call |-> v]]
      BY <1>6, Zenon DEF alarm_ready_generic
    <3> QED
      BY <1>0, <3>1 DEF ThreadType
  <2>2. alarms_mutex' = t
    BY <1>6, Zenon DEF alarm_ready_generic
  <2> QED
    BY <1>3, <1>6, <2>1, <2>2, Zenon
<1>7. CASE alarm_queue_ready
  <2>1. CASE cb' = [cb EXCEPT !["default"] = cb_idle] /\ UNCHANGED alarms_mutex
    <3>1. cb' \in [CallbackThreads ->
                     [pc : {"idle", "picked", "cleared", "running"},
                      alarm : Alarms \cup {NoAlarm},
                      call : {"none", "due", "early", "null"}]]
      BY <1>0, <2>1 DEF ThreadType, cb_idle
    <3> QED
      BY <1>3, <1>7, <2>1, <3>1, Zenon DEF alarm_queue_ready
  <2>2. CASE queue # <<>> /\ alarm_ready_generic("default", Head(queue))
    BY <1>0, <1>6, <1>7, <2>2, Zenon DEF alarm_queue_ready
  <2> QED
    BY <1>7, <2>1, <2>2, Zenon DEF alarm_queue_ready
<1>8. CASE alarm_ready_mloop
  BY <1>0, <1>6, <1>8, Zenon DEF alarm_ready_mloop, ThreadInv
<1>9. CASE \/ queue_readable \/ closure_runs
           \/ \E t \in CallbackThreads : callback_begins(t) \/ callback_returns(t)
  <2>1. cb' \in [CallbackThreads ->
                   [pc : {"idle", "picked", "cleared", "running"},
                    alarm : Alarms \cup {NoAlarm},
                    call : {"none", "due", "early", "null"}]]
    <3>1. CASE queue_readable
      BY <1>0, <3>1 DEF ThreadType, queue_readable
    <3>2. CASE closure_runs
      BY <1>0, <3>2 DEF ThreadType, closure_runs
    <3>3. ASSUME NEW t \in CallbackThreads, callback_begins(t)
          PROVE  cb' \in [CallbackThreads ->
                            [pc : {"idle", "picked", "cleared", "running"},
                             alarm : Alarms \cup {NoAlarm},
                             call : {"none", "due", "early", "null"}]]
      BY <1>0, <3>3, SMTT(30) DEF ThreadType, callback_begins
    <3>4. ASSUME NEW t \in CallbackThreads, callback_returns(t)
          PROVE  cb' \in [CallbackThreads ->
                            [pc : {"idle", "picked", "cleared", "running"},
                             alarm : Alarms \cup {NoAlarm},
                             call : {"none", "due", "early", "null"}]]
      BY <1>0, <3>4 DEF ThreadType, callback_returns, cb_idle
    <3> QED
      BY <1>9, <3>1, <3>2, <3>3, <3>4, Zenon
  <2> QED
    BY <1>3, <1>9, <2>1, Zenon DEF queue_readable, closure_runs, callback_begins, callback_returns
<1>10. CASE \/ message_loop_stops \/ dispatcher_wakes \/ dispatch_none \/ dispatch_root
            \/ Cleanup
  <2>1. /\ message_loop' \in {message_loop, "gone"}
        /\ dispatcher' \in {dispatcher, "waiting", "woken", "exited"}
        /\ alarms_mutex' \in {alarms_mutex, "free", "cleanup"}
        /\ cleanup' \in {cleanup, "join_dispatcher", "locked", "done"}
        /\ UNCHANGED <<cb, op>>
    BY <1>10, Zenon DEF message_loop_stops, dispatcher_wakes, dispatch_none, dispatch_root,
      Cleanup, cleanup_begins, cleanup_locks, cleanup_ends
  <2> QED
    BY <1>0, <2>1, Zenon DEF ThreadType
<1>11. CASE \/ \E t \in Threads, a \in Alarms :
                 \/ \E p \in Periods : alarm_set(t, a, p)
                 \/ alarm_free_idle(t, a)
            \/ tick \/ timer_callback
  BY <1>1, <1>11, ZenonT(30) DEF alarm_set, alarm_free_idle, tick, timer_callback
<1> QED
  BY <1>4, <1>5, <1>7, <1>8, <1>9, <1>10, <1>11, Zenon
  DEF Next, Use, Return, Dispatcher, DefaultThread, MessageLoop, CallbackThreads

LEMMA HistoryStep ==
  ASSUME TypeInv, ThreadInv, Next
  PROVE  HistoryType'
<1>0. HistoryType /\ ThreadType /\ left \in [Alarms -> Nat]
  BY Zenon DEF TypeInv, TypeOK, RecordType
<1>11. ASSUME NEW a, NEW v \in {0, 1, 2}, due' = [due EXCEPT ![a] = v]
      PROVE  due' \in [Alarms -> 0 .. 2]
  <2>1. due \in [Alarms -> 0 .. 2] /\ v \in 0 .. 2
    BY <1>0 DEF HistoryType
  <2> QED
    BY <1>11, <2>1, Zenon
<1>1. ASSUME UNCHANGED historyVars
      PROVE  HistoryType'
  BY <1>0, <1>1, Zenon DEF HistoryType, historyVars
<1>2. ASSUME NEW a, NEW A \in SUBSET Alarms, UNCHANGED freed,
             due' = [due EXCEPT ![a] = 0],
             ahead' = [Dropped(a) EXCEPT ![a] = A]
      PROVE  HistoryType'
  <2>1. due' \in [Alarms -> 0 .. 2]
    BY <1>11, <1>2, Zenon
  <2>2. ahead' \in [Alarms -> SUBSET Alarms]
    BY <1>0, <1>2, Zenon DEF HistoryType, Dropped
  <2> QED
    BY <1>0, <1>2, <2>1, <2>2, Zenon DEF HistoryType
<1>3. ASSUME NEW t, NEW a, NEW p, alarm_set(t, a, p)
      PROVE  HistoryType'
  <2>1. PICK A : A = {b \in Alarms \ (PeriodicAlarms \cup {a}) :
                       Target[b] = Target[a] /\ callback[b] = "set" /\ left[b] <= p}
    BY Zenon
  <2>2. A \in SUBSET Alarms
    BY <2>1, Zenon
  <2> QED
    BY <1>2, <1>3, <2>1, <2>2, Zenon DEF alarm_set
<1>4. ASSUME NEW t, NEW a, alarm_cancel(t, a) \/ alarm_free_scheduled(t, a)
      PROVE  HistoryType'
  BY <1>2, <1>4, Zenon DEF alarm_cancel, alarm_free_scheduled, alarm_cancel_internal
<1>5. ASSUME NEW t, NEW a \in Alarms, alarm_ready_generic(t, a), UNCHANGED freed
      PROVE  HistoryType'
  <2>1. due' \in [Alarms -> 0 .. 2]
    <3>1. PICK v : v = IF due[a] = 0 THEN 0 ELSE due[a] - 1
      BY Zenon
    <3>2. due[a] \in 0 .. 2
      BY <1>0, Zenon DEF HistoryType
    <3>3. v \in {0, 1, 2}
      BY <3>1, <3>2
    <3> QED
      BY <1>11, <1>5, <3>1, <3>3, Zenon DEF alarm_ready_generic
  <2>2. ahead' \in [Alarms -> SUBSET Alarms]
    BY <1>0, <1>5 DEF HistoryType, alarm_ready_generic, Dropped
  <2> QED
    BY <1>0, <1>5, <2>1, <2>2, Zenon DEF HistoryType
<1>6. CASE alarm_queue_ready \/ alarm_ready_mloop
  <2>1. CASE alarm_ready_mloop
    BY <1>5, <2>1, Zenon DEF alarm_ready_mloop, ThreadInv
  <2>2. CASE alarm_queue_ready
    <3>1. queue # <<>> => Head(queue) \in Alarms
      BY HeadTailProperties, Zenon DEF TypeInv, TypeOK, ListType
    <3> QED
      BY <1>0, <1>5, <2>2, <3>1, Zenon DEF alarm_queue_ready, HistoryType
  <2> QED
    BY <1>6, <2>1, <2>2, Zenon
<1>7. CASE dispatch_root
  <2>1. PICK a : a = Head(alarms)
    BY Zenon
  <2>2. due' \in [Alarms -> 0 .. 2]
    <3>1. a \in Alarms
      BY <1>7, <2>1, HeadTailProperties, Zenon
      DEF TypeInv, TypeOK, ListType, dispatch_root, Expired
    <3>2. PICK v : v = IF left[a] > 0 THEN due[a] ELSE IF due[a] < 2 THEN due[a] + 1 ELSE 2
      BY Zenon
    <3>3. due[a] \in 0 .. 2
      BY <1>0, <3>1, Zenon DEF HistoryType
    <3>4. v \in {0, 1, 2}
      BY <3>2, <3>3
    <3> QED
      BY <1>11, <1>7, <2>1, <3>2, <3>4, Zenon DEF dispatch_root
  <2> QED
    BY <1>0, <1>7, <2>2, Zenon DEF HistoryType, dispatch_root
<1>8. ASSUME NEW t \in Threads, alarm_cancel_returns(t)
      PROVE  HistoryType'
  <2>1. op[t].pc = "free" => op[t].alarm \in Alarms
    BY <1>8 DEF ThreadInv
  <2> QED
    BY <1>0, <1>8, <2>1, Zenon DEF HistoryType, alarm_cancel_returns
<1>9. ASSUME NEW t \in Threads, NEW a \in Alarms, alarm_free_idle(t, a)
      PROVE  HistoryType'
  BY <1>0, <1>9, Zenon DEF HistoryType, alarm_free_idle
<1>10. CASE \/ message_loop_stops \/ tick \/ timer_callback \/ dispatcher_wakes
            \/ dispatch_none \/ queue_readable \/ closure_runs \/ Cleanup
            \/ \E t \in CallbackThreads : callback_begins(t) \/ callback_returns(t)
  BY <1>1, <1>10, Zenon
  DEF message_loop_stops, tick, timer_callback, dispatcher_wakes, dispatch_none,
      queue_readable, closure_runs, Cleanup, cleanup_begins, cleanup_locks, cleanup_ends,
      callback_begins, callback_returns
<1> QED
  BY <1>3, <1>4, <1>6, <1>7, <1>8, <1>9, <1>10, Zenon
  DEF Next, Use, Return, Dispatcher, DefaultThread, MessageLoop, CallbackThreads
-------------------------------------------------------------------------------
(* Mutual exclusion *)

\* While alarms_mutex is free no thread is between the reset of an alarm and its
\* callback mutex.
LEMMA NoneCleared ==
  ASSUME ThreadInv, alarms_mutex \in {"free", "cleanup"}
  PROVE  \A t \in CallbackThreads : cb[t].pc # "cleared"
<1>1. \A t \in CallbackThreads : t \notin {"free", "cleanup"}
  BY DEF CallbackThreads
<1> QED
  BY <1>1, Zenon DEF ThreadInv, CallInv

\* Nobody uses an alarm whose closure has just started: only the message loop
\* may, and it is busy with the closure.
LEMMA UsedIsNotPicked ==
  ASSUME Usage, ThreadInv, NEW t, NEW a \in Alarms, MayUse(t, a)
  PROVE  ~Picked(a)
<1> SUFFICES ASSUME Picked(a)
             PROVE  FALSE
  OBVIOUS
<1>1. Target[a] = "mloop" /\ cb["mloop"].pc = "picked"
  BY Zenon DEF ThreadInv, Picked
<1>2. t = "mloop" /\ t \in CallbackThreads
  BY <1>1, Zenon DEF Usage, MayUse, CallbackThreads
<1>3. cb["mloop"].pc = "running" \/ cb["mloop"].pc = "idle"
  BY <1>2, Zenon DEF MayUse
<1> QED
  BY <1>1, <1>3

-------------------------------------------------------------------------------
(* PlaceInv, step by step *)

\* An alarm that a step leaves alone, or takes out of a list.
LEMMA PlaceFrame ==
  ASSUME NEW b \in Alarms, PlaceInv(b),
         callback'[b] = callback[b], due'[b] = due[b],
         b \in Range(alarms') => b \in Range(alarms),
         b \in Range(queue') => b \in Range(queue),
         b \in Range(posted') => b \in Range(posted),
         Picked(b)' => Picked(b)
  PROVE  PlaceInv(b)'
  BY Zenon DEF PlaceInv, Pending

\* An alarm that alarm_cancel or alarm_set took out of the queues.
LEMMA PlaceNotPending ==
  ASSUME NEW b \in Alarms, b \notin Range(queue'), b \notin Range(posted'), ~Picked(b)',
         due'[b] = 0, b \in Range(alarms') => callback'[b] = "set"
  PROVE  PlaceInv(b)'
<1>1. due'[b] # 2
  OBVIOUS
<1> QED
  BY <1>1, Zenon DEF PlaceInv, Pending

LEMMA PlaceOfUsed ==
  ASSUME Usage, AlarmInv, NEW t \in Threads, NEW a \in Alarms, NEW b \in Alarms,
         \/ \E p \in Periods : alarm_set(t, a, p)
         \/ alarm_cancel(t, a)
         \/ alarm_free_scheduled(t, a)
  PROVE  PlaceInv(b)'
<1>0. /\ TypeInv /\ ThreadInv /\ PlaceInv(b)
      /\ callback \in [Alarms -> {"set", "null"}] /\ due \in [Alarms -> 0 .. 2]
  BY Zenon DEF AlarmInv, TypeInv, TypeOK, RecordType, HistoryType
<1>1. /\ Range(queue') = Range(queue) \ {a} /\ Range(posted') = Range(posted) \ {a}
      /\ \/ Range(alarms') = Range(alarms) \cup {a} /\ callback' = [callback EXCEPT ![a] = "set"]
         \/ Range(alarms') = Range(alarms) \ {a} /\ callback' = [callback EXCEPT ![a] = "null"]
      /\ due' = [due EXCEPT ![a] = 0]
      /\ MayUse(t, a) /\ UNCHANGED cb
  <2>1. ASSUME NEW p \in Periods, alarm_set(t, a, p)
        PROVE  /\ Range(queue') = Range(queue) \ {a} /\ Range(posted') = Range(posted) \ {a}
               /\ Range(alarms') = Range(alarms) \cup {a}
               /\ callback' = [callback EXCEPT ![a] = "set"]
               /\ due' = [due EXCEPT ![a] = 0]
               /\ MayUse(t, a) /\ UNCHANGED cb
    BY <1>0, <2>1, SetLists, Zenon DEF alarm_set, threadVars
  <2>2. CASE alarm_cancel(t, a) \/ alarm_free_scheduled(t, a)
    <3>1. alarm_cancel_internal(a) /\ MayUse(t, a) /\ UNCHANGED cb
      BY <2>2, Zenon DEF alarm_cancel, alarm_free_scheduled
    <3> QED
      BY <1>0, <3>1, CancelLists, Zenon DEF alarm_cancel_internal
  <2> QED
    BY <2>1, <2>2, Zenon
<1>2. ~Picked(a) /\ (Picked(b)' <=> Picked(b))
  BY <1>0, <1>1, UsedIsNotPicked, Zenon DEF Picked
<1>3. CASE b = a
  <2>1. due'[b] = 0 /\ (callback'[b] = "set" \/ b \notin Range(alarms'))
    BY <1>0, <1>1, <1>3, Zenon
  <2> QED
    BY <1>1, <1>2, <1>3, <2>1, PlaceNotPending, Zenon
<1>4. CASE b # a
  <2>1. due'[b] = due[b] /\ callback'[b] = callback[b]
    BY <1>0, <1>1, <1>4, Zenon
  <2> QED
    BY <1>0, <1>1, <1>2, <1>4, <2>1, PlaceFrame, Zenon
<1> QED
  BY <1>3, <1>4, Zenon

LEMMA PlaceOfDispatched ==
  ASSUME AlarmInv, dispatch_root, NEW b \in Alarms
  PROVE  PlaceInv(b)'
<1>0. /\ TypeInv /\ ThreadInv /\ PlaceInv(b) /\ ListType
      /\ left \in [Alarms -> Nat] /\ due \in [Alarms -> 0 .. 2]
  BY Zenon DEF AlarmInv, TypeInv, TypeOK, RecordType, HistoryType
<1>1. PICK a : a = Head(alarms)
  BY Zenon
<1>2. a \in Alarms
  BY <1>0, <1>1, HeadTailProperties, Zenon DEF ListType, dispatch_root, Expired
<1>3. PlaceInv(a)
  BY <1>2, Zenon DEF AlarmInv
<1>4. /\ a \in Range(alarms)
      /\ Range(alarms') = IF a \in PeriodicAlarms THEN Range(alarms) ELSE Range(alarms) \ {a}
      /\ Range(queue') \subseteq Range(queue) \cup {a}
      /\ Range(posted') \subseteq Range(posted) \cup {a}
  BY <1>0, <1>1, <1>3, DispatchLists, Zenon
<1>5. /\ UNCHANGED <<callback, cb>> /\ left[a] = 0
      /\ due' = [due EXCEPT ![a] = IF left[a] > 0 THEN due[a]
                                   ELSE IF due[a] < 2 THEN due[a] + 1 ELSE 2]
  BY <1>1, Zenon DEF dispatch_root, Expired
<1>6. Picked(b)' <=> Picked(b)
  BY <1>5, Zenon DEF Picked
<1>7. CASE b = a
  <2>1. due[a] \in {0, 1, 2} /\ due'[a] = IF due[a] < 2 THEN due[a] + 1 ELSE 2
    BY <1>0, <1>2, <1>5
  <2>2. due'[a] # 0 /\ (due[a] # 0 => due'[a] = 2) /\ (due[a] = 0 => due'[a] # 2)
    BY <2>1
  <2>3. callback[a] = "set" /\ (a \notin PeriodicAlarms => due[a] = 0)
    BY <1>3, <1>4, Zenon DEF PlaceInv
  <2>4. a \in Range(alarms') => a \in PeriodicAlarms
    BY <1>4, Zenon
  <2> QED
    BY <1>3, <1>5, <1>6, <1>7, <2>2, <2>3, <2>4, Zenon DEF PlaceInv, Pending
<1>8. CASE b # a
  <2>1. due'[b] = due[b] /\ callback'[b] = callback[b]
    BY <1>0, <1>5, <1>8, Zenon
  <2>2. b \in Range(alarms') => b \in Range(alarms)
    BY <1>4, Zenon
  <2> QED
    BY <1>0, <1>4, <1>6, <1>8, <2>1, <2>2, PlaceFrame, Zenon
<1> QED
  BY <1>7, <1>8, Zenon

\* alarm_ready_generic takes one instance of the alarm, for which there is an
\* expiry; afterwards a one-shot alarm is nowhere.
LEMMA PlaceOfCalled ==
  ASSUME AlarmInv, NEW t, NEW a \in Alarms, NEW b \in Alarms, alarm_ready_generic(t, a),
         callback[a] = "set", due[a] # 0, UNCHANGED alarms,
         b # a => /\ b \in Range(queue') => b \in Range(queue)
                  /\ b \in Range(posted') => b \in Range(posted)
                  /\ Picked(b)' => Picked(b),
         a \notin Range(queue'), ~Picked(a)',
         a \in Range(posted') => due[a] = 2
  PROVE  PlaceInv(b)'
<1>0. /\ callback \in [Alarms -> {"set", "null"}] /\ due \in [Alarms -> 0 .. 2]
      /\ PlaceInv(a) /\ PlaceInv(b)
  BY Zenon DEF AlarmInv, TypeInv, TypeOK, RecordType, HistoryType
<1>1. /\ due' = [due EXCEPT ![a] = IF due[a] = 0 THEN 0 ELSE due[a] - 1]
      /\ a \in PeriodicAlarms => callback' = callback
      /\ a \notin PeriodicAlarms => callback' = [callback EXCEPT ![a] = "null"]
  BY Zenon DEF alarm_ready_generic
<1>2. CASE b = a
  <2>1. due[a] \in {1, 2} /\ due'[a] = due[a] - 1
    BY <1>0, <1>1
  <2>2. due'[a] # 2 /\ (due[a] = 2 => due'[a] # 0)
    BY <2>1
  <2>3. CASE a \in PeriodicAlarms
    BY <1>0, <1>1, <1>2, <2>2, <2>3, Zenon DEF PlaceInv, Pending
  <2>4. CASE a \notin PeriodicAlarms
    <3>1. a \notin Range(alarms') /\ a \notin Range(posted')
      BY <1>0, <2>4, Zenon DEF PlaceInv
    <3> QED
      BY <1>2, <2>2, <3>1, Zenon DEF PlaceInv, Pending
  <2> QED
    BY <2>3, <2>4, Zenon
<1>3. CASE b # a
  <2>1. due'[b] = due[b] /\ callback'[b] = callback[b]
    BY <1>0, <1>1, <1>3, Zenon
  <2> QED
    BY <1>0, <1>3, <2>1, PlaceFrame, Zenon
<1> QED
  BY <1>2, <1>3, Zenon

LEMMA PlaceStep ==
  ASSUME Usage, AlarmInv, Next, NEW b \in Alarms
  PROVE  PlaceInv(b)'
<1>0. /\ TypeInv /\ ThreadInv /\ PlaceInv(b) /\ ThreadType
      /\ queue \in Seq(Alarms) /\ IsInjective(queue)
      /\ posted \in Seq(Alarms) /\ IsInjective(posted)
      /\ \A a \in Range(queue) : Target[a] = "default"
      /\ \A a \in Range(posted) : Target[a] = "mloop"
  BY Zenon DEF AlarmInv, TypeInv, TypeOK, ListType, ListInv
<1>1. ASSUME UNCHANGED <<callback, due, alarms, queue, posted>>, Picked(b)' => Picked(b)
      PROVE  PlaceInv(b)'
  BY <1>0, <1>1, PlaceFrame, Zenon
<1>2. UNCHANGED cb => (Picked(b)' => Picked(b))
  BY Zenon DEF Picked
<1>3. "default" # "mloop" /\ "default" \in CallbackThreads /\ "mloop" \in CallbackThreads
  BY DEF CallbackThreads
<1>4. cb \in [CallbackThreads -> [pc : {"idle", "picked", "cleared", "running"},
                                  alarm : Alarms \cup {NoAlarm},
                                  call : {"none", "due", "early", "null"}]]
  BY <1>0, Zenon DEF ThreadType
<1>5. CASE closure_runs
  <2>1. PICK a : a = Head(posted)
    BY Zenon
  <2>2. /\ a \in Alarms /\ a \in Range(posted) /\ Range(posted') = Range(posted) \ {a}
    BY <1>0, <1>5, <2>1, TakeFirst, Zenon DEF closure_runs
  <2>3. cb'["mloop"] = [pc |-> "picked", alarm |-> a, call |-> "none"]
    BY <1>3, <1>4, <1>5, <2>1, Zenon DEF closure_runs
  <2>4. Picked(b)' <=> b = a
    BY <2>3 DEF Picked
  <2>5. UNCHANGED <<callback, due, alarms, queue>>
    BY <1>5, Zenon DEF closure_runs, recordVars, historyVars
  <2>6. CASE b = a
    BY <1>0, <2>2, <2>4, <2>5, <2>6, Zenon DEF PlaceInv, Pending
  <2>7. CASE b # a
    BY <1>0, <2>2, <2>4, <2>5, <2>7, PlaceFrame, Zenon
  <2> QED
    BY <2>6, <2>7, Zenon
<1>6. CASE alarm_ready_mloop
  <2>1. PICK a : a = cb["mloop"].alarm
    BY Zenon
  <2>2. a \in Alarms /\ Target[a] = "mloop" /\ Picked(a) /\ cb["mloop"].pc = "picked"
    BY <1>0, <1>6, <2>1, Zenon DEF alarm_ready_mloop, ThreadInv, Picked
  <2>3. alarm_ready_generic("mloop", a) /\ UNCHANGED <<alarms, queue, posted>>
    BY <1>6, <2>1, Zenon DEF alarm_ready_mloop
  <2>4. cb'["mloop"].pc = "cleared"
    BY <1>3, <1>4, <2>3 DEF alarm_ready_generic
  <2>5. \A c : ~Picked(c)'
    BY <2>4 DEF Picked
  <2>6. callback[a] = "set" /\ due[a] # 0 /\ (a \in Range(posted) => due[a] = 2)
    BY <2>2, Zenon DEF AlarmInv, PlaceInv, Pending
  <2>7. a \notin Range(queue)
    BY <1>0, <1>3, <2>2, Zenon
  <2>8. /\ a \notin Range(queue') /\ (a \in Range(posted') => due[a] = 2)
        /\ b \in Range(queue') => b \in Range(queue)
        /\ b \in Range(posted') => b \in Range(posted)
    BY <2>3, <2>6, <2>7, Zenon
  <2> QED
    BY <2>2, <2>3, <2>5, <2>6, <2>8, PlaceOfCalled, Zenon
<1>7. CASE alarm_queue_ready
  <2>1. CASE queue # <<>> /\ queue' = Tail(queue) /\ alarm_ready_generic("default", Head(queue))
    <3>1. PICK a : a = Head(queue)
      BY Zenon
    <3>2. /\ a \in Alarms /\ a \in Range(queue) /\ Range(queue') = Range(queue) \ {a}
      BY <1>0, <2>1, <3>1, TakeFirst, Zenon
    <3>3. Target[a] = "default" /\ a \notin Range(posted) /\ ~Picked(a)
      BY <1>0, <1>3, <3>2, Zenon DEF ThreadInv, Picked
    <3>4. alarm_ready_generic("default", a) /\ UNCHANGED <<alarms, posted>>
      BY <1>7, <2>1, <3>1, Zenon DEF alarm_queue_ready
    <3>5. cb'["mloop"] = cb["mloop"]
      BY <1>3, <1>4, <3>4, Zenon DEF alarm_ready_generic
    <3>6. \A c : Picked(c)' <=> Picked(c)
      BY <3>5, Zenon DEF Picked
    <3>7. callback[a] = "set" /\ due[a] # 0
      BY <3>2, Zenon DEF AlarmInv, PlaceInv, Pending
    <3>8. /\ a \notin Range(queue') /\ a \notin Range(posted')
          /\ b \in Range(queue') => b \in Range(queue)
          /\ b \in Range(posted') => b \in Range(posted)
      BY <3>2, <3>3, <3>4, Zenon
    <3> QED
      BY <3>2, <3>3, <3>4, <3>6, <3>7, <3>8, PlaceOfCalled, Zenon
  <2>2. CASE cb' = [cb EXCEPT !["default"] = cb_idle] /\ UNCHANGED <<queue, callback, due>>
    <3>1. cb'["mloop"] = cb["mloop"]
      BY <1>3, <1>4, <2>2, Zenon
    <3>2. Picked(b)' => Picked(b)
      BY <3>1, Zenon DEF Picked
    <3> QED
      BY <1>1, <1>7, <2>2, <3>2, Zenon DEF alarm_queue_ready
  <2> QED
    BY <1>7, <2>1, <2>2, Zenon DEF alarm_queue_ready
<1>8. CASE message_loop_stops \/ cleanup_ends
  <2>1. /\ alarms' = alarms \/ alarms' = <<>>
        /\ queue' = queue \/ queue' = <<>>
        /\ posted' = posted \/ posted' = <<>>
        /\ UNCHANGED <<callback, due, cb>>
    BY <1>8, Zenon DEF message_loop_stops, cleanup_ends, recordVars, historyVars
  <2> QED
    BY <1>0, <1>2, <2>1, EmptyList, PlaceFrame, Zenon
<1>9. CASE queue_readable
  <2>1. cb'["mloop"] = cb["mloop"]
    BY <1>3, <1>4, <1>9, Zenon DEF queue_readable
  <2>2. Picked(b)' => Picked(b)
    BY <2>1, Zenon DEF Picked
  <2> QED
    BY <1>1, <1>9, <2>2, Zenon DEF queue_readable, recordVars, historyVars, pendingVars
<1>10. ASSUME NEW t \in CallbackThreads, callback_begins(t) \/ callback_returns(t)
       PROVE  PlaceInv(b)'
  <2>1. Picked(b)' => Picked(b)
    <3>1. cb'[t].pc # "picked"
      BY <1>4, <1>10, SMTT(30) DEF callback_begins, callback_returns, cb_idle
    <3>2. \A u \in CallbackThreads : u # t => cb'[u] = cb[u]
      BY <1>4, <1>10, SMTT(30) DEF callback_begins, callback_returns
    <3> QED
      BY <1>3, <3>1, <3>2, Zenon DEF Picked
  <2> QED
    BY <1>1, <1>10, <2>1, Zenon
    DEF callback_begins, callback_returns, recordVars, historyVars, pendingVars
<1>11. CASE \/ \E t \in Threads, a \in Alarms : alarm_free_idle(t, a)
            \/ Return \/ tick \/ timer_callback \/ dispatcher_wakes \/ dispatch_none
            \/ cleanup_begins \/ cleanup_locks
  BY <1>1, <1>2, <1>11, Zenon
  DEF alarm_free_idle, Return, alarm_cancel_returns, tick, timer_callback, dispatcher_wakes,
      dispatch_none, cleanup_begins, cleanup_locks, recordVars, historyVars, pendingVars,
      threadVars
<1>12. ASSUME NEW t \in Threads, NEW a \in Alarms,
              \/ \E p \in Periods : alarm_set(t, a, p)
              \/ alarm_cancel(t, a)
              \/ alarm_free_scheduled(t, a)
       PROVE  PlaceInv(b)'
  BY <1>12, PlaceOfUsed, Zenon
<1>13. CASE dispatch_root
  BY <1>13, PlaceOfDispatched, Zenon
<1> QED
  BY <1>5, <1>6, <1>7, <1>8, <1>9, <1>10, <1>11, <1>12, <1>13, Zenon
  DEF Next, Use, Dispatcher, DefaultThread, MessageLoop, Cleanup, CallbackThreads

-------------------------------------------------------------------------------
(* ThreadInv and FreedInv, step by step *)

LEMMA CallFrame ==
  ASSUME NEW u, CallInv(u), cb'[u] = cb[u],
         cb[u].pc = "cleared" => /\ alarms_mutex' = alarms_mutex
                                 /\ callback'[cb[u].alarm] = callback[cb[u].alarm]
  PROVE  CallInv(u)'
  BY Zenon DEF CallInv

\* A thread that starts a call: what it has taken is set and has expired.
LEMMA CallReady ==
  ASSUME AlarmInv, NEW t \in CallbackThreads, NEW a \in Alarms, alarm_ready_generic(t, a),
         alarms_mutex = "free", Target[a] = t, callback[a] = "set", due[a] # 0
  PROVE  /\ \A u \in CallbackThreads : CallInv(u)'
         /\ cb'[t].pc # "picked"
         /\ \A u \in CallbackThreads : u # t => cb'[u] = cb[u]
<1>0. /\ callback \in [Alarms -> {"set", "null"}] /\ ThreadInv
      /\ cb \in [CallbackThreads -> [pc : {"idle", "picked", "cleared", "running"},
                                     alarm : Alarms \cup {NoAlarm},
                                     call : {"none", "due", "early", "null"}]]
  BY Zenon DEF AlarmInv, TypeInv, TypeOK, RecordType, ThreadType
<1>1. cb' = [cb EXCEPT ![t] = [pc |-> "cleared", alarm |-> a, call |-> "due"]]
  <2>1. callback[a] # "null"
    OBVIOUS
  <2> QED
    BY <2>1, Zenon DEF alarm_ready_generic
<1>2. /\ \A u \in CallbackThreads : u # t => cb'[u] = cb[u]
      /\ cb'[t].pc = "cleared" /\ cb'[t].alarm = a /\ cb'[t].call = "due"
  BY <1>0, <1>1
<1>3. callback'[a] = "set" <=> a \in PeriodicAlarms
  BY <1>0 DEF alarm_ready_generic
<1>4. alarms_mutex' = t
  BY Zenon DEF alarm_ready_generic
<1>5. CallInv(t)'
  BY <1>2, <1>3, <1>4, Zenon DEF CallInv
<1>6. ASSUME NEW u \in CallbackThreads, u # t
      PROVE  CallInv(u)'
  <2>1. cb[u].pc # "cleared"
    BY <1>0, NoneCleared
  <2> QED
    BY <1>0, <1>2, <1>6, <2>1, CallFrame, Zenon DEF ThreadInv
<1>7. cb'[t].pc # "picked"
  BY <1>2
<1> QED
  BY <1>2, <1>5, <1>6, <1>7, Zenon

LEMMA ThreadStep ==
  ASSUME AlarmInv, Next
  PROVE  ThreadInv'
<1>0. /\ TypeInv /\ ThreadInv /\ ThreadType
      /\ queue \in Seq(Alarms) /\ IsInjective(queue)
      /\ posted \in Seq(Alarms) /\ IsInjective(posted)
      /\ \A a \in Range(queue) : Target[a] = "default"
      /\ \A a \in Range(posted) : Target[a] = "mloop"
  BY Zenon DEF AlarmInv, TypeInv, TypeOK, ListType, ListInv
<1>1. /\ "default" # "mloop" /\ "default" \in CallbackThreads /\ "mloop" \in CallbackThreads
      /\ \A t \in CallbackThreads : t = "default" \/ t = "mloop"
      /\ \A t \in CallbackThreads : t # "cleanup" /\ t # "free"
  BY DEF CallbackThreads
<1>2. /\ cb \in [CallbackThreads -> [pc : {"idle", "picked", "cleared", "running"},
                                    alarm : Alarms \cup {NoAlarm},
                                    call : {"none", "due", "early", "null"}]]
      /\ op \in [Threads -> [pc : {"none", "cancel", "free"}, alarm : Alarms \cup {NoAlarm}]]
  BY <1>0, Zenon DEF ThreadType
<1>3. ASSUME UNCHANGED <<cb, op, cleanup>>,
             \/ UNCHANGED <<alarms_mutex, callback>>
             \/ alarms_mutex = "free" /\ UNCHANGED alarms_mutex
      PROVE  ThreadInv'
  <2>1. ASSUME NEW u \in CallbackThreads
        PROVE  CallInv(u)'
    <3>1. alarms_mutex = "free" => cb[u].pc # "cleared"
      BY <1>0, NoneCleared
    <3> QED
      BY <1>0, <1>3, <3>1, CallFrame, Zenon DEF ThreadInv
  <2> QED
    BY <1>0, <1>3, <2>1, Zenon DEF ThreadInv
<1>4. ASSUME NEW t \in Threads, NEW a \in Alarms,
             alarm_cancel(t, a) \/ alarm_free_scheduled(t, a)
      PROVE  ThreadInv'
  <2>1. PICK v : op' = [op EXCEPT ![t] = [pc |-> v, alarm |-> a]]
    BY <1>4, Zenon DEF alarm_cancel, alarm_free_scheduled
  <2>2. UNCHANGED <<cb, cleanup, alarms_mutex>> /\ alarms_mutex = "free"
    BY <1>4, Zenon DEF alarm_cancel, alarm_free_scheduled, Locked
  <2>3. ASSUME NEW u \in CallbackThreads
        PROVE  CallInv(u)'
    <3>1. cb[u].pc # "cleared"
      BY <1>0, <2>2, NoneCleared, SMTT(30)
    <3> QED
      BY <1>0, <2>2, <3>1, CallFrame, Zenon DEF ThreadInv
  <2>4. \A u \in Threads : op'[u].pc # "none" => op'[u].alarm \in Alarms
    BY <1>0, <1>2, <2>1 DEF ThreadInv
  <2> QED
    BY <1>0, <2>2, <2>3, <2>4, Zenon DEF ThreadInv
<1>5. ASSUME NEW t \in Threads, alarm_cancel_returns(t)
      PROVE  ThreadInv'
  <2>1. op' = [op EXCEPT ![t] = no_op] /\ UNCHANGED <<cb, cleanup, alarms_mutex, callback>>
    BY <1>5, Zenon DEF alarm_cancel_returns, recordVars
  <2>2. \A u \in Threads : op'[u].pc # "none" => op'[u].alarm \in Alarms
    BY <1>0, <1>2, <2>1 DEF ThreadInv, no_op
  <2>3. \A u \in CallbackThreads : CallInv(u)'
    BY <1>0, <2>1, CallFrame, Zenon DEF ThreadInv
  <2> QED
    BY <1>0, <2>1, <2>2, <2>3, Zenon DEF ThreadInv
<1>6. CASE alarm_ready_mloop
  <2>1. PICK a : a = cb["mloop"].alarm
    BY Zenon
  <2>2. a \in Alarms /\ Target[a] = "mloop" /\ Picked(a) /\ alarms_mutex = "free"
    BY <1>0, <1>6, <2>1, Zenon DEF alarm_ready_mloop, ThreadInv, Picked, Locked
  <2>3. alarm_ready_generic("mloop", a) /\ UNCHANGED <<op, cleanup>>
    BY <1>6, <2>1, Zenon DEF alarm_ready_mloop
  <2>4. callback[a] = "set" /\ due[a] # 0
    BY <2>2, Zenon DEF AlarmInv, PlaceInv, Pending
  <2>5. /\ \A u \in CallbackThreads : CallInv(u)'
        /\ cb'["mloop"].pc # "picked" /\ cb'["default"] = cb["default"]
    BY <1>1, <2>2, <2>3, <2>4, CallReady, Zenon
  <2>6. cleanup # "locked"
    BY <1>0, <2>2 DEF ThreadInv
  <2> QED
    BY <1>0, <2>3, <2>5, <2>6, Zenon DEF ThreadInv
<1>7. CASE alarm_queue_ready
  <2>1. CASE queue # <<>> /\ alarm_ready_generic("default", Head(queue))
    <3>1. PICK a : a = Head(queue)
      BY Zenon
    <3>2. a \in Alarms /\ a \in Range(queue) /\ Target[a] = "default"
      BY <1>0, <2>1, <3>1, TakeFirst, Zenon
    <3>3. /\ alarm_ready_generic("default", a) /\ UNCHANGED <<op, cleanup>>
          /\ alarms_mutex = "free"
      BY <1>7, <2>1, <3>1, Zenon DEF alarm_queue_ready, Locked
    <3>4. callback[a] = "set" /\ due[a] # 0
      BY <3>2, Zenon DEF AlarmInv, PlaceInv, Pending
    <3>5. /\ \A u \in CallbackThreads : CallInv(u)'
          /\ cb'["default"].pc # "picked" /\ cb'["mloop"] = cb["mloop"]
      BY <1>1, <3>2, <3>3, <3>4, CallReady, Zenon
    <3>6. cleanup # "locked"
      BY <1>0, <3>3 DEF ThreadInv
    <3> QED
      BY <1>0, <3>3, <3>5, <3>6, Zenon DEF ThreadInv
  <2>2. CASE cb' = [cb EXCEPT !["default"] = cb_idle] /\ UNCHANGED <<callback, alarms_mutex>>
    <3>1. /\ cb'["mloop"] = cb["mloop"] /\ cb'["default"].pc = "idle"
          /\ UNCHANGED <<op, cleanup>>
      BY <1>1, <1>2, <1>7, <2>2 DEF alarm_queue_ready, cb_idle
    <3>2. CallInv("default")'
      BY <3>1 DEF CallInv
    <3>3. CallInv("mloop")'
      BY <1>0, <1>1, <2>2, <3>1, CallFrame, Zenon DEF ThreadInv
    <3>4. cb'["default"].pc # "picked"
      BY <3>1
    <3> QED
      BY <1>0, <1>1, <2>2, <3>1, <3>2, <3>3, <3>4, Zenon DEF ThreadInv
  <2> QED
    BY <1>7, <2>1, <2>2, Zenon DEF alarm_queue_ready
<1>8. ASSUME NEW t \in CallbackThreads, callback_begins(t)
      PROVE  ThreadInv'
  <2>1. /\ cb[t].pc = "cleared" /\ cb' = [cb EXCEPT ![t].pc = "running"]
        /\ alarms_mutex' = "free" /\ UNCHANGED <<callback, op, cleanup>>
    BY <1>8, Zenon DEF callback_begins, recordVars
  <2>2. /\ \A u \in CallbackThreads : u # t => cb'[u] = cb[u]
        /\ cb'[t].pc = "running" /\ cb'[t].alarm = cb[t].alarm /\ cb'[t].call = cb[t].call
    BY <1>2, <2>1, SMTT(30)
  <2>3. alarms_mutex = t /\ CallInv(t)
    BY <1>0, <2>1, Zenon DEF ThreadInv, CallInv
  <2>4. CallInv(t)'
    <3>1. cb[t].alarm \in Alarms /\ Target[cb[t].alarm] = t /\ cb[t].call = "due"
      BY <2>1, <2>3 DEF CallInv
    <3>2. cb'[t].pc # "cleared"
      BY <2>2
    <3> QED
      BY <2>2, <3>1, <3>2, Zenon DEF CallInv
  <2>5. ASSUME NEW u \in CallbackThreads, u # t
        PROVE  CallInv(u)'
    <3>1. cb[u].pc # "cleared"
      BY <1>0, <2>3, <2>5, Zenon DEF ThreadInv, CallInv
    <3> QED
      BY <1>0, <2>2, <2>5, <3>1, CallFrame, Zenon DEF ThreadInv
  <2>6. cleanup # "locked"
    BY <1>0, <1>1, <2>3, Zenon DEF ThreadInv
  <2>7. cb'[t].pc # "picked"
    BY <2>2
  <2>8. /\ cb'["default"].pc = "picked" => cb'["default"].alarm = NoAlarm
        /\ cb'["mloop"].pc = "picked" =>
             cb'["mloop"].alarm \in Alarms /\ Target[cb'["mloop"].alarm] = "mloop"
    BY <1>0, <1>1, <2>2, <2>7, Zenon DEF ThreadInv
  <2> QED
    BY <1>0, <2>1, <2>4, <2>5, <2>6, <2>8, Zenon DEF ThreadInv
<1>9. ASSUME NEW t \in CallbackThreads, callback_returns(t)
      PROVE  ThreadInv'
  <2>1. cb' = [cb EXCEPT ![t] = cb_idle] /\ UNCHANGED <<callback, op, cleanup, alarms_mutex>>
    BY <1>9, Zenon DEF callback_returns, recordVars
  <2>2. /\ \A u \in CallbackThreads : u # t => cb'[u] = cb[u]
        /\ cb'[t].pc = "idle"
    BY <1>2, <2>1 DEF cb_idle
  <2>3. CallInv(t)' /\ cb'[t].pc # "picked"
    BY <2>2 DEF CallInv
  <2>4. \A u \in CallbackThreads : u # t => CallInv(u)'
    BY <1>0, <2>1, <2>2, CallFrame, Zenon DEF ThreadInv
  <2>5. /\ cb'["default"].pc = "picked" => cb'["default"].alarm = NoAlarm
        /\ cb'["mloop"].pc = "picked" =>
             cb'["mloop"].alarm \in Alarms /\ Target[cb'["mloop"].alarm] = "mloop"
    BY <1>0, <1>1, <2>2, <2>3, Zenon DEF ThreadInv
  <2> QED
    BY <1>0, <2>1, <2>3, <2>4, <2>5, Zenon DEF ThreadInv
<1>10. CASE queue_readable
  <2>1. /\ cb' = [cb EXCEPT !["default"] = [pc |-> "picked", alarm |-> NoAlarm, call |-> "none"]]
        /\ UNCHANGED <<callback, op, cleanup, alarms_mutex>>
    BY <1>10, Zenon DEF queue_readable, recordVars
  <2>2. /\ cb'["mloop"] = cb["mloop"]
        /\ cb'["default"].pc = "picked" /\ cb'["default"].alarm = NoAlarm
    BY <1>1, <1>2, <2>1
  <2>3. CallInv("default")'
    BY <2>2 DEF CallInv
  <2>4. CallInv("mloop")'
    BY <1>0, <1>1, <2>1, <2>2, CallFrame, Zenon DEF ThreadInv
  <2> QED
    BY <1>0, <1>1, <2>1, <2>2, <2>3, <2>4, Zenon DEF ThreadInv
<1>11. CASE closure_runs
  <2>1. PICK a : a = Head(posted)
    BY Zenon
  <2>2. a \in Alarms /\ Target[a] = "mloop"
    BY <1>0, <1>11, <2>1, TakeFirst, Zenon DEF closure_runs
  <2>3. /\ cb' = [cb EXCEPT !["mloop"] = [pc |-> "picked", alarm |-> a, call |-> "none"]]
        /\ UNCHANGED <<callback, op, cleanup, alarms_mutex>>
    BY <1>11, <2>1, Zenon DEF closure_runs, recordVars
  <2>4. /\ cb'["default"] = cb["default"]
        /\ cb'["mloop"].pc = "picked" /\ cb'["mloop"].alarm = a
    BY <1>1, <1>2, <2>3
  <2>5. CallInv("mloop")'
    BY <2>4 DEF CallInv
  <2>6. CallInv("default")'
    BY <1>0, <1>1, <2>3, <2>4, CallFrame, Zenon DEF ThreadInv
  <2> QED
    BY <1>0, <1>1, <2>2, <2>3, <2>4, <2>5, <2>6, Zenon DEF ThreadInv
<1>12. CASE cleanup_begins \/ cleanup_locks \/ cleanup_ends
  <2>1. /\ UNCHANGED <<cb, op, callback>>
        /\ \/ UNCHANGED alarms_mutex /\ cleanup' = "join_dispatcher"
           \/ alarms_mutex = "free" /\ cleanup' = "locked" /\ alarms_mutex' = "cleanup"
           \/ cleanup = "locked" /\ cleanup' = "done"
    BY <1>12, Zenon DEF cleanup_begins, cleanup_locks, cleanup_ends, Locked, recordVars
  <2>2. UNCHANGED alarms_mutex \/ \A u \in CallbackThreads : cb[u].pc # "cleared"
    BY <1>0, <2>1, NoneCleared DEF ThreadInv
  <2>3. \A u \in CallbackThreads : CallInv(u)'
    BY <1>0, <2>1, <2>2, CallFrame, Zenon DEF ThreadInv
  <2>4. cleanup' = "locked" => alarms_mutex' = "cleanup"
    BY <2>1
  <2> QED
    BY <1>0, <2>1, <2>3, <2>4, Zenon DEF ThreadInv
<1>13. ASSUME NEW t, NEW a, NEW p, alarm_set(t, a, p)
       PROVE  ThreadInv'
  BY <1>3, <1>13, Zenon DEF alarm_set, threadVars, Locked
<1>14. CASE \/ \E t \in Threads, a \in Alarms : alarm_free_idle(t, a)
            \/ message_loop_stops \/ tick \/ timer_callback \/ Dispatcher
  BY <1>3, <1>14, Zenon
  DEF alarm_free_idle, message_loop_stops, tick, timer_callback, Dispatcher,
      dispatcher_wakes, dispatch_none, dispatch_root, threadVars, recordVars
<1> QED
  BY <1>4, <1>5, <1>6, <1>7, <1>8, <1>9, <1>10, <1>11, <1>12, <1>13, <1>14, Zenon
  DEF Next, Use, Return, DefaultThread, MessageLoop, Cleanup, CallbackThreads

LEMMA FreedStep ==
  ASSUME AlarmInv, Next, NEW b \in Alarms
  PROVE  FreedInv(b)'
<1>0. /\ FreedInv(b) /\ callback \in [Alarms -> {"set", "null"}]
      /\ op \in [Threads -> [pc : {"none", "cancel", "free"}, alarm : Alarms \cup {NoAlarm}]]
  BY Zenon DEF AlarmInv, TypeInv, TypeOK, RecordType, ThreadType
<1>1. ASSUME UNCHANGED <<freed, op>>, callback'[b] \in {callback[b], "null"}
      PROVE  FreedInv(b)'
  BY <1>0, <1>1, Zenon DEF FreedInv
<1>2. ASSUME NEW t, NEW a \in Alarms, NEW p, alarm_set(t, a, p)
      PROVE  FreedInv(b)'
  <2>1. /\ UNCHANGED <<freed, op>> /\ callback' = [callback EXCEPT ![a] = "set"]
        /\ a \notin freed /\ \A u \in Threads : op[u] # [pc |-> "free", alarm |-> a]
    BY <1>2, Zenon DEF alarm_set, MayUse, threadVars
  <2>2. \A u \in Threads : ~(op[u].pc = "free" /\ op[u].alarm = a)
    BY <1>0, <2>1, SMTT(30)
  <2>3. CASE b = a
    BY <2>1, <2>2, <2>3, Zenon DEF FreedInv
  <2>4. CASE b # a
    BY <1>0, <1>1, <2>1, <2>4, Zenon
  <2> QED
    BY <2>3, <2>4, Zenon
<1>3. ASSUME NEW t \in Threads, NEW a \in Alarms,
             alarm_cancel(t, a) \/ alarm_free_scheduled(t, a)
      PROVE  FreedInv(b)'
  <2>1. PICK v : /\ op' = [op EXCEPT ![t] = [pc |-> v, alarm |-> a]]
                 /\ callback' = [callback EXCEPT ![a] = "null"] /\ UNCHANGED freed
    BY <1>3, Zenon DEF alarm_cancel, alarm_free_scheduled, alarm_cancel_internal
  <2>2. CASE b = a
    BY <1>0, <2>1, <2>2, Zenon DEF FreedInv
  <2>3. CASE b # a
    <3>1. \A u \in Threads : op'[u].alarm = b => op'[u] = op[u]
      BY <1>0, <2>1, <2>3
    <3>2. callback'[b] = callback[b]
      BY <1>0, <2>1, <2>3, Zenon
    <3> QED
      BY <1>0, <2>1, <3>1, <3>2, Zenon DEF FreedInv
  <2> QED
    BY <2>2, <2>3, Zenon
<1>4. ASSUME NEW t \in Threads, alarm_cancel_returns(t)
      PROVE  FreedInv(b)'
  <2>1. /\ op' = [op EXCEPT ![t] = no_op] /\ UNCHANGED callback
        /\ freed' = IF op[t].pc = "free" THEN freed \cup {op[t].alarm} ELSE freed
    BY <1>4, Zenon DEF alarm_cancel_returns, recordVars
  <2>2. \A u \in Threads : op'[u].pc = "free" => op'[u] = op[u]
    BY <1>0, <2>1 DEF no_op
  <2> QED
    BY <1>0, <2>1, <2>2, Zenon DEF FreedInv
<1>5. ASSUME NEW t \in Threads, NEW a \in Alarms, alarm_free_idle(t, a)
      PROVE  FreedInv(b)'
  BY <1>0, <1>5, Zenon DEF alarm_free_idle, FreedInv, recordVars, threadVars
<1>6. CASE alarm_queue_ready \/ alarm_ready_mloop
  <2>1. UNCHANGED <<freed, op>>
    BY <1>6, Zenon DEF alarm_queue_ready, alarm_ready_mloop
  <2>2. callback' = callback \/ \E a : callback' = [callback EXCEPT ![a] = "null"]
    BY <1>6, Zenon DEF alarm_queue_ready, alarm_ready_mloop, alarm_ready_generic
  <2>3. callback'[b] \in {callback[b], "null"}
    BY <1>0, <2>2, Zenon
  <2> QED
    BY <1>1, <2>1, <2>3, Zenon
<1>7. CASE \/ message_loop_stops \/ tick \/ timer_callback \/ Dispatcher \/ queue_readable
           \/ closure_runs \/ Cleanup
           \/ \E t \in CallbackThreads : callback_begins(t) \/ callback_returns(t)
  <2>1. UNCHANGED <<freed, op, callback>>
    BY <1>7, Zenon
    DEF message_loop_stops, tick, timer_callback, Dispatcher, dispatcher_wakes, dispatch_none,
        dispatch_root, queue_readable, closure_runs, Cleanup, cleanup_begins, cleanup_locks,
        cleanup_ends, callback_begins, callback_returns, recordVars, threadVars, historyVars
  <2> QED
    BY <1>1, <2>1, Zenon
<1> QED
  BY <1>2, <1>3, <1>4, <1>5, <1>6, <1>7, Zenon
  DEF Next, Use, Return, DefaultThread, MessageLoop, CallbackThreads

-------------------------------------------------------------------------------

LEMMA AlarmInit == Init => AlarmInv
<1> SUFFICES ASSUME Init
             PROVE  AlarmInv
  OBVIOUS
<1>1. ListType /\ ListInv /\ Range(alarms) = {} /\ Range(queue) = {} /\ Range(posted) = {}
  BY EmptyList, EmptySeq, Zenon DEF Init, ListType, ListInv
<1>2. RecordType /\ PhaseInv /\ TimerType /\ HistoryType
  BY DEF Init, RecordType, PhaseInv, TimerType, HistoryType
<1>3. /\ \A t \in CallbackThreads : cb[t].pc = "idle" /\ cb[t].alarm = NoAlarm
      /\ \A t \in Threads : op[t].pc = "none"
  BY DEF Init, cb_idle, no_op
<1>4. ThreadType
  BY DEF Init, ThreadType, cb_idle, no_op
<1>5. ThreadInv
  <2>1. "default" \in CallbackThreads /\ "mloop" \in CallbackThreads
    BY Zenon DEF CallbackThreads
  <2> QED
    BY <1>3, <2>1 DEF Init, ThreadInv, CallInv
<1>6. ASSUME NEW a \in Alarms
      PROVE  PlaceInv(a) /\ FreedInv(a)
  <2>1. ~Picked(a) /\ due[a] = 0 /\ due[a] # 2
    BY <1>3 DEF Init, Picked, CallbackThreads
  <2>2. PlaceInv(a)
    BY <1>1, <2>1, Zenon DEF PlaceInv, Pending
  <2>3. FreedInv(a)
    BY DEF Init, FreedInv
  <2> QED
    BY <2>2, <2>3, Zenon
<1> QED
  BY <1>1, <1>2, <1>4, <1>5, <1>6, Zenon DEF AlarmInv, TypeInv, TypeOK

LEMMA AlarmStep ==
  ASSUME Usage
  PROVE  AlarmInv /\ [Next]_vars => AlarmInv'
<1> SUFFICES ASSUME AlarmInv, [Next]_vars
             PROVE  AlarmInv'
  OBVIOUS
<1>1. CASE Next
  <2>1. TypeInv /\ ThreadInv /\ \A a \in Alarms : PlaceInv(a)
    BY Zenon DEF AlarmInv
  <2>2. TypeInv'
    BY <1>1, <2>1, ListStep, RecordStep, TimerStep, ThreadTypeStep, HistoryStep, Zenon
    DEF TypeInv, TypeOK
  <2>3. ThreadInv'
    BY <1>1, ThreadStep, Zenon
  <2>4. \A a \in Alarms : PlaceInv(a)' /\ FreedInv(a)'
    BY <1>1, PlaceStep, FreedStep, Zenon
  <2> QED
    BY <2>2, <2>3, <2>4, Zenon DEF AlarmInv
<1>2. CASE UNCHANGED vars
  <2>1. UNCHANGED <<alarms, callback, left, period, phase, timer, wakeup_timer, timer_set, wakelock,
                    alarm_expired, queue, posted, message_loop, dispatcher, cb, op, alarms_mutex,
                    cleanup, freed, due, ahead>>
    BY <1>2, Zenon DEF vars, recordVars, timerVars, pendingVars, threadVars, historyVars
  <2>2. TypeInv'
    <3>1. ListType' /\ RecordType'
      BY <2>1 DEF AlarmInv, TypeInv, TypeOK, ListType, RecordType
    <3>2. TimerType' /\ ThreadType'
      BY <2>1, SMTT(30) DEF AlarmInv, TypeInv, TypeOK, TimerType, ThreadType
    <3>3. HistoryType' /\ PhaseInv' /\ ListInv'
      BY <2>1, SMTT(30) DEF AlarmInv, TypeInv, TypeOK, HistoryType, PhaseInv, ListInv
    <3> QED
      BY <3>1, <3>2, <3>3, Zenon DEF TypeInv, TypeOK
  <2>3. ThreadInv'
    BY <2>1, ZenonT(30) DEF AlarmInv, ThreadInv, CallInv, Pending, Picked
  <2>4. \A a \in Alarms : PlaceInv(a)'
    BY <2>1, ZenonT(30) DEF AlarmInv, PlaceInv, Pending, Picked
  <2>5. \A a \in Alarms : FreedInv(a)'
    BY <2>1 DEF AlarmInv, FreedInv, Pending, Picked
  <2> QED
    BY <2>2, <2>3, <2>4, <2>5, Zenon DEF AlarmInv
<1> QED
  BY <1>1, <1>2, Zenon

LEMMA AlarmInvariance ==
  ASSUME Usage
  PROVE  Spec => []AlarmInv
  BY AlarmInit, AlarmStep, PTL DEF Spec

-------------------------------------------------------------------------------

\* Every variable of the alarm service keeps its type.
THEOREM TypeCorrect ==
  ASSUME Usage
  PROVE  Spec => []TypeOK
<1>1. AlarmInv => TypeOK
  BY Zenon DEF AlarmInv, TypeInv
<1> QED
  BY <1>1, AlarmInvariance, PTL

\* The promise of alarm_cancel and alarm_set (alarm.h): alarm_ready_generic calls
\* an alarm only for an expiry of the alarm as it was last set.
THEOREM CallbacksAreDue ==
  ASSUME Usage
  PROVE  Spec => []OnlyDueCallbacks
<1>1. AlarmInv => OnlyDueCallbacks
  BY Zenon DEF AlarmInv, ThreadInv, CallInv, OnlyDueCallbacks
<1> QED
  BY <1>1, AlarmInvariance, PTL

\* Once alarm_free has released an alarm, neither the list nor a queue refers to
\* it and the message loop is not about to look at it.
THEOREM FreedForgotten ==
  ASSUME Usage
  PROVE  Spec => []FreedIsForgotten
<1>1. ASSUME AlarmInv, NEW a \in freed
      PROVE  /\ a \notin Range(alarms) \cup Range(queue) \cup Range(posted)
             /\ \A t \in CallbackThreads : cb[t].pc = "picked" => cb[t].alarm # a
  <2>1. a \in Alarms
    BY <1>1, Zenon DEF AlarmInv, TypeInv, TypeOK, HistoryType
  <2>2. callback[a] # "set"
    <3>1. callback[a] = "null"
      BY <1>1, <2>1, Zenon DEF AlarmInv, FreedInv
    <3> QED
      BY <3>1
  <2>3. a \notin Range(alarms) /\ ~Pending(a)
    BY <1>1, <2>1, <2>2, Zenon DEF AlarmInv, PlaceInv
  <2>4. cb["default"].pc = "picked" => cb["default"].alarm # a
    BY <1>1, <2>1, AlarmAssumption, Zenon DEF AlarmInv, ThreadInv
  <2> QED
    BY <2>3, <2>4, Zenon DEF Pending, Picked, CallbackThreads
<1>2. AlarmInv => FreedIsForgotten
  BY <1>1, Zenon DEF FreedIsForgotten
<1> QED
  BY <1>2, AlarmInvariance, PTL

-------------------------------------------------------------------------------
(* Alarm implements AlarmSpec *)

LEMMA NoneCommitted ==
  ASSUME ThreadInv, alarms_mutex \in {"free", "cleanup"}, NEW a
  PROVE  ~Committed(a)
  BY NoneCleared, Zenon DEF Committed

\* A step that changes neither the records, the expiries nor the threads is not
\* seen by the users.
LEMMA NotSeen ==
  ASSUME UNCHANGED <<callback, due, cb, op>>
  PROVE  UNCHANGED Promise!vars
<1>1. \A a : Committed(a)' <=> Committed(a)
  BY Zenon DEF Committed
<1>2. Status' = Status /\ Fires' = Fires
  BY <1>1, Zenon DEF Status, Fires
<1>3. Calling' = Calling /\ Waiting' = Waiting
  BY Zenon DEF Calling, Waiting
<1> QED
  BY <1>2, <1>3, Zenon DEF Promise!vars

LEMMA UpdateAt ==
  ASSUME NEW S, NEW f, NEW g, NEW a \in S, NEW v, g[a] = v,
         f = [b \in S |-> f[b]], g = [b \in S |-> g[b]],
         \A b \in S : b # a => g[b] = f[b]
  PROVE  g = [f EXCEPT ![a] = v]
  OBVIOUS

LEMMA StatusUpdate ==
  ASSUME NEW a \in Alarms, NEW v, Status'[a] = v,
         \A b \in Alarms : b # a => callback'[b] = callback[b] /\ (Committed(b)' <=> Committed(b))
  PROVE  Status' = [Status EXCEPT ![a] = v]
<1>1. /\ Status = [b \in Alarms |-> Status[b]] /\ Status' = [b \in Alarms |-> Status'[b]]
      /\ \A b \in Alarms : b # a => Status'[b] = Status[b]
  BY Zenon DEF Status
<1> QED
  BY <1>1, UpdateAt, Zenon

LEMMA WaitingUpdate ==
  ASSUME NEW t \in Threads, NEW v, Waiting'[t] = v, \A u \in Threads : u # t => op'[u] = op[u]
  PROVE  Waiting' = [Waiting EXCEPT ![t] = v]
<1>1. /\ Waiting = [u \in Threads |-> Waiting[u]] /\ Waiting' = [u \in Threads |-> Waiting'[u]]
      /\ \A u \in Threads : u # t => Waiting'[u] = Waiting[u]
  BY Zenon DEF Waiting
<1> QED
  BY <1>1, UpdateAt, Zenon

LEMMA SetSeen ==
  ASSUME AlarmInv, NEW t \in Threads, NEW a \in Alarms, NEW p \in Periods, alarm_set(t, a, p)
  PROVE  Promise!Set(a)
<1>1. /\ callback' = [callback EXCEPT ![a] = "set"] /\ due' = [due EXCEPT ![a] = 0]
      /\ UNCHANGED <<cb, op>> /\ alarms_mutex = "free"
  BY Zenon DEF alarm_set, threadVars, Locked
<1>2. /\ callback \in [Alarms -> {"set", "null"}] /\ due \in [Alarms -> 0 .. 2] /\ ThreadInv
  BY Zenon DEF AlarmInv, TypeInv, TypeOK, RecordType, HistoryType
<1>3. \A b : ~Committed(b) /\ ~Committed(b)'
  BY <1>1, <1>2, NoneCommitted, Zenon DEF Committed
<1>4. Status' = [Status EXCEPT ![a] = "scheduled"]
  <2>1. /\ \A b \in Alarms : b # a => callback'[b] = callback[b]
        /\ callback'[a] = "set"
    BY <1>1, <1>2, Zenon
  <2>2. Status'[a] = "scheduled"
    BY <2>1, Zenon DEF Status
  <2> QED
    BY <1>3, <2>1, <2>2, StatusUpdate, Zenon
<1>5. Fires' = [Fires EXCEPT ![a] = 0]
  BY <1>1, <1>2, <1>3, SMTT(30) DEF Fires
<1>6. Calling' = Calling /\ Waiting' = Waiting
  BY <1>1, Zenon DEF Calling, Waiting
<1> QED
  BY <1>4, <1>5, <1>6, Zenon DEF Promise!Set

LEMMA CancelSeen ==
  ASSUME AlarmInv, NEW t \in Threads, NEW a \in Alarms,
         alarm_cancel(t, a) \/ alarm_free_scheduled(t, a)
  PROVE  Promise!Cancel(t, a)
<1>1. /\ callback' = [callback EXCEPT ![a] = "null"] /\ due' = [due EXCEPT ![a] = 0]
      /\ UNCHANGED cb /\ alarms_mutex = "free" /\ op[t] = no_op
  BY Zenon DEF alarm_cancel, alarm_free_scheduled, alarm_cancel_internal, Locked, MayUse
<1>2. PICK v : op' = [op EXCEPT ![t] = [pc |-> v, alarm |-> a]]
  BY Zenon DEF alarm_cancel, alarm_free_scheduled
<1>3. /\ callback \in [Alarms -> {"set", "null"}] /\ due \in [Alarms -> 0 .. 2] /\ ThreadInv
      /\ op \in [Threads -> [pc : {"none", "cancel", "free"}, alarm : Alarms \cup {NoAlarm}]]
  BY Zenon DEF AlarmInv, TypeInv, TypeOK, RecordType, HistoryType, ThreadType
<1>4. \A b : ~Committed(b) /\ ~Committed(b)'
  BY <1>1, <1>3, NoneCommitted, Zenon DEF Committed
<1>5. Status' = [Status EXCEPT ![a] = "idle"]
  <2>1. /\ \A b \in Alarms : b # a => callback'[b] = callback[b]
        /\ callback'[a] = "null" /\ "null" # "set"
    BY <1>1, <1>3
  <2>2. Status'[a] = "idle"
    BY <1>4, <2>1, Zenon DEF Status
  <2> QED
    BY <1>4, <2>1, <2>2, StatusUpdate, Zenon
<1>6. Fires' = [Fires EXCEPT ![a] = 0]
  BY <1>1, <1>3, <1>4, SMTT(30) DEF Fires
<1>7. Waiting[t] = NoAlarm /\ Waiting' = [Waiting EXCEPT ![t] = a]
  <2>1. /\ op[t].alarm = NoAlarm /\ op'[t].alarm = a
        /\ \A u \in Threads : u # t => op'[u] = op[u]
    BY <1>1, <1>2, <1>3 DEF no_op
  <2>2. Waiting[t] = NoAlarm /\ Waiting'[t] = a
    BY <2>1, Zenon DEF Waiting
  <2> QED
    BY <2>1, <2>2, WaitingUpdate, ZenonT(30)
<1>8. Calling' = Calling
  BY <1>1, Zenon DEF Calling
<1> QED
  BY <1>5, <1>6, <1>7, <1>8, Zenon DEF Promise!Cancel

LEMMA CancelReturnSeen ==
  ASSUME AlarmInv, NEW t \in Threads, alarm_cancel_returns(t)
  PROVE  Promise!CancelReturns(t)
<1>1. /\ op' = [op EXCEPT ![t] = no_op] /\ UNCHANGED <<callback, due, cb>>
      /\ op[t].pc \in {"cancel", "free"} /\ CallbackMutexFree(t, op[t].alarm)
  BY Zenon DEF alarm_cancel_returns, recordVars
<1>2. /\ op \in [Threads -> [pc : {"none", "cancel", "free"}, alarm : Alarms \cup {NoAlarm}]]
      /\ ThreadInv
  BY Zenon DEF AlarmInv, TypeInv, TypeOK, ThreadType
<1>3. op[t].alarm \in Alarms /\ op[t].alarm # NoAlarm
  <2>1. op[t].pc # "none"
    BY <1>1
  <2> QED
    BY <1>2, <2>1, AlarmAssumption, Zenon DEF ThreadInv
<1>4. Waiting[t] = op[t].alarm
  BY Zenon DEF Waiting
<1>5. ASSUME NEW u \in CallbackThreads \ {t}
      PROVE  Calling[u] # op[t].alarm
  BY <1>1, <1>3, Zenon DEF Calling, CallbackMutexFree
<1>6. Waiting' = [Waiting EXCEPT ![t] = NoAlarm]
  <2>1. op'[t].alarm = NoAlarm /\ \A u \in Threads : u # t => op'[u] = op[u]
    BY <1>1, <1>2 DEF no_op
  <2>2. Waiting'[t] = NoAlarm
    BY <2>1, Zenon DEF Waiting
  <2> QED
    BY <2>1, <2>2, WaitingUpdate, Zenon
<1>7. \A b : Committed(b)' <=> Committed(b)
  BY <1>1, Zenon DEF Committed
<1>8. Status' = Status /\ Fires' = Fires /\ Calling' = Calling
  BY <1>1, <1>7, Zenon DEF Status, Fires, Calling
<1> QED
  BY <1>3, <1>4, <1>5, <1>6, <1>8, Zenon DEF Promise!CancelReturns

LEMMA DispatchSeen ==
  ASSUME AlarmInv, dispatch_root, NEW a, a = Head(alarms)
  PROVE  a \in Alarms /\ Promise!Expire(a)
<1>1. /\ alarms \in Seq(Alarms) /\ IsInjective(alarms) /\ left \in [Alarms -> Nat]
      /\ due \in [Alarms -> 0 .. 2] /\ ThreadInv /\ alarms # <<>>
  BY Zenon DEF AlarmInv, TypeInv, TypeOK, ListType, ListInv, RecordType, HistoryType,
               dispatch_root, Expired
<1>2. a \in Alarms /\ a \in Range(alarms)
  BY <1>1, TailElements, Zenon
<1>3. /\ due' = [due EXCEPT ![a] = IF left[a] > 0 THEN @ ELSE IF @ < 2 THEN @ + 1 ELSE 2]
      /\ UNCHANGED <<callback, cb, op>> /\ left[a] = 0 /\ alarms_mutex = "free"
  BY Zenon DEF dispatch_root, Expired, Locked
<1>4. callback[a] = "set" /\ (a \notin PeriodicAlarms => due[a] = 0)
  BY <1>2, Zenon DEF AlarmInv, PlaceInv
<1>5. \A b : ~Committed(b) /\ ~Committed(b)'
  BY <1>1, <1>3, NoneCommitted, Zenon DEF Committed
<1>6. Status[a] = "scheduled" /\ Status' = Status
  BY <1>2, <1>3, <1>4, <1>5, Zenon DEF Status
<1>7. Fires[a] = due[a]
  BY <1>2, <1>5, Zenon DEF Fires
<1>8. Fires' = [Fires EXCEPT ![a] = IF @ < 2 THEN @ + 1 ELSE 2]
  <2>1. due' = [due EXCEPT ![a] = IF due[a] < 2 THEN due[a] + 1 ELSE 2]
    BY <1>1, <1>2, <1>3, SMTT(30)
  <2> QED
    BY <1>1, <1>2, <1>5, <2>1, SMTT(30) DEF Fires
<1>9. Calling' = Calling /\ Waiting' = Waiting
  BY <1>3, Zenon DEF Calling, Waiting
<1> QED
  BY <1>2, <1>4, <1>6, <1>7, <1>8, <1>9, Zenon DEF Promise!Expire

\* alarm_ready_generic: nothing is seen until the callback is called.
LEMMA ReadyNotSeen ==
  ASSUME AlarmInv, NEW t \in CallbackThreads, NEW a \in Alarms, alarm_ready_generic(t, a),
         alarms_mutex = "free", Target[a] = t, callback[a] = "set", due[a] # 0,
         cb[t].pc = "picked", UNCHANGED op
  PROVE  UNCHANGED Promise!vars
<1>1. /\ callback \in [Alarms -> {"set", "null"}] /\ due \in [Alarms -> 0 .. 2] /\ ThreadInv
      /\ cb \in [CallbackThreads -> [pc : {"idle", "picked", "cleared", "running"},
                                     alarm : Alarms \cup {NoAlarm},
                                     call : {"none", "due", "early", "null"}]]
  BY Zenon DEF AlarmInv, TypeInv, TypeOK, RecordType, HistoryType, ThreadType
<1>2. PICK v : cb' = [cb EXCEPT ![t] = [pc |-> "cleared", alarm |-> a, call |-> v]]
  BY Zenon DEF alarm_ready_generic
<1>3. /\ cb'[t].pc = "cleared" /\ cb'[t].alarm = a /\ cb'[t].pc # "running"
      /\ \A u \in CallbackThreads : u # t => cb'[u] = cb[u]
      /\ cb[t].pc # "running"
  BY <1>1, <1>2
<1>4. \A b : ~Committed(b)
  BY <1>1, NoneCommitted, Zenon
<1>5. \A b : Committed(b)' <=> b = a
  <2>1. \A u \in CallbackThreads : cb[u].pc # "cleared"
    BY <1>1, NoneCleared, Zenon
  <2> QED
    BY <1>3, <2>1, Zenon DEF Committed
<1>6. \A b \in Alarms : b # a => callback'[b] = callback[b] /\ due'[b] = due[b]
  BY <1>1, Zenon DEF alarm_ready_generic
<1>7. due'[a] + 1 = due[a]
  <2>1. due' = [due EXCEPT ![a] = IF @ = 0 THEN 0 ELSE @ - 1]
    BY Zenon DEF alarm_ready_generic
  <2> QED
    BY <1>1, <2>1, SMTT(30)
<1>8. Status' = Status
  <2>1. \A b \in Alarms : Status'[b] = Status[b]
    BY <1>4, <1>5, <1>6, Zenon DEF Status
  <2>2. /\ Status = [b \in Alarms |-> Status[b]] /\ Status' = [b \in Alarms |-> Status'[b]]
    BY Zenon DEF Status
  <2> QED
    BY <2>1, <2>2
<1>9. Fires' = Fires
  <2>1. \A b \in Alarms : Fires'[b] = Fires[b]
    BY <1>4, <1>5, <1>6, <1>7, Zenon DEF Fires
  <2>2. /\ Fires = [b \in Alarms |-> Fires[b]] /\ Fires' = [b \in Alarms |-> Fires'[b]]
    BY Zenon DEF Fires
  <2> QED
    BY <2>1, <2>2
<1>10. Calling' = Calling
  <2>1. \A u \in CallbackThreads : Calling'[u] = Calling[u]
    BY <1>3, Zenon DEF Calling
  <2>2. /\ Calling = [u \in CallbackThreads |-> Calling[u]]
        /\ Calling' = [u \in CallbackThreads |-> Calling'[u]]
    BY Zenon DEF Calling
  <2> QED
    BY <2>1, <2>2
<1> QED
  BY <1>8, <1>9, <1>10, Zenon DEF Promise!vars, Waiting

\* A callback thread starts and abandons work: nothing is seen.
LEMMA ThreadNotSeen ==
  ASSUME NEW t \in CallbackThreads, NEW v, cb' = [cb EXCEPT ![t] = v], ThreadType,
         v.pc \notin {"running", "cleared"}, cb[t].pc \notin {"running", "cleared"},
         UNCHANGED <<callback, due, op>>
  PROVE  UNCHANGED Promise!vars
<1>1. cb'[t] = v /\ \A u \in CallbackThreads : u # t => cb'[u] = cb[u]
  BY Zenon DEF ThreadType
<1>2. \A b : Committed(b)' <=> Committed(b)
  BY <1>1, Zenon DEF Committed
<1>3. Status' = Status /\ Fires' = Fires /\ Waiting' = Waiting
  BY <1>2, Zenon DEF Status, Fires, Waiting
<1>4. \A u \in CallbackThreads : cb'[u].pc = "running" <=> cb[u].pc = "running"
  <2>1. v.pc # "running" /\ cb[t].pc # "running"
    OBVIOUS
  <2> QED
    BY <1>1, <2>1, Zenon
<1>5. \A u \in CallbackThreads : cb'[u].pc = "running" => cb'[u].alarm = cb[u].alarm
  <2>1. v.pc # "running"
    OBVIOUS
  <2> QED
    BY <1>1, <2>1, Zenon
<1>6. Calling' = Calling
  BY <1>4, <1>5, SMTT(30) DEF Calling
<1> QED
  BY <1>3, <1>6, Zenon DEF Promise!vars

LEMMA CallSeen ==
  ASSUME AlarmInv, NEW t \in CallbackThreads, callback_begins(t), NEW a, a = cb[t].alarm
  PROVE  a \in Alarms /\ Promise!Call(a)
<1>1. /\ callback \in [Alarms -> {"set", "null"}] /\ due \in [Alarms -> 0 .. 2] /\ ThreadInv
      /\ cb \in [CallbackThreads -> [pc : {"idle", "picked", "cleared", "running"},
                                     alarm : Alarms \cup {NoAlarm},
                                     call : {"none", "due", "early", "null"}]]
  BY Zenon DEF AlarmInv, TypeInv, TypeOK, RecordType, HistoryType, ThreadType
<1>2. /\ cb[t].pc = "cleared" /\ cb' = [cb EXCEPT ![t].pc = "running"]
      /\ UNCHANGED <<callback, due, op>>
  BY Zenon DEF callback_begins, recordVars, historyVars
<1>3. /\ \A u \in CallbackThreads : u # t => cb'[u] = cb[u]
      /\ cb'[t].pc = "running" /\ cb'[t].alarm = a
      /\ cb'[t].pc # "cleared" /\ cb[t].pc # "running"
  BY <1>1, <1>2, SMTT(30)
<1>4. /\ a \in Alarms /\ Target[a] = t /\ alarms_mutex = t
      /\ callback[a] = "set" <=> a \in PeriodicAlarms
  BY <1>1, <1>2 DEF ThreadInv, CallInv
<1>5. \A u \in CallbackThreads : u # t => cb[u].pc # "cleared"
  BY <1>1, <1>4, Zenon DEF ThreadInv, CallInv
<1>6. \A b : (Committed(b) <=> b = a) /\ ~Committed(b)'
  BY <1>2, <1>3, <1>5, Zenon DEF Committed
<1>7. /\ Status[a] = "scheduled" /\ Fires[a] = due[a] + 1 /\ Fires'[a] = due[a]
      /\ Calling[t] = NoAlarm /\ Calling'[t] = a
  BY <1>2, <1>3, <1>4, <1>6, Zenon DEF Status, Fires, Calling
<1>8. Fires[a] > 0 /\ Fires'[a] = Fires[a] - 1
  BY <1>1, <1>4, <1>7, SMTT(30)
<1>9. Fires' = [Fires EXCEPT ![a] = Fires[a] - 1]
  <2>1. /\ Fires = [b \in Alarms |-> Fires[b]] /\ Fires' = [b \in Alarms |-> Fires'[b]]
        /\ \A b \in Alarms : b # a => Fires'[b] = Fires[b]
    BY <1>2, <1>6, Zenon DEF Fires
  <2> QED
    BY <1>4, <1>8, <2>1, UpdateAt, Zenon
<1>10. Calling' = [Calling EXCEPT ![t] = a]
  <2>1. /\ Calling = [u \in CallbackThreads |-> Calling[u]]
        /\ Calling' = [u \in CallbackThreads |-> Calling'[u]]
        /\ \A u \in CallbackThreads : u # t => Calling'[u] = Calling[u]
    BY <1>3, Zenon DEF Calling
  <2> QED
    BY <1>7, <2>1, UpdateAt, Zenon
<1>11. Status' = IF a \in PeriodicAlarms THEN Status ELSE [Status EXCEPT ![a] = "idle"]
  <2>1. CASE a \in PeriodicAlarms
    <3>1. /\ Status = [b \in Alarms |-> Status[b]] /\ Status' = [b \in Alarms |-> Status'[b]]
          /\ \A b \in Alarms : Status'[b] = Status[b]
      BY <1>2, <1>4, <1>6, <2>1, Zenon DEF Status
    <3>2. Status' = Status
      BY <3>1
    <3> QED
      BY <2>1, <3>2, Zenon
  <2>2. CASE a \notin PeriodicAlarms
    <3>1. Status'[a] = "idle"
      BY <1>2, <1>4, <1>6, <2>2, Zenon DEF Status
    <3>2. Status' = [Status EXCEPT ![a] = "idle"]
      BY <1>2, <1>4, <1>6, <3>1, StatusUpdate, Zenon
    <3> QED
      BY <2>2, <3>2, Zenon
  <2> QED
    BY <2>1, <2>2, Zenon
<1>12. Waiting' = Waiting
  BY <1>2, Zenon DEF Waiting
<1> QED
  BY <1>4, <1>7, <1>8, <1>9, <1>10, <1>11, <1>12, Zenon DEF Promise!Call

LEMMA ReturnSeen ==
  ASSUME AlarmInv, NEW t \in CallbackThreads, callback_returns(t)
  PROVE  Promise!Return(t)
<1>1. ThreadInv /\ DOMAIN cb = CallbackThreads
  BY Zenon DEF AlarmInv, TypeInv, TypeOK, ThreadType
<1>2. /\ cb[t].pc = "running" /\ cb' = [cb EXCEPT ![t] = cb_idle]
      /\ UNCHANGED <<callback, due, op>>
  BY Zenon DEF callback_returns, recordVars, historyVars
<1>3. /\ \A u \in CallbackThreads : u # t => cb'[u] = cb[u]
      /\ cb'[t].pc # "cleared" /\ cb'[t].pc # "running" /\ cb[t].pc # "cleared"
      /\ cb[t].pc \in {"cleared", "running"}
  BY <1>1, <1>2 DEF cb_idle
<1>4. \A b : Committed(b)' <=> Committed(b)
  BY <1>3, Zenon DEF Committed
<1>5. Status' = Status /\ Fires' = Fires /\ Waiting' = Waiting
  <2>1. Status' = Status
    BY <1>2, <1>4, ZenonT(30) DEF Status
  <2>2. Fires' = Fires
    BY <1>2, <1>4, ZenonT(30) DEF Fires
  <2>3. Waiting' = Waiting
    BY <1>2, ZenonT(30) DEF Waiting
  <2> QED
    BY <2>1, <2>2, <2>3, Zenon
<1>6. cb[t].alarm \in Alarms /\ cb[t].alarm # NoAlarm
  BY <1>1, <1>3, AlarmAssumption, ZenonT(30) DEF ThreadInv, CallInv
<1>7. Calling[t] # NoAlarm /\ Calling'[t] = NoAlarm
  BY <1>2, <1>3, <1>6, Zenon DEF Calling
<1>8. Calling' = [Calling EXCEPT ![t] = NoAlarm]
  <2>1. /\ Calling = [u \in CallbackThreads |-> Calling[u]]
        /\ Calling' = [u \in CallbackThreads |-> Calling'[u]]
        /\ \A u \in CallbackThreads : u # t => Calling'[u] = Calling[u]
    BY <1>3, Zenon DEF Calling
  <2> QED
    BY <1>7, <2>1, UpdateAt, SMTT(30)
<1> QED
  BY <1>5, <1>7, <1>8, Zenon DEF Promise!Return

LEMMA StepSeen ==
  ASSUME AlarmInv, [Next]_vars
  PROVE  [Promise!Next]_(Promise!vars)
<1>0. /\ TypeInv /\ ThreadInv /\ ThreadType
      /\ queue \in Seq(Alarms) /\ IsInjective(queue)
      /\ posted \in Seq(Alarms) /\ IsInjective(posted)
      /\ \A a \in Range(queue) : Target[a] = "default"
      /\ "default" \in CallbackThreads /\ "mloop" \in CallbackThreads
  BY Zenon DEF AlarmInv, TypeInv, TypeOK, ListType, ListInv, CallbackThreads
<1>1. CASE Use
  <2>1. PICK t \in Threads, a \in Alarms :
          \/ \E p \in Periods : alarm_set(t, a, p)
          \/ alarm_cancel(t, a) \/ alarm_free_scheduled(t, a)
          \/ alarm_free_idle(t, a)
    BY <1>1, Zenon DEF Use
  <2>2. CASE \E p \in Periods : alarm_set(t, a, p)
    BY <2>2, SetSeen, Zenon DEF Promise!Next
  <2>3. CASE alarm_cancel(t, a) \/ alarm_free_scheduled(t, a)
    BY <2>3, CancelSeen, Zenon DEF Promise!Next
  <2>4. CASE alarm_free_idle(t, a)
    BY <2>4, NotSeen, Zenon DEF alarm_free_idle, recordVars, threadVars
  <2> QED
    BY <2>1, <2>2, <2>3, <2>4, Zenon
<1>2. CASE Return
  BY <1>2, CancelReturnSeen, Zenon DEF Return, Promise!Next
<1>3. CASE dispatch_root
  BY <1>3, DispatchSeen, Zenon DEF Promise!Next
<1>4. CASE \E t \in CallbackThreads : callback_begins(t)
  BY <1>4, CallSeen, Zenon DEF Promise!Next
<1>5. CASE \E t \in CallbackThreads : callback_returns(t)
  BY <1>5, ReturnSeen, Zenon DEF Promise!Next
<1>6. CASE alarm_ready_mloop
  <2>1. PICK a : a = cb["mloop"].alarm
    BY Zenon
  <2>2. /\ a \in Alarms /\ Target[a] = "mloop" /\ Picked(a) /\ alarms_mutex = "free"
        /\ alarm_ready_generic("mloop", a) /\ UNCHANGED op /\ cb["mloop"].pc = "picked"
    BY <1>0, <1>6, <2>1, Zenon DEF alarm_ready_mloop, ThreadInv, Picked, Locked
  <2>3. callback[a] = "set" /\ due[a] # 0
    BY <2>2, Zenon DEF AlarmInv, PlaceInv, Pending
  <2> QED
    BY <1>0, <2>2, <2>3, ReadyNotSeen, Zenon
<1>7. CASE alarm_queue_ready
  <2>1. CASE queue # <<>> /\ alarm_ready_generic("default", Head(queue))
    <3>1. PICK a : a = Head(queue)
      BY Zenon
    <3>2. a \in Alarms /\ a \in Range(queue) /\ Target[a] = "default"
      BY <1>0, <2>1, <3>1, TakeFirst, Zenon
    <3>3. /\ alarm_ready_generic("default", a) /\ UNCHANGED op
          /\ alarms_mutex = "free" /\ cb["default"].pc = "picked"
      BY <1>7, <2>1, <3>1, Zenon DEF alarm_queue_ready, Locked
    <3>4. callback[a] = "set" /\ due[a] # 0
      BY <3>2, Zenon DEF AlarmInv, PlaceInv, Pending
    <3> QED
      BY <1>0, <3>2, <3>3, <3>4, ReadyNotSeen, Zenon
  <2>2. CASE cb' = [cb EXCEPT !["default"] = cb_idle] /\ UNCHANGED <<callback, due>>
    <3>1. /\ cb_idle.pc \notin {"running", "cleared"} /\ UNCHANGED op
          /\ cb["default"].pc \notin {"running", "cleared"}
      BY <1>7 DEF alarm_queue_ready, cb_idle
    <3> QED
      BY <1>0, <2>2, <3>1, ThreadNotSeen, ZenonT(30)
  <2> QED
    BY <1>7, <2>1, <2>2, Zenon DEF alarm_queue_ready
<1>8. CASE queue_readable \/ closure_runs
  <2>1. \E t \in CallbackThreads : \E a :
          /\ cb' = [cb EXCEPT ![t] = [pc |-> "picked", alarm |-> a, call |-> "none"]]
          /\ cb[t].pc = "idle" /\ UNCHANGED <<callback, due, op>>
    <3>1. cb_idle.pc = "idle"
      BY DEF cb_idle
    <3> QED
      BY <1>0, <1>8, <3>1, Zenon DEF queue_readable, closure_runs, recordVars, historyVars
  <2>2. PICK t \in CallbackThreads : \E v :
          /\ cb' = [cb EXCEPT ![t] = v] /\ v.pc = "picked"
          /\ cb[t].pc = "idle" /\ UNCHANGED <<callback, due, op>>
    BY <2>1, Zenon
  <2>3. PICK v : cb' = [cb EXCEPT ![t] = v] /\ v.pc = "picked"
    BY <2>2, Zenon
  <2>4. v.pc \notin {"running", "cleared"} /\ cb[t].pc \notin {"running", "cleared"}
    BY <2>2, <2>3
  <2> QED
    BY <1>0, <2>2, <2>3, <2>4, ThreadNotSeen, Zenon
<1>9. CASE \/ message_loop_stops \/ tick \/ timer_callback \/ dispatcher_wakes \/ dispatch_none
           \/ Cleanup
  <2>1. UNCHANGED <<callback, due, cb, op>>
    BY <1>9, Zenon
    DEF message_loop_stops, tick, timer_callback, dispatcher_wakes, dispatch_none, Cleanup,
        cleanup_begins, cleanup_locks, cleanup_ends, recordVars, threadVars, historyVars
  <2> QED
    BY <2>1, NotSeen, Zenon
<1>10. CASE UNCHANGED vars
  <2>1. UNCHANGED <<callback, due, cb, op>>
    BY <1>10, Zenon DEF vars, recordVars, threadVars, historyVars
  <2> QED
    BY <2>1, NotSeen, Zenon
<1> QED
  BY <1>1, <1>2, <1>3, <1>4, <1>5, <1>6, <1>7, <1>8, <1>9, <1>10, Zenon
  DEF Next, Dispatcher, DefaultThread, MessageLoop, CallbackThreads

\* alarm.cc implements what alarm.h promises its users: every step sets, expires,
\* calls, returns or cancels an alarm as AlarmSpec allows, or is not seen.
THEOREM ImplementsAlarmSpec ==
  ASSUME Usage
  PROVE  Spec => KeepsPromise
<1>1. Init => Promise!Init
  <2> SUFFICES ASSUME Init
               PROVE  Promise!Init
    OBVIOUS
  <2>1. /\ \A t \in CallbackThreads : cb[t].pc # "running" /\ cb[t].pc # "cleared"
        /\ \A t \in Threads : op[t].alarm = NoAlarm
        /\ \A a \in Alarms : callback[a] # "set" /\ due[a] = 0
    BY DEF Init, cb_idle, no_op
  <2>2. \A a : ~Committed(a)
    BY <2>1, Zenon DEF Committed
  <2>3. Calling = [t \in CallbackThreads |-> NoAlarm] /\ Waiting = [t \in Threads |-> NoAlarm]
    BY <2>1, SMTT(30) DEF Calling, Waiting
  <2>4. Status = [a \in Alarms |-> "idle"] /\ Fires = [a \in Alarms |-> 0]
    BY <2>1, <2>2, SMTT(30) DEF Status, Fires
  <2> QED
    BY <2>3, <2>4, Zenon DEF Promise!Init
<1>2. AlarmInv /\ [Next]_vars => [Promise!Next]_(Promise!vars)
  BY StepSeen
<1> QED
  BY <1>1, <1>2, AlarmInvariance, PTL DEF Spec, KeepsPromise, Promise!Spec

-------------------------------------------------------------------------------
(* The root alarm and its timer *)

\* The wake lock is taken with the plain timer and released with it.
LockInv == timer_set = "yes" <=> wakelock = "held"

RootInv == LockInv /\ RootIsArmed

\* reschedule_root_alarm arms a timer for the first alarm of the list it is given,
\* or gives the wake lock back.
LEMMA RescheduleArms ==
  ASSUME NEW list, NEW time, reschedule_root_alarm(list, time, alarm_expired), TimerType, LockInv,
         ~WakelockMayFail
  PROVE  /\ LockInv'
         /\ list # <<>> => \/ timer' = time[Head(list)] /\ wakelock' = "held"
                           \/ wakeup_timer' = time[Head(list)]
         /\ list = <<>> => wakelock' = "released"
<1>1. "yes" # "no" /\ "held" # "released"
  OBVIOUS
<1>2. /\ timer_set = "no" \/ timer_set = "yes"
      /\ wakelock = "held" \/ wakelock = "released"
  BY Zenon DEF TimerType
<1>3. PICK near \in BOOLEAN :
        /\ near => list # <<>>
        /\ \/ /\ near
              /\ wakelock' = IF timer_set = "no" THEN "held" ELSE wakelock
              /\ timer_set' = "yes"
              /\ timer' = time[Head(list)]
           \/ /\ ~near
              /\ wakeup_timer' = IF list = <<>> THEN wakeup_timer ELSE time[Head(list)]
              /\ wakelock' = IF timer_set = "yes" THEN "released" ELSE wakelock
              /\ timer_set' = "no"
  <2>1. PICK near : near = (list # <<>> /\ time[Head(list)] < TIMER_INTERVAL_FOR_WAKELOCK_IN_MS)
    BY Zenon
  <2> QED
    BY <2>1, Zenon DEF reschedule_root_alarm
<1>4. CASE near
  <2>1. wakelock' = "held" /\ timer_set' = "yes"
    BY <1>1, <1>2, <1>3, <1>4, Zenon DEF LockInv
  <2> QED
    BY <1>3, <1>4, <2>1, Zenon DEF LockInv
<1>5. CASE ~near
  <2>1. wakelock' = "released" /\ timer_set' = "no"
    BY <1>1, <1>2, <1>3, <1>5, Zenon DEF LockInv
  <2> QED
    BY <1>1, <1>3, <1>5, <2>1, Zenon DEF LockInv
<1> QED
  BY <1>4, <1>5, Zenon

\* The list keeps its root, and the root its deadline and its timer.
LEMMA RootKept ==
  ASSUME RootInv, UNCHANGED timerVars, UNCHANGED <<dispatcher, cleanup>>,
         alarms' = <<>> <=> alarms = <<>>,
         alarms # <<>> => Head(alarms') = Head(alarms) /\ left'[Head(alarms)] = left[Head(alarms)]
  PROVE  RootInv'
  BY Zenon DEF RootInv, LockInv, RootIsArmed, timerVars

LEMMA RootArmed ==
  ASSUME TimerType, LockInv, ~WakelockMayFail,
         reschedule_root_alarm(alarms', left', alarm_expired)
  PROVE  RootInv'
  BY RescheduleArms, Zenon DEF RootInv, RootIsArmed

LEMMA RootOfSet ==
  ASSUME AlarmInv, RootInv, ~WakelockMayFail,
         NEW t \in Threads, NEW a \in Alarms, NEW p \in Periods, alarm_set(t, a, p)
  PROVE  RootInv'
<1>1. /\ alarms \in Seq(Alarms) /\ IsInjective(alarms) /\ left \in [Alarms -> Nat] /\ p \in Nat
      /\ TimerType /\ LockInv
  BY TimeAssumption, Zenon
  DEF AlarmInv, TypeInv, TypeOK, ListType, ListInv, RecordType, RootInv
<1>2. PICK rest, time : /\ rest = Without(alarms, a) /\ time = [left EXCEPT ![a] = p]
                        /\ alarms' = insert_sorted(rest, a, time) /\ left' = time
                        /\ IF Head(alarms') = a \/ (alarms # <<>> /\ Head(alarms) = a)
                           THEN reschedule_root_alarm(alarms', time, alarm_expired)
                           ELSE UNCHANGED timerVars
  BY Zenon DEF alarm_set
<1>3. time \in [Alarms -> Nat] /\ \A b \in Alarms : b # a => time[b] = left[b]
  BY <1>1, <1>2
<1>4. /\ rest \in Seq(Alarms) /\ IsInjective(rest) /\ Range(rest) = Range(alarms) \ {a}
      /\ alarms # <<>> /\ Head(alarms) # a => rest # <<>> /\ Head(rest) = Head(alarms)
  BY <1>1, <1>2, WithoutProperties, Zenon
<1>5. PICK list : list = insert_sorted(rest, a, time)
  BY Zenon
<1>6. list # <<>> /\ (Head(list) # a => rest # <<>> /\ Head(list) = Head(rest))
  BY <1>3, <1>4, <1>5, InsertSortedProperties, SMTT(90)
<1>7. CASE Head(alarms') = a \/ (alarms # <<>> /\ Head(alarms) = a)
  BY <1>1, <1>2, <1>7, RootArmed, Zenon
<1>8. CASE ~(Head(alarms') = a \/ (alarms # <<>> /\ Head(alarms) = a))
  <2>1. UNCHANGED timerVars /\ UNCHANGED <<dispatcher, cleanup>>
    BY <1>2, <1>8, Zenon DEF alarm_set, threadVars
  <2>2. alarms # <<>>
    <3>1. rest # <<>> /\ Head(rest) \in Range(rest)
      BY <1>2, <1>4, <1>5, <1>6, <1>8, TailElements, Zenon
    <3> QED
      BY <1>4, <3>1, EmptyList, Zenon
  <2>3. /\ alarms' # <<>> /\ Head(alarms') = Head(alarms)
        /\ Head(alarms) \in Alarms /\ left'[Head(alarms)] = left[Head(alarms)]
    <3>1. Head(alarms) \in Alarms /\ Head(alarms) # a
      BY <1>1, <1>8, <2>2, TailElements, Zenon
    <3> QED
      BY <1>2, <1>3, <1>4, <1>5, <1>6, <1>8, <2>2, <3>1, Zenon
  <2> QED
    BY <2>1, <2>2, <2>3, RootKept, Zenon
<1> QED
  BY <1>7, <1>8, Zenon

LEMMA RootOfCancel ==
  ASSUME AlarmInv, RootInv, ~WakelockMayFail,
         NEW t \in Threads, NEW a \in Alarms, alarm_cancel(t, a) \/ alarm_free_scheduled(t, a)
  PROVE  RootInv'
<1>1. /\ alarms \in Seq(Alarms) /\ IsInjective(alarms) /\ left \in [Alarms -> Nat]
      /\ TimerType /\ LockInv
  BY Zenon DEF AlarmInv, TypeInv, TypeOK, ListType, ListInv, RecordType, RootInv
<1>2. /\ alarms' = Without(alarms, a) /\ left' = [left EXCEPT ![a] = 0]
      /\ IF alarms # <<>> /\ Head(alarms) = a
         THEN reschedule_root_alarm(alarms', left, alarm_expired)
         ELSE UNCHANGED timerVars
      /\ UNCHANGED <<dispatcher, cleanup>>
  BY Zenon DEF alarm_cancel, alarm_free_scheduled, alarm_cancel_internal
<1>3. /\ alarms' \in Seq(Alarms) /\ IsInjective(alarms') /\ Range(alarms') = Range(alarms) \ {a}
      /\ alarms # <<>> /\ Head(alarms) # a => alarms' # <<>> /\ Head(alarms') = Head(alarms)
  BY <1>1, <1>2, WithoutProperties, Zenon
<1>4. \A b \in Alarms : b # a => left'[b] = left[b]
  BY <1>1, <1>2, Zenon
<1>5. alarms' # <<>> => left'[Head(alarms')] = left[Head(alarms')]
  BY <1>3, <1>4, TailElements, Zenon
<1>6. CASE alarms # <<>> /\ Head(alarms) = a
  <2>1. /\ LockInv'
        /\ alarms' # <<>> => \/ timer' = left[Head(alarms')] /\ wakelock' = "held"
                             \/ wakeup_timer' = left[Head(alarms')]
        /\ alarms' = <<>> => wakelock' = "released"
    BY <1>1, <1>2, <1>6, RescheduleArms, Zenon
  <2> QED
    BY <1>5, <2>1, Zenon DEF RootInv, RootIsArmed
<1>7. CASE alarms = <<>>
  <2>1. a \notin Range(alarms)
    BY <1>7, EmptyList, Zenon
  <2>2. alarms' = alarms
    BY <1>2, <2>1, Zenon DEF Without
  <2> QED
    BY <1>2, <1>7, <2>2, RootKept, Zenon
<1>8. CASE alarms # <<>> /\ Head(alarms) # a
  <2>1. alarms' # <<>> /\ Head(alarms') = Head(alarms)
    BY <1>3, <1>8, Zenon
  <2> QED
    BY <1>2, <1>5, <1>8, <2>1, RootKept, Zenon
<1> QED
  BY <1>6, <1>7, <1>8, Zenon

LEMMA RootOfTick ==
  ASSUME AlarmInv, RootInv, tick
  PROVE  RootInv'
<1>1. /\ alarms \in Seq(Alarms) /\ IsInjective(alarms) /\ left \in [Alarms -> Nat]
  BY Zenon DEF AlarmInv, TypeInv, TypeOK, ListType, ListInv, RecordType
<1>2. /\ left' = [a \in Alarms |-> Elapse(left[a])]
      /\ timer' = Elapse(timer) /\ wakeup_timer' = Elapse(wakeup_timer)
      /\ UNCHANGED <<alarms, timer_set, wakelock, alarm_expired, dispatcher, cleanup>>
  BY Zenon DEF tick, threadVars
<1>3. alarms # <<>> => left'[Head(alarms)] = Elapse(left[Head(alarms)])
  BY <1>1, <1>2, TailElements, Zenon
<1> QED
  BY <1>2, <1>3, Zenon DEF RootInv, LockInv, RootIsArmed

\* The alarm that is called is not the root: a one-shot alarm has left the list,
\* and the deadline of a periodic one is left alone.
LEMMA RootOfCalled ==
  ASSUME AlarmInv, RootInv, alarm_queue_ready \/ alarm_ready_mloop
  PROVE  RootInv'
<1>1. /\ alarms \in Seq(Alarms) /\ IsInjective(alarms) /\ left \in [Alarms -> Nat]
      /\ queue \in Seq(Alarms) /\ IsInjective(queue) /\ ThreadInv
  BY Zenon DEF AlarmInv, TypeInv, TypeOK, ListType, ListInv, RecordType
<1>2. UNCHANGED <<alarms, timerVars, dispatcher, cleanup>>
  BY Zenon DEF alarm_queue_ready, alarm_ready_mloop
<1>3. \/ UNCHANGED left
      \/ \E a \in Alarms : Pending(a) /\ a \notin PeriodicAlarms /\ left' = [left EXCEPT ![a] = 0]
  <2>1. CASE alarm_queue_ready
    <3>1. queue # <<>> => Head(queue) \in Alarms /\ Pending(Head(queue))
      BY <1>1, TailElements, Zenon DEF Pending
    <3> QED
      BY <2>1, <3>1, Zenon DEF alarm_queue_ready, alarm_ready_generic
  <2>2. CASE alarm_ready_mloop
    <3>1. cb["mloop"].alarm \in Alarms /\ Pending(cb["mloop"].alarm)
      BY <1>1, <2>2, Zenon DEF alarm_ready_mloop, ThreadInv, Pending, Picked
    <3> QED
      BY <2>2, <3>1, Zenon DEF alarm_ready_mloop, alarm_ready_generic
  <2> QED
    BY <2>1, <2>2, Zenon
<1>4. alarms # <<>> => left'[Head(alarms)] = left[Head(alarms)]
  <2>1. CASE UNCHANGED left
    BY <2>1, Zenon
  <2>2. ASSUME NEW a \in Alarms, Pending(a), a \notin PeriodicAlarms,
               left' = [left EXCEPT ![a] = 0], alarms # <<>>
        PROVE  left'[Head(alarms)] = left[Head(alarms)]
    <3>1. a \notin Range(alarms)
      BY <2>2, Zenon DEF AlarmInv, PlaceInv
    <3>2. Head(alarms) \in Alarms /\ Head(alarms) \in Range(alarms)
      BY <1>1, <2>2, TailElements, Zenon
    <3>3. Head(alarms) # a
      BY <3>1, <3>2, Zenon
    <3> QED
      BY <1>1, <2>2, <3>2, <3>3, Zenon
  <2> QED
    BY <1>3, <2>1, <2>2, Zenon
<1> QED
  BY <1>2, <1>4, RootKept, Zenon

LEMMA RootStep ==
  ASSUME AlarmInv, RootInv, [Next]_vars, ~WakelockMayFail
  PROVE  RootInv'
<1>0. TimerType /\ LockInv
  BY Zenon DEF AlarmInv, TypeInv, TypeOK, RootInv
<1>1. CASE Use
  <2>1. PICK t \in Threads, a \in Alarms :
          \/ \E p \in Periods : alarm_set(t, a, p)
          \/ alarm_cancel(t, a) \/ alarm_free_scheduled(t, a)
          \/ alarm_free_idle(t, a)
    BY <1>1, Zenon DEF Use
  <2>2. CASE alarm_free_idle(t, a)
    BY <2>2, RootKept, Zenon DEF alarm_free_idle, recordVars, threadVars
  <2> QED
    BY <2>1, <2>2, RootOfSet, RootOfCancel, Zenon
<1>2. CASE tick
  BY <1>2, RootOfTick
<1>3. CASE timer_callback
  <2>1. /\ alarm_expired' > 0 /\ alarm_expired' # 0
        /\ UNCHANGED <<timer_set, wakelock>>
    BY <1>0, <1>3, SMTT(30) DEF timer_callback, TimerType
  <2> QED
    BY <1>0, <2>1, Zenon DEF RootInv, LockInv, RootIsArmed
<1>4. CASE dispatcher_wakes
  <2>1. /\ UNCHANGED <<timer_set, wakelock, cleanup>>
        /\ dispatcher' = IF cleanup = "no" THEN "woken" ELSE "exited"
        /\ "woken" # "waiting"
    BY <1>4 DEF dispatcher_wakes
  <2> QED
    BY <1>0, <2>1, Zenon DEF RootInv, LockInv, RootIsArmed
<1>5. CASE dispatch_none
  <2>1. reschedule_root_alarm(alarms', left', alarm_expired)
    BY <1>5, Zenon DEF dispatch_none, recordVars
  <2> QED
    BY <1>0, <2>1, RootArmed, Zenon
<1>6. CASE dispatch_root
  <2>1. reschedule_root_alarm(alarms', left', alarm_expired)
    BY <1>6, Zenon DEF dispatch_root
  <2> QED
    BY <1>0, <2>1, RootArmed, Zenon
<1>7. CASE alarm_queue_ready \/ alarm_ready_mloop
  BY <1>7, RootOfCalled, Zenon
<1>8. CASE Cleanup
  <2>1. cleanup' # "no" /\ UNCHANGED <<timer_set, wakelock>>
    BY <1>8, Zenon DEF Cleanup, cleanup_begins, cleanup_locks, cleanup_ends, timerVars
  <2> QED
    BY <1>0, <2>1, ZenonT(30) DEF RootInv, LockInv, RootIsArmed
<1>9. CASE \/ Return \/ message_loop_stops \/ queue_readable \/ closure_runs
           \/ \E t \in CallbackThreads : callback_begins(t) \/ callback_returns(t)
           \/ UNCHANGED vars
  <2>1. UNCHANGED <<alarms, left, timerVars, dispatcher, cleanup>>
    BY <1>9, Zenon
    DEF Return, alarm_cancel_returns, message_loop_stops, queue_readable, closure_runs,
        callback_begins, callback_returns, vars, recordVars, threadVars
  <2> QED
    BY <2>1, RootKept, Zenon
<1> QED
  BY <1>1, <1>2, <1>3, <1>4, <1>5, <1>6, <1>7, <1>8, <1>9, Zenon
  DEF Next, Dispatcher, DefaultThread, MessageLoop, CallbackThreads

\* As long as wakelock_acquire succeeds, the root alarm has a timer or a signal
\* that wakes dispatcher_thread at its deadline, and with no alarm set the wake
\* lock is given back: an alarm is neither slept through nor keeps the device awake.
THEOREM RootAlwaysArmed ==
  ASSUME Usage, ~WakelockMayFail
  PROVE  Spec => []RootIsArmed
<1>1. Init => RootInv
  <2>1. "no" # "yes" /\ "released" # "held"
    OBVIOUS
  <2> QED
    BY <2>1, Zenon DEF Init, RootInv, LockInv, RootIsArmed
<1>2. AlarmInv /\ RootInv /\ [Next]_vars => RootInv'
  BY RootStep
<1>3. RootInv => RootIsArmed
  BY DEF RootInv
<1> QED
  BY <1>1, <1>2, <1>3, AlarmInvariance, PTL DEF Spec
===============================================================================
