------------------------- MODULE TaskControllerProofs -------------------------
(***************************************************************************)
(* The deployment process, for any number of tasks, runs, crashes and      *)
(* failures: the order of the queue, what becomes of the runs, and that    *)
(* deployments do not overlap until something disturbs them.               *)
(***************************************************************************)
EXTENDS TaskController, FiniteSetTheorems, SequenceTheorems, WellFoundedInduction, TLAPS

(***************************************************************************)
(* The inductive invariant                                                 *)
(***************************************************************************)

\* The runs that have not deleted their config map yet
Busy == {k \in Runs : run[k] \in {"deploy", "clear", "delete"}}

\* They have a task.
TaskOfInv == \A k \in Busy : taskOf[k] \in Tasks

\* The list walk of enqueueTasks keeps the queue ordered by isBefore, newest
\* first.
QueueSorted ==
  \A i, j \in DOMAIN queue : i < j => ~IsBefore(queue[i], queue[j])

\* The queue has the tasks the informer has told of; and what the loop has in
\* hand it once found there.
QueueInv ==
  /\ Queued = {t \in Tasks : notified[t] = "added"}
  /\ \A t \in Tasks : notified[t] # "no" => t \in created
  /\ \A t \in {back, lastBack} \ {None} : notified[t] # "no"

\* Tasks that are being worked on, or are gone without the queue knowing it
Open == {taskOf[k] : k \in Busy} \cup (Queued \ present)

\* Only runs that were started have a channel; a deployment whose channel is not
\* the last one has been told to stop; and a run comes to the deletion of its
\* config map deployed, rejected or told to stop.
StartedInv == \A k \in (aborted \cup {abortChan}) \ {0} : run[k] # "none"
ChannelInv == \A k \in Runs : run[k] = "deploy" => k \in aborted \cup {abortChan}
OverInv ==
  \A k \in Runs : run[k] \in {"clear", "delete"} =>
    taskOf[k] \in completed \cup rejected \/ k \in aborted

RunsInv == StartedInv /\ ChannelInv /\ OverInv /\ DeletedWhenCompleted

\* One task at a time is open; its run is the one in processing and abortChan
\* as long as it has not cleared processing, and nobody tells it to stop.
RunInv ==
  /\ \A t, u \in Open : t = u
  /\ \A j, k \in Busy : j = k
  /\ \A k \in Busy : taskOf[k] \in Queued \cap present
  /\ \A k \in Busy : run[k] # "delete" =>
       processing = taskOf[k] /\ abortChan = k /\ k \notin aborted
  /\ processing # None => \E k \in Busy : run[k] # "delete"

\* While a task is open the loop cannot start another one: what it has seen at
\* the end of the queue is not lastBack, and once it is, the loop sleeps until
\* the task is no longer open.
LoopInv ==
  /\ ~removed
  /\ loop = "sleep" => processing = None
  /\ loop = "act" => processing = None /\ back # None
  /\ Open # {} /\ loop # "sleep" => queue[Len(queue)] # lastBack
  /\ Open # {} /\ loop \in {"look", "decide", "act"} => back # lastBack
  /\ loop \in {"look", "decide", "act"} /\ back # None /\ back = lastBack => back \in Queued

\* The informer has told of every config map that goes away.
DeletedInv == \A t \in created \ present : notified[t] # "no"

\* All this is so in the life of a process until a user withdraws a task or a
\* deletion is late.
ControlInv == ~disturbed => RunInv /\ LoopInv /\ DeletedInv

(***************************************************************************)
(* The order of tasks                                                      *)
(***************************************************************************)

LEMMA StringLessIrreflexive ==
  ASSUME NEW s \in Seq(0 .. 9)
  PROVE  ~StringLess(s, s)
  BY DEF StringLess

LEMMA StringLessTransitive ==
  ASSUME NEW s \in Seq(0 .. 9), NEW t \in Seq(0 .. 9), NEW u \in Seq(0 .. 9),
         StringLess(s, t), StringLess(t, u)
  PROVE  StringLess(s, u)
<1>1. PICK i \in 1 .. Len(t) : /\ i <= Len(s) + 1
                               /\ \A n \in 1 .. i - 1 : s[n] = t[n]
                               /\ i <= Len(s) => s[i] < t[i]
  BY DEF StringLess
<1>2. PICK j \in 1 .. Len(u) : /\ j <= Len(t) + 1
                               /\ \A n \in 1 .. j - 1 : t[n] = u[n]
                               /\ j <= Len(t) => t[j] < u[j]
  BY DEF StringLess
<1> DEFINE k == IF i < j THEN i ELSE j
<1>3. k \in 1 .. Len(u) /\ k <= Len(s) + 1
  BY <1>1, <1>2
<1>4. ASSUME NEW n \in 1 .. k - 1
      PROVE  s[n] = u[n]
  BY <1>1, <1>2
<1>5. ASSUME k <= Len(s)
      PROVE  s[k] < u[k]
  <2>1. CASE i < j
    BY <1>1, <1>2, <1>5, <2>1
  <2>2. CASE j < i
    BY <1>1, <1>2, <1>5, <2>2
  <2>3. CASE i = j
    <3>1. s[i] < t[i] /\ t[i] < u[i]
      BY <1>1, <1>2, <1>5, <2>3
    <3>2. i \in 1 .. Len(s) /\ i \in 1 .. Len(t) /\ i \in 1 .. Len(u)
      BY <1>1, <1>2, <1>5, <2>3
    <3>3. s[i] \in 0 .. 9 /\ t[i] \in 0 .. 9 /\ u[i] \in 0 .. 9
      BY <3>2, ElementOfSeq
    <3>4. s[i] < u[i]
      <4>1. \A a, b, c \in 0 .. 9 : a < b /\ b < c => a < c
        OBVIOUS
      <4> HIDE DEF k
      <4> QED
        BY <3>1, <3>3, <4>1, Zenon
    <3>5. k = i
      BY <2>3
    <3> HIDE DEF k
    <3> QED
      BY <3>4, <3>5
  <2> QED
    BY <2>1, <2>2, <2>3
<1> QED
  BY <1>3, <1>4, <1>5 DEF StringLess

\* isBefore is a strict order, and a task goes well between the tasks that are
\* not older than it and the first one that is.
LEMMA IsBeforeOrder ==
  ASSUME NEW a \in Tasks, NEW b \in Tasks, NEW c \in Tasks
  PROVE  /\ ~IsBefore(a, a)
         /\ IsBefore(a, b) /\ IsBefore(b, c) => IsBefore(a, c)
<1>1. /\ Timestamp[a] \in Nat /\ Timestamp[b] \in Nat /\ Timestamp[c] \in Nat
      /\ Version[a] \in Seq(0 .. 9) /\ Version[b] \in Seq(0 .. 9) /\ Version[c] \in Seq(0 .. 9)
  BY ParameterAssumption
<1>2. ~IsBefore(a, a)
  BY <1>1, StringLessIrreflexive DEF IsBefore
<1>3. ASSUME IsBefore(a, b), IsBefore(b, c)
      PROVE  IsBefore(a, c)
  <2>1. Timestamp[a] <= Timestamp[b] /\ Timestamp[b] <= Timestamp[c]
    BY <1>1, <1>3 DEF IsBefore
  <2>2. CASE Timestamp[a] = Timestamp[b] /\ Timestamp[b] = Timestamp[c]
    BY <1>1, <1>3, <2>2, StringLessTransitive DEF IsBefore
  <2>3. CASE ~(Timestamp[a] = Timestamp[b] /\ Timestamp[b] = Timestamp[c])
    BY <1>1, <2>1, <2>3 DEF IsBefore
  <2> QED
    BY <2>2, <2>3
<1> QED
  BY <1>2, <1>3

(***************************************************************************)
(* The queue                                                               *)
(***************************************************************************)

LEMMA Smallest ==
  ASSUME NEW S \in SUBSET Nat, S # {}
  PROVE  Min(S) \in S /\ \A n \in S : Min(S) <= n
<1> DEFINE Less == {ss \in Nat \X Nat : ss[1] < ss[2]}
<1>1. IsWellFoundedOn(Less, Nat)
  BY NatLessThanWellFounded DEF OpToRel
<1> HIDE DEF Less
<1>2. PICK m \in S : \A n \in S : <<n, m>> \notin Less
  BY <1>1, WFMin
<1>3. ASSUME NEW n \in S
      PROVE  m <= n
  <2>1. m \in Nat /\ n \in Nat
    OBVIOUS
  <2>2. ~(n < m)
    BY <1>2, <2>1 DEF Less
  <2> QED
    BY <2>1, <2>2
<1> QED
  BY <1>3 DEF Min

\* q is s with t at place p
HasInserted(q, s, p, t) ==
  /\ q \in Seq(Tasks) /\ Len(q) = Len(s) + 1
  /\ \A i \in 1 .. Len(s) + 1 :
       q[i] = IF i < p THEN s[i] ELSE IF i = p THEN t ELSE s[i - 1]

LEMMA InsertAtProperties ==
  ASSUME NEW s \in Seq(Tasks), NEW t \in Tasks, NEW p \in 1 .. Len(s) + 1
  PROVE  HasInserted(InsertAt(s, p, t), s, p, t)
<1> DEFINE front == SubSeq(s, 1, p - 1)
           rear == SubSeq(s, p, Len(s))
<1>1. /\ front \in Seq(Tasks) /\ Len(front) = p - 1
      /\ \A i \in 1 .. p - 1 : front[i] = s[i]
  BY SubSeqProperties
<1>2. /\ rear \in Seq(Tasks) /\ Len(rear) = Len(s) - p + 1
      /\ \A i \in 1 .. Len(s) - p + 1 : rear[i] = s[p + i - 1]
  BY SubSeqProperties
<1>3. <<t>> \in Seq(Tasks) /\ Len(<<t>>) = 1 /\ <<t>>[1] = t
  OBVIOUS
<1> HIDE DEF front, rear
<1>4. /\ front \o <<t>> \in Seq(Tasks) /\ Len(front \o <<t>>) = p
      /\ \A i \in 1 .. p : (front \o <<t>>)[i] = IF i < p THEN s[i] ELSE t
  BY <1>1, <1>3, ConcatProperties
<1> DEFINE start == front \o <<t>>
<1>5. InsertAt(s, p, t) = start \o rear
  BY DEF InsertAt, front, rear
<1> HIDE DEF start
<1>6. /\ start \in Seq(Tasks) /\ Len(start) = p
      /\ \A i \in 1 .. p : start[i] = IF i < p THEN s[i] ELSE t
  BY <1>4 DEF start
<1>7. /\ start \o rear \in Seq(Tasks)
      /\ Len(start \o rear) = Len(start) + Len(rear)
      /\ \A i \in 1 .. Len(start) + Len(rear) :
           (start \o rear)[i] = IF i <= Len(start) THEN start[i] ELSE rear[i - Len(start)]
  BY <1>2, <1>6, ConcatProperties
<1>8. Len(s) \in Nat /\ Len(start) + Len(rear) = Len(s) + 1
  BY <1>2, <1>6, LenProperties
<1>9. ASSUME NEW i \in 1 .. Len(s) + 1
      PROVE  (start \o rear)[i] = IF i < p THEN s[i] ELSE IF i = p THEN t ELSE s[i - 1]
  <2>1. CASE i <= p
    BY <1>6, <1>7, <1>8, <2>1
  <2>2. CASE i > p
    <3>1. i - p \in 1 .. Len(s) - p + 1 /\ p + (i - p) - 1 = i - 1
      BY <1>8, <2>2
    <3>2. rear[i - p] = s[i - 1]
      BY <1>2, <3>1
    <3>3. (start \o rear)[i] = rear[i - p]
      BY <1>6, <1>7, <1>8, <2>2
    <3> QED
      BY <1>8, <2>2, <3>2, <3>3
  <2> QED
    BY <1>8, <2>1, <2>2
<1> QED
  BY <1>5, <1>7, <1>8, <1>9 DEF HasInserted

LEMMA RemoveAtProperties ==
  ASSUME NEW s \in Seq(Tasks), NEW p \in 1 .. Len(s)
  PROVE  /\ RemoveAt(s, p) \in Seq(Tasks)
         /\ Len(RemoveAt(s, p)) = Len(s) - 1
         /\ \A i \in 1 .. Len(s) - 1 : RemoveAt(s, p)[i] = IF i < p THEN s[i] ELSE s[i + 1]
<1> DEFINE front == SubSeq(s, 1, p - 1)
           rear == SubSeq(s, p + 1, Len(s))
<1>1. /\ front \in Seq(Tasks) /\ Len(front) = p - 1
      /\ \A i \in 1 .. p - 1 : front[i] = s[i]
  BY SubSeqProperties
<1>2. /\ rear \in Seq(Tasks) /\ Len(rear) = Len(s) - p
      /\ \A i \in 1 .. Len(s) - p : rear[i] = s[p + i]
  BY SubSeqProperties
<1> HIDE DEF front, rear
<1>3. RemoveAt(s, p) = front \o rear
  BY DEF RemoveAt, front, rear
<1>4. /\ front \o rear \in Seq(Tasks)
      /\ Len(front \o rear) = Len(front) + Len(rear)
      /\ \A i \in 1 .. Len(front) + Len(rear) :
           (front \o rear)[i] = IF i <= Len(front) THEN front[i] ELSE rear[i - Len(front)]
  BY <1>1, <1>2, ConcatProperties
<1>5. Len(s) \in Nat /\ Len(front) + Len(rear) = Len(s) - 1
  BY <1>1, <1>2, LenProperties
<1>6. ASSUME NEW i \in 1 .. Len(s) - 1
      PROVE  (front \o rear)[i] = IF i < p THEN s[i] ELSE s[i + 1]
  <2>1. CASE i < p
    BY <1>1, <1>4, <1>5, <2>1
  <2>2. CASE i >= p
    <3>1. i - (p - 1) \in 1 .. Len(s) - p /\ p + (i - (p - 1)) = i + 1
      BY <1>5, <2>2
    <3>2. rear[i - (p - 1)] = s[i + 1]
      BY <1>2, <3>1
    <3>3. (front \o rear)[i] = rear[i - (p - 1)]
      BY <1>1, <1>4, <1>5, <2>2
    <3> QED
      BY <1>5, <2>2, <3>2, <3>3
  <2> QED
    BY <1>5, <2>1, <2>2
<1> QED
  BY <1>3, <1>4, <1>5, <1>6

\* Where enqueueTasks puts a task: after those that are not older, before one
\* that is
LEMMA InsertTaskPosition ==
  ASSUME queue \in Seq(Tasks), NEW t \in Tasks
  PROVE  \E p \in 1 .. Len(queue) + 1 :
           /\ InsertTask(t) = InsertAt(queue, p, t)
           /\ \A i \in 1 .. p - 1 : ~IsBefore(queue[i], t)
           /\ p <= Len(queue) => IsBefore(queue[p], t)
<1> DEFINE older == {i \in DOMAIN queue : IsBefore(queue[i], t)}
           p == IF older = {} THEN Len(queue) + 1 ELSE Min(older)
<1>1. DOMAIN queue = 1 .. Len(queue) /\ Len(queue) \in Nat
  BY LenProperties
<1>2. CASE older = {}
  BY <1>1, <1>2 DEF InsertTask
<1>3. CASE older # {}
  <2>1. older \in SUBSET Nat
    BY <1>1
  <2>2. p \in older /\ \A n \in older : p <= n
    BY <1>3, <2>1, Smallest
  <2>3. InsertTask(t) = InsertAt(queue, p, t)
    BY DEF InsertTask
  <2> HIDE DEF p
  <2>4. p \in 1 .. Len(queue) /\ IsBefore(queue[p], t)
    BY <1>1, <2>2
  <2>5. \A i \in 1 .. p - 1 : ~IsBefore(queue[i], t)
    BY <1>1, <2>2, <2>4
  <2> QED
    BY <1>1, <2>3, <2>4, <2>5
<1> QED
  BY <1>2, <1>3

Distinct(s) == \A i, j \in DOMAIN s : s[i] = s[j] => i = j

\* What the insertion makes of the queue
LEMMA InsertTaskQueue ==
  ASSUME TypeOK, NEW t \in Tasks \ Queued, queue' = InsertTask(t)
  PROVE  /\ queue' \in Seq(Tasks) /\ Distinct(queue')
         /\ Queued' = Queued \cup {t}
         /\ QueueSorted => QueueSorted'
         /\ queue'[Len(queue')] = t \/ (queue # <<>> /\ queue'[Len(queue')] = queue[Len(queue)])
<1>1. /\ queue \in Seq(Tasks) /\ DOMAIN queue = 1 .. Len(queue) /\ Len(queue) \in Nat
      /\ \A i \in 1 .. Len(queue) : queue[i] \in Tasks /\ queue[i] # t
      /\ \A i, j \in 1 .. Len(queue) : queue[i] = queue[j] => i = j
  BY LenProperties, ElementOfSeq DEF TypeOK, Queued
<1>2. PICK p \in 1 .. Len(queue) + 1 :
        /\ queue' = InsertAt(queue, p, t)
        /\ \A i \in 1 .. p - 1 : ~IsBefore(queue[i], t)
        /\ p <= Len(queue) => IsBefore(queue[p], t)
  BY <1>1, InsertTaskPosition
<1>q. HasInserted(queue', queue, p, t)
  <2>1. queue \in Seq(Tasks) /\ t \in Tasks
    BY <1>1
  <2>2. HasInserted(InsertAt(queue, p, t), queue, p, t)
    BY ONLY <2>1, InsertAtProperties, p \in 1 .. Len(queue) + 1
  <2> QED
    BY ONLY <1>2, <2>2
<1>3. /\ queue' \in Seq(Tasks) /\ Len(queue') = Len(queue) + 1
      /\ \A i \in 1 .. Len(queue) + 1 :
           queue'[i] = IF i < p THEN queue[i] ELSE IF i = p THEN t ELSE queue[i - 1]
  BY ONLY <1>q DEF HasInserted
<1>4. DOMAIN queue' = 1 .. Len(queue) + 1
  BY <1>3, LenProperties
<1>w. ASSUME NEW i \in 1 .. Len(queue) + 1
      PROVE  /\ i < p => i \in 1 .. Len(queue) /\ queue'[i] = queue[i]
             /\ i = p => queue'[i] = t
             /\ i > p => i - 1 \in 1 .. Len(queue) /\ queue'[i] = queue[i - 1]
  <2>1. queue'[i] = IF i < p THEN queue[i] ELSE IF i = p THEN t ELSE queue[i - 1]
    BY <1>3
  <2>2. /\ i < p => i \in 1 .. Len(queue)
        /\ i > p => i - 1 \in 1 .. Len(queue) /\ ~(i < p) /\ i # p
        /\ i = p => ~(i < p)
    BY <1>1
  <2> QED
    BY <2>1, <2>2
<1>5. Distinct(queue')
  <2> SUFFICES ASSUME NEW i \in 1 .. Len(queue) + 1, NEW j \in 1 .. Len(queue) + 1,
                      queue'[i] = queue'[j], i < j
               PROVE  FALSE
    BY <1>1, <1>4 DEF Distinct
  <2>0. i # j /\ \A a, b \in 1 .. Len(queue) : queue[a] = queue[b] => a = b
    BY <1>1
  <2>1. CASE j < p
    <3>1. /\ i \in 1 .. Len(queue) /\ j \in 1 .. Len(queue)
          /\ queue'[i] = queue[i] /\ queue'[j] = queue[j]
      <4>1. i < p
        BY <1>1, <2>1
      <4> QED
        BY <1>w, <2>1, <4>1
    <3> QED
      BY <2>0, <3>1
  <2>2. CASE j = p
    BY <1>1, <1>w, <2>2
  <2>3. CASE j > p
    <3>1. j - 1 \in 1 .. Len(queue) /\ queue'[j] = queue[j - 1]
      BY <1>w, <2>3
    <3>2. CASE i < p
      <4>1. i \in 1 .. Len(queue) /\ queue'[i] = queue[i] /\ i # j - 1
        BY <1>1, <1>w, <2>3, <3>2
      <4> QED
        BY <1>1, <3>1, <4>1
    <3>3. CASE i = p
      BY <1>1, <1>w, <3>1, <3>3
    <3>4. CASE i > p
      <4>1. i - 1 \in 1 .. Len(queue) /\ queue'[i] = queue[i - 1] /\ i - 1 # j - 1
        BY <1>1, <1>w, <3>4
      <4> QED
        BY <1>1, <3>1, <4>1
    <3> QED
      BY <1>1, <3>2, <3>3, <3>4
  <2> QED
    BY <1>1, <2>1, <2>2, <2>3
<1>6. Queued' = Queued \cup {t}
  <2>1. ASSUME NEW i \in DOMAIN queue'
        PROVE  queue'[i] \in Queued \cup {t}
    <3>1. CASE i < p
      BY <1>1, <1>3, <1>4, <3>1 DEF Queued
    <3>2. CASE i = p
      BY <1>1, <1>3, <1>4, <3>2
    <3>3. CASE i > p
      <4>1. i - 1 \in DOMAIN queue /\ queue'[i] = queue[i - 1]
        BY <1>1, <1>3, <1>4, <3>3
      <4> QED
        BY <4>1 DEF Queued
    <3> QED
      BY <1>4, <3>1, <3>2, <3>3
  <2>2. t \in Queued'
    BY <1>1, <1>3, <1>4 DEF Queued
  <2>3. ASSUME NEW i \in DOMAIN queue
        PROVE  queue[i] \in Queued'
    <3>1. CASE i < p
      BY <1>1, <1>3, <1>4, <3>1 DEF Queued
    <3>2. CASE i >= p
      <4>1. i + 1 \in DOMAIN queue' /\ queue'[i + 1] = queue[i]
        BY <1>1, <1>3, <1>4, <3>2
      <4> QED
        BY <4>1 DEF Queued
    <3> QED
      BY <1>1, <3>1, <3>2
  <2> QED
    BY <2>1, <2>2, <2>3 DEF Queued
<1>7. ASSUME QueueSorted
      PROVE  QueueSorted'
  <2> SUFFICES ASSUME NEW i \in 1 .. Len(queue) + 1, NEW j \in 1 .. Len(queue) + 1, i < j
               PROVE  ~IsBefore(queue'[i], queue'[j])
    BY <1>4 DEF QueueSorted, IsBefore
  <2>1. \A m, n \in 1 .. Len(queue) : m < n => ~IsBefore(queue[m], queue[n])
    BY <1>1, <1>7 DEF QueueSorted
  <2>2. CASE i # p /\ j # p
    <3>1. PICK m \in 1 .. Len(queue), n \in 1 .. Len(queue) :
            m < n /\ queue'[i] = queue[m] /\ queue'[j] = queue[n]
      <4>1. CASE j < p
        BY <1>1, <1>3, <4>1
      <4>2. CASE i < p /\ j > p
        <5>1. i \in 1 .. Len(queue) /\ j - 1 \in 1 .. Len(queue) /\ i < j - 1
          BY <1>1, <4>2
        <5>2. queue'[i] = queue[i] /\ queue'[j] = queue[j - 1]
          BY <1>1, <1>3, <4>2
        <5> QED
          BY <5>1, <5>2
      <4>3. CASE i > p
        <5>1. i - 1 \in 1 .. Len(queue) /\ j - 1 \in 1 .. Len(queue) /\ i - 1 < j - 1
          BY <1>1, <4>3
        <5>2. queue'[i] = queue[i - 1] /\ queue'[j] = queue[j - 1]
          BY <1>1, <1>3, <4>3
        <5> QED
          BY <5>1, <5>2
      <4> QED
        BY <1>1, <2>2, <4>1, <4>2, <4>3
    <3> QED
      BY <2>1, <3>1
  <2>3. CASE j = p
    BY <1>1, <1>2, <1>3, <2>3
  <2>4. CASE i = p
    <3>0. p \in 1 .. Len(queue) /\ j - 1 \in 1 .. Len(queue) /\ p <= j - 1 /\ ~(j < p) /\ j # p
      BY <1>1, <2>4
    <3>1. /\ p \in 1 .. Len(queue) /\ j - 1 \in 1 .. Len(queue) /\ p <= j - 1
          /\ queue'[i] = t /\ queue'[j] = queue[j - 1]
      BY <1>3, <2>4, <3>0
    <3>2. IsBefore(queue[p], t)
      BY <1>2, <3>1
    <3>3. ~IsBefore(queue[p], queue[j - 1])
      <4>1. CASE p = j - 1
        BY <1>1, <3>1, <4>1, IsBeforeOrder
      <4>2. CASE p < j - 1
        BY <2>1, <3>1, <4>2
      <4> QED
        BY <3>1, <4>1, <4>2
    <3> QED
      BY <1>1, <3>1, <3>2, <3>3, IsBeforeOrder
  <2> QED
    BY <2>2, <2>3, <2>4
<1>8. queue'[Len(queue')] = t \/ (queue # <<>> /\ queue'[Len(queue')] = queue[Len(queue)])
  <2>1. CASE p = Len(queue) + 1
    BY <1>1, <1>3, <2>1
  <2>2. CASE p <= Len(queue)
    <3>1. queue'[Len(queue) + 1] = queue[Len(queue)] /\ Len(queue) > 0
      BY <1>1, <1>3, <2>2
    <3> QED
      BY <1>1, <1>3, <3>1
  <2> QED
    BY <1>1, <2>1, <2>2
<1> QED
  BY <1>3, <1>5, <1>6, <1>7, <1>8

\* What the removal makes of the queue
LEMMA RemoveTaskQueue ==
  ASSUME TypeOK, NEW t \in Tasks, queue' = RemoveTask(t)
  PROVE  /\ queue' \in Seq(Tasks) /\ Distinct(queue')
         /\ Queued' = Queued \ {t}
         /\ QueueSorted => QueueSorted'
<1>1. /\ queue \in Seq(Tasks) /\ DOMAIN queue = 1 .. Len(queue) /\ Len(queue) \in Nat
      /\ \A i \in 1 .. Len(queue) : queue[i] \in Tasks
      /\ \A i, j \in 1 .. Len(queue) : queue[i] = queue[j] => i = j
  BY LenProperties, ElementOfSeq DEF TypeOK
<1>2. CASE t \notin Queued
  <2>1. queue' = queue
    BY <1>2 DEF RemoveTask
  <2> QED
    BY <1>1, <1>2, <2>1 DEF Distinct, Queued, QueueSorted, IsBefore
<1>3. CASE t \in Queued
  <2> DEFINE p == CHOOSE i \in DOMAIN queue : queue[i] = t
  <2>1. p \in 1 .. Len(queue) /\ queue[p] = t
    BY <1>1, <1>3 DEF Queued
  <2>2. queue' = RemoveAt(queue, p)
    BY <1>3 DEF RemoveTask
  <2> HIDE DEF p
  <2> DEFINE q == RemoveAt(queue, p)
  <2>q. /\ q \in Seq(Tasks) /\ Len(q) = Len(queue) - 1
        /\ \A i \in 1 .. Len(queue) - 1 : q[i] = IF i < p THEN queue[i] ELSE queue[i + 1]
    BY <1>1, <2>1, RemoveAtProperties
  <2> HIDE DEF q
  <2>3. /\ queue' \in Seq(Tasks) /\ Len(queue') = Len(queue) - 1
        /\ \A i \in 1 .. Len(queue) - 1 : queue'[i] = IF i < p THEN queue[i] ELSE queue[i + 1]
    BY <2>2, <2>q DEF q
  <2>4. DOMAIN queue' = 1 .. Len(queue) - 1
    BY <2>3, LenProperties
  <2>5. \A i \in DOMAIN queue' : \E m \in 1 .. Len(queue) :
          m = (IF i < p THEN i ELSE i + 1) /\ m # p /\ queue'[i] = queue[m]
    BY <1>1, <2>1, <2>3, <2>4
  <2>6. Distinct(queue')
    BY <1>1, <2>1, <2>4, <2>5 DEF Distinct
  <2>7. Queued' = Queued \ {t}
    <3>1. ASSUME NEW i \in DOMAIN queue'
          PROVE  queue'[i] \in Queued \ {t}
      BY <1>1, <2>1, <2>5 DEF Queued
    <3>2. ASSUME NEW i \in DOMAIN queue, queue[i] # t
          PROVE  queue[i] \in Queued'
      <4>1. CASE i < p
        <5>1. i \in DOMAIN queue' /\ queue'[i] = queue[i]
          BY <1>1, <2>1, <2>3, <2>4, <4>1
        <5> QED
          BY <5>1 DEF Queued
      <4>2. CASE i > p
        <5>1. i - 1 \in DOMAIN queue' /\ queue'[i - 1] = queue[i]
          BY <1>1, <2>1, <2>3, <2>4, <4>2
        <5> QED
          BY <5>1 DEF Queued
      <4> QED
        BY <1>1, <2>1, <3>2, <4>1, <4>2
    <3> QED
      BY <3>1, <3>2 DEF Queued
  <2>8. ASSUME QueueSorted
        PROVE  QueueSorted'
    <3> SUFFICES ASSUME NEW i \in DOMAIN queue', NEW j \in DOMAIN queue', i < j
                 PROVE  ~IsBefore(queue'[i], queue'[j])
      BY DEF QueueSorted, IsBefore
    <3>1. PICK m \in 1 .. Len(queue), n \in 1 .. Len(queue) :
            m < n /\ queue'[i] = queue[m] /\ queue'[j] = queue[n]
      BY <1>1, <2>1, <2>4, <2>5
    <3> QED
      BY <1>1, <2>8, <3>1 DEF QueueSorted
  <2> QED
    BY <2>3, <2>6, <2>7, <2>8
<1> QED
  BY <1>2, <1>3

(***************************************************************************)
(* Types, and what is in the queue                                         *)
(***************************************************************************)

LEMMA QueueElements ==
  ASSUME TypeOK
  PROVE  /\ queue # <<>> => Len(queue) \in DOMAIN queue /\ queue[Len(queue)] \in Queued
         /\ Queued \subseteq Tasks /\ (queue = <<>> <=> Queued = {})
<1>1. queue \in Seq(Tasks) /\ Len(queue) \in Nat /\ DOMAIN queue = 1 .. Len(queue)
  BY LenProperties DEF TypeOK
<1>2. queue # <<>> => Len(queue) \in Nat \ {0}
  BY <1>1, EmptySeq
<1>3. queue # <<>> => Len(queue) \in DOMAIN queue /\ queue[Len(queue)] \in Queued
  BY <1>1, <1>2 DEF Queued
<1>4. Queued \subseteq Tasks
  BY <1>1, ElementOfSeq DEF Queued
<1>5. queue = <<>> => Queued = {}
  BY DEF Queued
<1> QED
  BY <1>3, <1>4, <1>5

LEMMA PrevType ==
  ASSUME TypeOK, NEW t
  PROVE  /\ Prev(t) \in Queued \cup {None}
         /\ t \in Queued /\ queue # <<>> => Prev(t) # queue[Len(queue)]
<1>1. queue \in Seq(Tasks) /\ Len(queue) \in Nat /\ DOMAIN queue = 1 .. Len(queue)
  BY LenProperties DEF TypeOK
<1>2. CASE \E i \in 2 .. Len(queue) : queue[i] = t
  <2> DEFINE p == CHOOSE i \in 2 .. Len(queue) : queue[i] = t
  <2>1. p \in 2 .. Len(queue) /\ Prev(t) = queue[p - 1]
    BY <1>2 DEF Prev
  <2> HIDE DEF p
  <2>2. p - 1 \in DOMAIN queue /\ p - 1 # Len(queue) /\ Len(queue) \in DOMAIN queue
    BY <1>1, <2>1
  <2> QED
    BY <2>1, <2>2 DEF TypeOK, Queued
<1>3. CASE ~\E i \in 2 .. Len(queue) : queue[i] = t
  <2>1. Prev(t) = None
    BY <1>3 DEF Prev
  <2>2. queue # <<>> => queue[Len(queue)] \in Tasks
    BY QueueElements
  <2> QED
    BY <2>1, <2>2, TasksAssumption
<1> QED
  BY <1>2, <1>3

LEMMA InitTypes == Init => TypeOK /\ QueueInv /\ QueueSorted
<1> SUFFICES ASSUME Init
             PROVE  TypeOK /\ QueueInv /\ QueueSorted
  OBVIOUS
<1>1. queue = <<>> /\ queue \in Seq(Tasks) /\ DOMAIN queue = {}
  BY DEF Init
<1>2. 0 \in 0 .. MaxCrashes /\ 0 \in 0 .. MaxFaults
  BY ParameterAssumption
<1>3. TypeOK
  BY <1>1, <1>2 DEF Init, TypeOK
<1>4. QueueInv
  BY <1>1 DEF Init, QueueInv, Queued
<1> QED
  BY <1>1, <1>3, <1>4 DEF QueueSorted

QueueOK == TypeOK /\ QueueInv /\ QueueSorted

LEMMA NextTaskOf ==
  ASSUME TypeOK, TaskOfInv, [Next]_vars
  PROVE  TaskOfInv'
<1> USE DEF clusterVars, enqueueVars, loopVars, runVars, boundVars
<1>1. CASE UNCHANGED <<run, taskOf>>
  BY <1>1 DEF TaskOfInv, Busy
<1>2. CASE Restart
  BY <1>2 DEF TaskOfInv, Busy, Restart
<1>3. ASSUME NEW k \in Runs, StartRun(k)
      PROVE  TaskOfInv'
  BY <1>3 DEF TaskOfInv, Busy, TypeOK, StartRun
<1>4. ASSUME NEW k \in Runs, Goroutine(k)
      PROVE  TaskOfInv'
  BY <1>4 DEF TaskOfInv, Busy, TypeOK, Goroutine, RunDeploy, RunClear, RunDelete, RunSignal
<1>5. CASE \/ \E t \in Tasks : CreateTask(t) \/ WithdrawTask(t)
           \/ Enqueuer \/ LoopCheck \/ LoopLook \/ LoopDecide \/ LoopWait \/ Abort \/ Settle
           \/ WakeUp \/ NilDereference \/ UNCHANGED vars
  <2>1. UNCHANGED <<run, taskOf>>
    BY <1>5 DEF CreateTask, WithdrawTask, Enqueuer, EnqueuerSignal, TaskAdded, TaskDeleted,
                LoopCheck, LoopLook, LoopDecide, LoopWait, Abort, Settle, WakeUp,
                NilDereference, vars
  <2> QED
    BY <2>1, <1>1
<1> QED
  BY <1>2, <1>3, <1>4, <1>5 DEF Next, Loop

\* Most steps leave the queue and what is in the loop's hand alone.
LEMMA QueueFrame ==
  ASSUME QueueOK, UNCHANGED <<queue, notified, back, lastBack>>, created \subseteq created'
  PROVE  QueueInv' /\ QueueSorted'
<1>1. Queued' = Queued
  BY DEF Queued
<1>2. QueueInv'
  BY <1>1 DEF QueueOK, QueueInv
<1>3. QueueSorted'
  BY DEF QueueOK, QueueSorted, IsBefore
<1> QED
  BY <1>2, <1>3

LEMMA NextQueue ==
  ASSUME QueueOK, TaskOfInv, [Next]_vars
  PROVE  QueueOK'
<1> USE DEF clusterVars, enqueueVars, loopVars, runVars, boundVars
<1>1. ASSUME NEW t \in Tasks, CreateTask(t)
      PROVE  QueueOK'
  <2>1. TypeOK'
    BY <1>1 DEF QueueOK, TypeOK, CreateTask
  <2> QED
    BY <1>1, <2>1, QueueFrame DEF QueueOK, CreateTask
<1>2. ASSUME NEW t \in Tasks, WithdrawTask(t)
      PROVE  QueueOK'
  <2>1. TypeOK'
    BY <1>2 DEF QueueOK, TypeOK, WithdrawTask
  <2> QED
    BY <1>2, <2>1, QueueFrame DEF QueueOK, WithdrawTask
<1>3. CASE Restart
  <2>1. queue' = <<>> /\ queue' \in Seq(Tasks) /\ DOMAIN queue' = {}
    BY <1>3 DEF Restart
  <2>2. crashes' \in 0 .. MaxCrashes
    BY <1>3, ParameterAssumption DEF QueueOK, TypeOK, Restart
  <2>3. TypeOK'
    <3>1. /\ present' \subseteq created' /\ created' \subseteq Tasks /\ withdrawn' \subseteq created'
          /\ notified' \in [Tasks -> {"no", "added", "deleted"}]
          /\ run' \in [Runs -> {"none", "deploy", "clear", "delete", "signal", "done"}]
          /\ taskOf' \in [Runs -> Tasks \cup {None}]
          /\ aborted' \subseteq Runs /\ completed' \subseteq Tasks /\ rejected' \subseteq Tasks
          /\ faults' \in 0 .. MaxFaults
      BY <1>3 DEF QueueOK, TypeOK, Restart
    <3> QED
      BY <1>3, <2>1, <2>2, <3>1 DEF TypeOK, Restart
  <2>4. QueueInv'
    BY <1>3, <2>1 DEF QueueOK, TypeOK, QueueInv, Queued, Restart
  <2> QED
    BY <2>1, <2>3, <2>4 DEF QueueOK, QueueSorted
<1>4. ASSUME NEW t \in Tasks, TaskAdded(t)
      PROVE  QueueOK'
  <2>1. t \in Tasks \ Queued /\ queue' = InsertTask(t)
    BY <1>4 DEF QueueOK, QueueInv, TaskAdded
  <2>2. /\ queue' \in Seq(Tasks) /\ Distinct(queue') /\ Queued' = Queued \cup {t}
        /\ QueueSorted'
    BY <2>1, InsertTaskQueue DEF QueueOK
  <2>3. TypeOK'
    BY <1>4, <2>2 DEF QueueOK, TypeOK, TaskAdded, Distinct
  <2>4. QueueInv'
    BY <1>4, <2>2 DEF QueueOK, TypeOK, QueueInv, TaskAdded
  <2> QED
    BY <2>2, <2>3, <2>4 DEF QueueOK
<1>5. ASSUME NEW t \in Tasks, TaskDeleted(t)
      PROVE  QueueOK'
  <2>1. /\ queue' \in Seq(Tasks) /\ Distinct(queue') /\ Queued' = Queued \ {t}
        /\ QueueSorted'
    BY <1>5, RemoveTaskQueue DEF QueueOK, TaskDeleted
  <2>2. TypeOK'
    BY <1>5, <2>1 DEF QueueOK, TypeOK, TaskDeleted, Distinct
  <2>3. QueueInv'
    BY <1>5, <2>1 DEF QueueOK, TypeOK, QueueInv, TaskDeleted
  <2> QED
    BY <2>1, <2>2, <2>3 DEF QueueOK
<1>6. CASE EnqueuerSignal
  <2>1. TypeOK'
    BY <1>6 DEF QueueOK, TypeOK, EnqueuerSignal, Signal
  <2> QED
    BY <1>6, <2>1, QueueFrame DEF QueueOK, EnqueuerSignal
<1>7. CASE Loop
  <2>1. CASE LoopCheck
    <3>1. back' \in Queued \cup {None}
      BY <2>1, QueueElements DEF LoopCheck, QueueOK
    <3>2. TypeOK'
      BY <2>1, <3>1, QueueElements DEF QueueOK, TypeOK, LoopCheck
    <3>3. Queued' = Queued
      BY <2>1 DEF Queued, LoopCheck
    <3>4. QueueInv' /\ QueueSorted'
      BY <2>1, <3>1, <3>3 DEF QueueOK, QueueInv, QueueSorted, IsBefore, LoopCheck
    <3> QED
      BY <3>2, <3>4 DEF QueueOK
  <2>2. CASE LoopLook
    <3>1. TypeOK'
      BY <2>2 DEF QueueOK, TypeOK, LoopLook, ProcessingNodeWasRemoved
    <3> QED
      BY <2>2, <3>1, QueueFrame DEF QueueOK, LoopLook
  <2>3. CASE LoopDecide \/ LoopWait \/ WakeUp \/ NilDereference
    <3>1. TypeOK'
      BY <2>3 DEF QueueOK, TypeOK, LoopDecide, LoopWait, WakeUp, NilDereference
    <3> QED
      BY <2>3, <3>1, QueueFrame DEF QueueOK, LoopDecide, LoopWait, WakeUp, NilDereference
  <2>4. CASE Abort
    <3>1. TypeOK'
      BY <2>4 DEF QueueOK, TypeOK, Abort
    <3> QED
      BY <2>4, <3>1, QueueFrame DEF QueueOK, Abort
  <2>5. CASE Settle
    <3>1. TypeOK'
      BY <2>5 DEF QueueOK, TypeOK, Settle, ClosedChannels
    <3>2. Queued' = Queued
      BY <2>5 DEF Queued, Settle
    <3>3. QueueInv' /\ QueueSorted'
      BY <2>5, <3>2 DEF QueueOK, QueueInv, QueueSorted, IsBefore, Settle
    <3> QED
      BY <3>1, <3>3 DEF QueueOK
  <2>6. ASSUME NEW k \in Runs, StartRun(k)
        PROVE  QueueOK'
    <3>1. lastBack' \in Queued \cup {None} /\ Queued \subseteq Tasks
      BY <2>6, PrevType, QueueElements DEF QueueOK, StartRun
    <3>2. aborted' \subseteq Runs /\ abortChan' \in Runs
      BY <2>6 DEF QueueOK, TypeOK, StartRun, ClosedChannels, NewChannel
    <3>3. TypeOK'
      BY <2>6, <3>1, <3>2 DEF QueueOK, TypeOK, StartRun
    <3>4. Queued' = Queued
      BY <2>6 DEF Queued, StartRun
    <3>5. QueueInv' /\ QueueSorted'
      BY <2>6, <3>1, <3>4 DEF QueueOK, QueueInv, QueueSorted, IsBefore, StartRun
    <3> QED
      BY <3>3, <3>5 DEF QueueOK
  <2> QED
    BY <1>7, <2>1, <2>2, <2>3, <2>4, <2>5, <2>6 DEF Loop
<1>8. ASSUME NEW k \in Runs, Goroutine(k)
      PROVE  QueueOK'
  <2>1. CASE RunDeploy(k)
    <3>1. taskOf[k] \in Tasks
      BY <2>1 DEF RunDeploy, TaskOfInv, Busy
    <3>2. faults' \in 0 .. MaxFaults
      <4>1. faults' = faults \/ (faults < MaxFaults /\ faults' = faults + 1)
        BY <2>1 DEF RunDeploy
      <4>2. faults \in 0 .. MaxFaults /\ MaxFaults \in Nat
        BY ParameterAssumption DEF QueueOK, TypeOK
      <4> QED
        BY <4>1, <4>2
    <3>3. TypeOK'
      BY <2>1, <3>1, <3>2 DEF QueueOK, TypeOK, RunDeploy
    <3> QED
      BY <2>1, <3>3, QueueFrame DEF QueueOK, RunDeploy
  <2>2. CASE RunClear(k)
    <3>1. TypeOK'
      BY <2>2 DEF QueueOK, TypeOK, RunClear
    <3> QED
      BY <2>2, <3>1, QueueFrame DEF QueueOK, RunClear
  <2>3. CASE RunDelete(k)
    <3>1. faults' \in 0 .. MaxFaults
      <4>1. faults' = faults \/ (faults < MaxFaults /\ faults' = faults + 1)
        BY <2>3 DEF RunDelete
      <4>2. faults \in 0 .. MaxFaults /\ MaxFaults \in Nat
        BY ParameterAssumption DEF QueueOK, TypeOK
      <4> QED
        BY <4>1, <4>2
    <3>2. TypeOK'
      BY <2>3, <3>1 DEF QueueOK, TypeOK, RunDelete
    <3> QED
      BY <2>3, <3>2, QueueFrame DEF QueueOK, RunDelete
  <2>4. CASE RunSignal(k)
    <3>1. TypeOK'
      BY <2>4 DEF QueueOK, TypeOK, RunSignal, Signal
    <3> QED
      BY <2>4, <3>1, QueueFrame DEF QueueOK, RunSignal
  <2> QED
    BY <1>8, <2>1, <2>2, <2>3, <2>4 DEF Goroutine
<1>9. CASE UNCHANGED vars
  <2>1. TypeOK'
    BY <1>9 DEF QueueOK, TypeOK, vars
  <2> QED
    BY <1>9, <2>1, QueueFrame DEF QueueOK, vars
<1> QED
  BY <1>1, <1>2, <1>3, <1>4, <1>5, <1>6, <1>7, <1>8, <1>9 DEF Next, Enqueuer

(***************************************************************************)
(* One task at a time                                                      *)
(***************************************************************************)

ControlOK == RunInv /\ LoopInv /\ DeletedInv

LEMMA OpenQueued ==
  ASSUME QueueOK, ControlOK, Open # {}
  PROVE  queue # <<>>
<1>1. CASE Busy # {}
  <2>1. PICK k \in Busy : taskOf[k] \in Queued
    BY <1>1 DEF ControlOK, RunInv
  <2> QED
    BY <2>1, QueueElements DEF QueueOK
<1>2. CASE Busy = {}
  <2>1. Queued # {}
    BY <1>2 DEF Open
  <2> QED
    BY <2>1, QueueElements DEF QueueOK
<1> QED
  BY <1>1, <1>2

LEMMA ControlFrame ==
  ASSUME ControlOK,
         UNCHANGED <<queue, notified, created, present, run, taskOf, processing, abortChan,
                     aborted>>
  PROVE  Open' = Open /\ Queued' = Queued /\ RunInv' /\ DeletedInv'
<1>1. Queued' = Queued /\ Busy' = Busy
  BY DEF Queued, Busy
<1>2. Open' = Open
  BY <1>1 DEF Open
<1>3. RunInv'
  BY <1>1, <1>2 DEF ControlOK, RunInv
<1>4. DeletedInv'
  BY DEF ControlOK, DeletedInv
<1> QED
  BY <1>1, <1>2, <1>3, <1>4

\* The cluster, the informer and enqueueTasks
LEMMA EnqueueControl ==
  ASSUME QueueOK, TaskOfInv, ControlOK, NEW t \in Tasks,
         CreateTask(t) \/ TaskAdded(t) \/ TaskDeleted(t)
  PROVE  ControlOK'
<1> USE DEF clusterVars, enqueueVars, loopVars, runVars, boundVars
<1>1. CASE CreateTask(t)
  <2>1. Queued' = Queued /\ Busy' = Busy
    BY <1>1 DEF Queued, Busy, CreateTask
  <2>2. t \notin Queued
    BY <1>1 DEF CreateTask, QueueOK, QueueInv
  <2>3. Open' = Open
    BY <1>1, <2>1, <2>2 DEF Open, CreateTask
  <2>4. RunInv'
    BY <1>1, <2>1, <2>3 DEF ControlOK, RunInv, CreateTask
  <2>5. LoopInv'
    BY <1>1, <2>1, <2>3 DEF ControlOK, LoopInv, CreateTask
  <2>6. DeletedInv'
    BY <1>1 DEF ControlOK, DeletedInv, CreateTask
  <2> QED
    BY <2>4, <2>5, <2>6 DEF ControlOK
<1>2. CASE TaskAdded(t)
  <2>1. t \in Tasks \ Queued /\ queue' = InsertTask(t)
    BY <1>2 DEF QueueOK, QueueInv, TaskAdded
  <2>2. /\ Queued' = Queued \cup {t}
        /\ queue'[Len(queue')] = t \/ (queue # <<>> /\ queue'[Len(queue')] = queue[Len(queue)])
    BY <2>1, InsertTaskQueue DEF QueueOK
  <2>3. t \in present
    BY <1>2 DEF TaskAdded, ControlOK, DeletedInv
  <2>4. Busy' = Busy /\ Open' = Open
    BY <1>2, <2>2, <2>3 DEF Busy, Open, TaskAdded
  <2>5. RunInv'
    BY <1>2, <2>2, <2>4 DEF ControlOK, RunInv, TaskAdded
  <2>6. t # lastBack
    BY <1>2, TasksAssumption DEF TaskAdded, QueueOK, QueueInv
  <2>7. LoopInv'
    BY <1>2, <2>2, <2>4, <2>6 DEF ControlOK, LoopInv, TaskAdded
  <2>8. DeletedInv'
    BY <1>2 DEF ControlOK, DeletedInv, TaskAdded, QueueOK, TypeOK
  <2> QED
    BY <2>5, <2>7, <2>8 DEF ControlOK
<1>3. CASE TaskDeleted(t)
  <2>1. Queued' = Queued \ {t}
    BY <1>3, RemoveTaskQueue DEF QueueOK, TaskDeleted
  <2>2. t \in Open /\ t \notin present
    BY <1>3 DEF Open, QueueOK, QueueInv, TaskDeleted
  <2>3. Busy = {}
    BY <2>2 DEF ControlOK, RunInv, Open
  <2>4. Busy' = {}
    BY <1>3, <2>3 DEF Busy, TaskDeleted
  <2>5. Open' = {}
    BY <1>3, <2>1, <2>2, <2>3, <2>4 DEF Open, ControlOK, RunInv, TaskDeleted
  <2>6. RunInv'
    BY <1>3, <2>3, <2>4, <2>5 DEF ControlOK, RunInv, TaskDeleted
  <2>7. LoopInv'
    BY <1>3, <2>2, <2>5 DEF ControlOK, LoopInv, TaskDeleted
  <2>8. DeletedInv'
    BY <1>3 DEF ControlOK, DeletedInv, TaskDeleted, QueueOK, TypeOK
  <2> QED
    BY <2>6, <2>7, <2>8 DEF ControlOK
<1> QED
  BY <1>1, <1>2, <1>3

LEMMA SignalControl ==
  ASSUME QueueOK, ControlOK, EnqueuerSignal \/ UNCHANGED vars
  PROVE  ControlOK'
<1> USE DEF clusterVars, enqueueVars, loopVars, runVars, boundVars
<1>1. CASE EnqueuerSignal
  <2>1. Open' = Open /\ Queued' = Queued /\ RunInv' /\ DeletedInv'
    BY <1>1, ControlFrame DEF EnqueuerSignal
  <2>2. LoopInv'
    BY <1>1, <2>1 DEF ControlOK, LoopInv, EnqueuerSignal, Signal
  <2> QED
    BY <2>1, <2>2 DEF ControlOK
<1>2. CASE UNCHANGED vars
  <2>1. Open' = Open /\ Queued' = Queued /\ RunInv' /\ DeletedInv'
    BY <1>2, ControlFrame DEF vars
  <2>2. LoopInv'
    BY <1>2, <2>1 DEF ControlOK, LoopInv, vars
  <2> QED
    BY <2>1, <2>2 DEF ControlOK
<1> QED
  BY <1>1, <1>2

\* The loop: while a task is open it starts nothing, and nothing makes it abort.
LEMMA LoopControl ==
  ASSUME QueueOK, TaskOfInv, RunsInv, ControlOK, Loop, WakeUp => ~Overdue
  PROVE  ControlOK'
<1> USE DEF clusterVars, enqueueVars, loopVars, runVars, boundVars
<1>1. CASE LoopCheck
  <2>1. Open' = Open /\ Queued' = Queued /\ RunInv' /\ DeletedInv'
    BY <1>1, ControlFrame DEF LoopCheck
  <2>2. queue # <<>> => back' = queue[Len(queue)] /\ back' \in Queued
    BY <1>1, QueueElements DEF LoopCheck, QueueOK
  <2>3. queue = <<>> => back' = None /\ Open = {}
    BY <1>1, OpenQueued DEF LoopCheck
  <2>4. LoopInv'
    BY <1>1, <2>1, <2>2, <2>3 DEF ControlOK, LoopInv, LoopCheck
  <2> QED
    BY <2>1, <2>4 DEF ControlOK
<1>2. CASE LoopLook
  <2>1. Open' = Open /\ Queued' = Queued /\ RunInv' /\ DeletedInv'
    BY <1>2, ControlFrame DEF LoopLook
  <2>2. processing # None => processing \in Queued
    BY DEF ControlOK, RunInv
  <2>3. ~removed'
    BY <1>2, <2>2 DEF LoopLook, ProcessingNodeWasRemoved, ControlOK, LoopInv
  <2>4. LoopInv'
    BY <1>2, <2>1, <2>3 DEF ControlOK, LoopInv, LoopLook
  <2> QED
    BY <2>1, <2>4 DEF ControlOK
<1>3. CASE LoopDecide \/ LoopWait \/ NilDereference
  <2>1. Open' = Open /\ Queued' = Queued /\ RunInv' /\ DeletedInv'
    BY <1>3, ControlFrame DEF LoopDecide, LoopWait, NilDereference
  <2>2. LoopInv'
    BY <1>3, <2>1 DEF ControlOK, LoopInv, LoopDecide, SomethingToDo, LoopWait, NilDereference
  <2> QED
    BY <2>1, <2>2 DEF ControlOK
<1>4. CASE WakeUp
  <2>1. Open' = Open /\ Queued' = Queued /\ RunInv' /\ DeletedInv'
    BY <1>4, ControlFrame DEF WakeUp
  <2>2. processing = None
    BY <1>4 DEF ControlOK, LoopInv, WakeUp
  <2>3. Busy = {}
    BY <1>4, <2>2, TasksAssumption DEF Busy, Overdue, ControlOK, RunInv, TaskOfInv
  <2>4. Queued \subseteq present
    BY <1>4 DEF QueueOK, QueueInv, Overdue
  <2>5. Open = {}
    BY <2>3, <2>4 DEF Open
  <2>6. LoopInv'
    BY <1>4, <2>1, <2>5 DEF ControlOK, LoopInv, WakeUp
  <2> QED
    BY <2>1, <2>6 DEF ControlOK
<1>5. CASE Abort
  BY <1>5 DEF Abort, ControlOK, LoopInv
<1>6. CASE Settle
  <2>1. Queued' = Queued /\ Busy' = Busy
    BY <1>6 DEF Queued, Busy, Settle
  <2>2. Open' = Open
    BY <1>6, <2>1 DEF Open, Settle
  <2>3. ASSUME NEW k \in Busy
        PROVE  run[k] = "delete"
    BY <1>6, <2>3, TasksAssumption DEF ControlOK, RunInv, TaskOfInv, Settle
  <2>4. RunInv'
    BY <1>6, <2>1, <2>2, <2>3 DEF ControlOK, RunInv, Settle, ClosedChannels
  <2>5. LoopInv'
    BY <1>6, <2>1, <2>2 DEF ControlOK, LoopInv, Settle
  <2>6. DeletedInv'
    BY <1>6 DEF ControlOK, DeletedInv, Settle
  <2> QED
    BY <2>4, <2>5, <2>6 DEF ControlOK
<1>7. ASSUME NEW k \in Runs, StartRun(k)
      PROVE  ControlOK'
  <2>1. Open = {} /\ back \in Queued /\ back \in Tasks
    BY <1>7 DEF ControlOK, LoopInv, StartRun, QueueOK, TypeOK
  <2>2. Busy = {} /\ Queued \subseteq present
    BY <2>1 DEF Open
  <2>3. Queued' = Queued
    BY <1>7 DEF Queued, StartRun
  <2>4. Busy' = {k} /\ run'[k] = "deploy" /\ taskOf'[k] = back
    BY <1>7, <2>2 DEF Busy, StartRun, QueueOK, TypeOK
  <2>5. Open' = {back}
    BY <1>7, <2>2, <2>3, <2>4 DEF Open, StartRun
  <2>6. k # 0 /\ k \notin aborted' /\ abortChan' = k
    <3>1. k # 0
      BY ParameterAssumption DEF Runs
    <3>2. k \notin aborted /\ k # abortChan
      BY <1>7, <3>1 DEF StartRun, RunsInv, StartedInv
    <3> QED
      BY <1>7, <3>1, <3>2 DEF StartRun, ClosedChannels, NewChannel
  <2>8. RunInv'
    BY <1>7, <2>1, <2>2, <2>3, <2>4, <2>5, <2>6 DEF RunInv, StartRun
  <2>9. lastBack' # queue'[Len(queue')] /\ loop' = "check"
    <3>1. queue # <<>>
      BY <2>1, QueueElements DEF QueueOK
    <3> QED
      BY <1>7, <2>1, <3>1, PrevType DEF StartRun, QueueOK
  <2>10. LoopInv'
    BY <1>7, <2>9 DEF ControlOK, LoopInv, StartRun
  <2>11. DeletedInv'
    BY <1>7 DEF ControlOK, DeletedInv, StartRun
  <2> QED
    BY <2>8, <2>10, <2>11 DEF ControlOK
<1> QED
  BY <1>1, <1>2, <1>3, <1>4, <1>5, <1>6, <1>7 DEF Loop

\* The goroutines: the one that is busy clears processing and deletes the config
\* map of its task, which stays open until the informer has told of it.
LEMMA RunControl ==
  ASSUME QueueOK, TaskOfInv, ControlOK, NEW k \in Runs, Goroutine(k)
  PROVE  ControlOK'
<1> USE DEF clusterVars, enqueueVars, loopVars, runVars, boundVars
<1>1. CASE RunDeploy(k)
  <2>1. k \in Busy /\ run[k] = "deploy" /\ k \notin aborted
    BY <1>1 DEF RunDeploy, Busy, ControlOK, RunInv
  <2>4. run' = [run EXCEPT ![k] = "clear"] /\ run'[k] = "clear"
    BY <1>1 DEF RunDeploy, QueueOK, TypeOK
  <2>5. Queued' = Queued /\ Busy' = Busy
    BY <1>1, <2>1, <2>4 DEF Queued, Busy, RunDeploy, QueueOK, TypeOK
  <2>6. Open' = Open
    BY <1>1, <2>5 DEF Open, RunDeploy
  <2>7. \A j \in Busy : j = k
    BY <2>1 DEF ControlOK, RunInv
  <2>9. RunInv'
    BY <1>1, <2>1, <2>4, <2>5, <2>6, <2>7 DEF ControlOK, RunInv, RunDeploy
  <2>10. LoopInv'
    BY <1>1, <2>5, <2>6 DEF ControlOK, LoopInv, RunDeploy
  <2>11. DeletedInv'
    BY <1>1 DEF ControlOK, DeletedInv, RunDeploy
  <2> QED
    BY <2>9, <2>10, <2>11 DEF ControlOK
<1>2. CASE RunClear(k)
  <2>1. k \in Busy /\ run[k] = "clear"
    BY <1>2 DEF RunClear, Busy
  <2>2. run' = [run EXCEPT ![k] = "delete"] /\ run'[k] = "delete" /\ processing' = None
    BY <1>2 DEF RunClear, QueueOK, TypeOK
  <2>3. Queued' = Queued /\ Busy' = Busy
    BY <1>2, <2>1, <2>2 DEF Queued, Busy, RunClear, QueueOK, TypeOK
  <2>4. Open' = Open
    BY <1>2, <2>3 DEF Open, RunClear
  <2>5. \A j \in Busy : j = k
    BY <2>1 DEF ControlOK, RunInv
  <2>7. RunInv'
    BY <1>2, <2>1, <2>2, <2>3, <2>4, <2>5 DEF ControlOK, RunInv, RunClear
  <2>8. LoopInv'
    BY <1>2, <2>3, <2>4 DEF ControlOK, LoopInv, RunClear
  <2>9. DeletedInv'
    BY <1>2 DEF ControlOK, DeletedInv, RunClear
  <2> QED
    BY <2>7, <2>8, <2>9 DEF ControlOK
<1>3. CASE RunDelete(k)
  <2>1. k \in Busy /\ run[k] = "delete" /\ (\A j \in Busy : j = k)
    BY <1>3 DEF RunDelete, Busy, ControlOK, RunInv
  <2>2. processing = None /\ taskOf[k] \in Queued \cap present /\ taskOf[k] \in Open
    BY <2>1 DEF ControlOK, RunInv, Open
  <2>3. run' = [run EXCEPT ![k] = "signal"] /\ run'[k] = "signal"
    BY <1>3 DEF RunDelete, QueueOK, TypeOK
  <2>4. Queued' = Queued /\ Busy' = {}
    BY <1>3, <2>1, <2>3 DEF Queued, Busy, RunDelete, QueueOK, TypeOK
  <2>5. present' \subseteq present /\ present \ present' \subseteq {taskOf[k]}
    BY <1>3 DEF RunDelete
  <2>6. Open' \subseteq Open
    BY <2>2, <2>4, <2>5 DEF Open
  <2>8. RunInv'
    BY <1>3, <2>2, <2>4, <2>6 DEF ControlOK, RunInv, RunDelete
  <2>9. LoopInv'
    BY <1>3, <2>4, <2>6 DEF ControlOK, LoopInv, RunDelete
  <2>10. DeletedInv'
    <3>1. notified[taskOf[k]] # "no"
      BY <2>2 DEF QueueOK, QueueInv
    <3> QED
      BY <1>3, <2>2, <2>5, <3>1 DEF ControlOK, DeletedInv, RunDelete
  <2> QED
    BY <2>8, <2>9, <2>10 DEF ControlOK
<1>4. CASE RunSignal(k)
  <2>1. run' = [run EXCEPT ![k] = "done"] /\ run'[k] = "done" /\ run[k] = "signal"
    BY <1>4 DEF RunSignal, QueueOK, TypeOK
  <2>2. Queued' = Queued /\ Busy' = Busy
    BY <1>4, <2>1 DEF Queued, Busy, RunSignal, QueueOK, TypeOK
  <2>3. Open' = Open
    BY <1>4, <2>2 DEF Open, RunSignal
  <2>4. \A j \in Busy : run'[j] = run[j]
    BY <2>1 DEF Busy, QueueOK, TypeOK
  <2>6. RunInv'
    BY <1>4, <2>2, <2>3, <2>4 DEF ControlOK, RunInv, RunSignal
  <2>7. LoopInv'
    BY <1>4, <2>2, <2>3 DEF ControlOK, LoopInv, RunSignal, Signal
  <2>8. DeletedInv'
    BY <1>4 DEF ControlOK, DeletedInv, RunSignal
  <2> QED
    BY <2>6, <2>7, <2>8 DEF ControlOK
<1> QED
  BY <1>1, <1>2, <1>3, <1>4 DEF Goroutine

\* A restart forgets the runs and the queue, and nothing stays open.
LEMMA RestartControl ==
  ASSUME QueueOK, Restart
  PROVE  ControlOK'
<1> USE DEF clusterVars, enqueueVars, loopVars, runVars, boundVars
<1>1. queue' = <<>> /\ Queued' = {}
  BY DEF Restart, Queued
<1>2. Busy' = {} /\ Open' = {}
  BY <1>1 DEF Restart, Busy, Open
<1>3. RunInv'
  BY <1>2 DEF RunInv, Restart
<1>4. LoopInv'
  BY <1>1, <1>2 DEF LoopInv, Restart
<1>5. DeletedInv'
  BY DEF DeletedInv, Restart, QueueOK, TypeOK
<1> QED
  BY <1>3, <1>4, <1>5 DEF ControlOK

LEMMA NextControl ==
  ASSUME QueueOK, TaskOfInv, RunsInv, ControlInv, [Next]_vars
  PROVE  ControlInv'
<1>1. SUFFICES ASSUME ~disturbed'
               PROVE  ControlOK'
  BY DEF ControlInv, ControlOK
<1>2. CASE Restart
  BY <1>2, RestartControl
<1>3. CASE ~Restart
  <2>1. (\A t \in Tasks : ~WithdrawTask(t)) /\ ~disturbed /\ (WakeUp => ~Overdue)
    <3>1. (\A t \in Tasks : ~WithdrawTask(t)) /\ (WakeUp => ~Overdue /\ ~disturbed)
      BY <1>1 DEF WithdrawTask, WakeUp
    <3> QED
      BY <1>1, <1>3, <3>1 DEF Next, Enqueuer, EnqueuerSignal, Loop, Goroutine, CreateTask,
              TaskAdded, TaskDeleted, LoopCheck, LoopLook, LoopDecide, LoopWait, Abort, Settle,
              NilDereference, StartRun, RunDeploy, RunClear, RunDelete, RunSignal, vars, boundVars
  <2>2. ControlOK
    BY <2>1 DEF ControlInv, ControlOK
  <2>3. ASSUME NEW t \in Tasks, CreateTask(t) \/ TaskAdded(t) \/ TaskDeleted(t)
        PROVE  ControlOK'
    BY <2>2, <2>3, EnqueueControl
  <2>4. CASE EnqueuerSignal \/ UNCHANGED vars
    BY <2>2, <2>4, SignalControl
  <2>5. CASE Loop
    BY <2>1, <2>2, <2>5, LoopControl
  <2>6. ASSUME NEW k \in Runs, Goroutine(k)
        PROVE  ControlOK'
    BY <2>2, <2>6, RunControl
  <2> QED
    BY <1>3, <2>1, <2>3, <2>4, <2>5, <2>6 DEF Next, Enqueuer
<1> QED
  BY <1>2, <1>3

(***************************************************************************)
(* What becomes of the runs                                                *)
(***************************************************************************)

LEMMA RunsFrame ==
  ASSUME TypeOK, RunsInv,
         UNCHANGED <<abortChan, aborted, run, taskOf>>,
         created' \ present' \subseteq (created \ present) \cup withdrawn',
         completed \subseteq completed', rejected \subseteq rejected', withdrawn \subseteq withdrawn'
  PROVE  RunsInv'
  BY DEF RunsInv, StartedInv, ChannelInv, OverInv, DeletedWhenCompleted

LEMMA NextRuns ==
  ASSUME TypeOK, TaskOfInv, RunsInv, [Next]_vars
  PROVE  RunsInv'
<1> USE DEF clusterVars, enqueueVars, loopVars, runVars, boundVars
<1>1. CASE \/ \E t \in Tasks : CreateTask(t) \/ WithdrawTask(t)
           \/ Enqueuer \/ LoopCheck \/ LoopLook \/ LoopDecide \/ LoopWait
           \/ WakeUp \/ NilDereference \/ UNCHANGED vars
  <2>1. /\ UNCHANGED <<abortChan, aborted, run, taskOf, completed, rejected>>
        /\ created' \ present' \subseteq (created \ present) \cup withdrawn'
        /\ withdrawn \subseteq withdrawn'
    BY <1>1 DEF CreateTask, WithdrawTask, Enqueuer, EnqueuerSignal, TaskAdded, TaskDeleted,
                LoopCheck, LoopLook, LoopDecide, LoopWait, WakeUp, NilDereference, vars
  <2> QED
    BY <2>1, RunsFrame
<1>2. CASE Restart
  BY <1>2 DEF RunsInv, StartedInv, ChannelInv, OverInv, DeletedWhenCompleted, Restart, TypeOK
<1>3. CASE Abort \/ Settle
  <2>1. /\ aborted' \cup {abortChan'} \subseteq aborted \cup {abortChan, 0}
        /\ aborted \cup {abortChan} \subseteq aborted' \cup {abortChan', 0}
        /\ aborted \subseteq aborted'
        /\ UNCHANGED <<run, taskOf, present, created, withdrawn, completed, rejected>>
    BY <1>3 DEF Abort, Settle, ClosedChannels
  <2>2. 0 \notin Runs
    BY DEF Runs
  <2> QED
    BY <2>1, <2>2 DEF RunsInv, StartedInv, ChannelInv, OverInv, DeletedWhenCompleted
<1>4. ASSUME NEW k \in Runs, StartRun(k)
      PROVE  RunsInv'
  <2>1. 0 \notin Runs /\ k # 0
    BY DEF Runs
  <2>2. run[k] = "none" /\ k \notin aborted
    BY <1>4, <2>1 DEF StartRun, RunsInv, StartedInv
  <2>3. /\ run' = [run EXCEPT ![k] = "deploy"] /\ taskOf' = [taskOf EXCEPT ![k] = back]
        /\ abortChan' = k /\ aborted' = ClosedChannels
        /\ UNCHANGED <<present, created, withdrawn, completed, rejected>>
    BY <1>4 DEF StartRun, NewChannel
  <2>4. \A j \in Runs \ {k} : run'[j] = run[j] /\ taskOf'[j] = taskOf[j]
    BY <2>3 DEF TypeOK
  <2>5. run'[k] = "deploy"
    BY <2>3 DEF TypeOK
  <2>6. aborted \subseteq aborted' /\ aborted' \subseteq aborted \cup ({abortChan} \ {0})
    BY <2>3 DEF ClosedChannels
  <2>7. StartedInv'
    BY <2>1, <2>3, <2>4, <2>5, <2>6 DEF RunsInv, StartedInv, TypeOK
  <2>8. abortChan # 0 => abortChan \in aborted'
    BY <2>3 DEF ClosedChannels
  <2>9. ChannelInv' /\ OverInv'
    BY <2>1, <2>3, <2>4, <2>5, <2>6, <2>8 DEF RunsInv, ChannelInv, OverInv
  <2>10. {taskOf[j] : j \in aborted} \subseteq {taskOf'[j] : j \in aborted'}
    BY <2>2, <2>4, <2>6 DEF TypeOK
  <2>11. DeletedWhenCompleted'
    BY <2>3, <2>10 DEF RunsInv, DeletedWhenCompleted
  <2> QED
    BY <2>7, <2>9, <2>11 DEF RunsInv
<1>5. ASSUME NEW k \in Runs, Goroutine(k)
      PROVE  RunsInv'
  <2>1. /\ UNCHANGED <<abortChan, aborted, taskOf, created, withdrawn>>
        /\ completed \subseteq completed' /\ rejected \subseteq rejected'
    BY <1>5 DEF Goroutine, RunDeploy, RunClear, RunDelete, RunSignal
  <2>2. /\ \A j \in Runs \ {k} : run'[j] = run[j]
        /\ run[k] \in {"deploy", "clear", "delete", "signal"}
        /\ run'[k] \in {"clear", "delete", "signal", "done"}
        /\ run'[k] \in {"clear", "delete"} =>
             \/ run[k] = "clear"
             \/ taskOf[k] \in completed' \cup rejected' \/ k \in aborted
        /\ present' = present \/ (run[k] = "delete" /\ present' = present \ {taskOf[k]})
    BY <1>5 DEF Goroutine, RunDeploy, RunClear, RunDelete, RunSignal, TypeOK
  <2>3. StartedInv' /\ ChannelInv' /\ OverInv'
    BY <2>1, <2>2 DEF RunsInv, StartedInv, ChannelInv, OverInv, TypeOK
  <2>4. DeletedWhenCompleted'
    BY <2>1, <2>2 DEF RunsInv, OverInv, DeletedWhenCompleted
  <2> QED
    BY <2>3, <2>4 DEF RunsInv
<1> QED
  BY <1>1, <1>2, <1>3, <1>4, <1>5 DEF Next, Loop

(***************************************************************************)
(* Theorems                                                                *)
(***************************************************************************)

LEMMA InitControl == Init => TaskOfInv /\ RunsInv /\ ControlInv
<1> SUFFICES ASSUME Init
             PROVE  TaskOfInv /\ RunsInv /\ ControlInv
  OBVIOUS
<1>1. queue = <<>> /\ Queued = {} /\ Busy = {}
  BY DEF Init, Queued, Busy
<1>2. Open = {}
  BY <1>1 DEF Open
<1>3. RunsInv
  BY DEF Init, RunsInv, StartedInv, ChannelInv, OverInv, DeletedWhenCompleted
<1> QED
  BY <1>1, <1>2, <1>3 DEF Init, TaskOfInv, ControlInv, RunInv, LoopInv, DeletedInv

LEMMA TaskInvariant == Spec => [](QueueOK /\ TaskOfInv /\ RunsInv /\ ControlInv)
<1> DEFINE IInv == QueueOK /\ TaskOfInv /\ RunsInv /\ ControlInv
<1>1. Init => IInv
  BY InitTypes, InitControl DEF QueueOK
<1>2. IInv /\ [Next]_vars => IInv'
  <2> SUFFICES ASSUME IInv, [Next]_vars
               PROVE  IInv'
    OBVIOUS
  <2>1. TypeOK
    BY DEF QueueOK
  <2> QED
    BY <2>1, NextQueue, NextTaskOf, NextRuns, NextControl
<1> QED
  BY <1>1, <1>2, PTL DEF Spec

\* Type correctness of the deployment process, among it that no task is queued
\* twice (enqueueTasks).
THEOREM TaskTypesCorrect == Spec => []TypeOK
<1>1. QueueOK => TypeOK
  BY DEF QueueOK
<1> QED
  BY <1>1, TaskInvariant, PTL

\* enqueueTasks keeps the queue in the order of creation for any number of tasks,
\* in whatever order the informer delivers them, as far as isBefore can tell:
\* two tasks of one second are in order when their versions are equally long.
THEOREM QueueAlwaysChronological == Spec => []QueueChronological
<1>1. QueueOK => QueueChronological
  <2> SUFFICES ASSUME QueueOK, NEW i \in DOMAIN queue, NEW j \in DOMAIN queue, i < j,
                      Comparable(queue[i], queue[j])
               PROVE  Age[queue[i]] > Age[queue[j]]
    BY DEF QueueChronological
  <2> DEFINE t == queue[i]
             u == queue[j]
  <2>1. queue \in Seq(Tasks) /\ DOMAIN queue = 1 .. Len(queue)
    BY LenProperties DEF QueueOK, TypeOK
  <2>2. t \in Tasks /\ u \in Tasks /\ t # u
    BY <2>1, ElementOfSeq DEF QueueOK, TypeOK
  <2>3. ~IsBefore(t, u)
    BY DEF QueueOK, QueueSorted
  <2>4. Comparable(t, u)
    OBVIOUS
  <2> HIDE DEF t, u
  <2>5. /\ Age[t] \in Nat /\ Age[u] \in Nat /\ Timestamp[t] \in Nat /\ Timestamp[u] \in Nat
        /\ Len(Version[t]) \in Nat /\ Len(Version[u]) \in Nat
    BY <2>2, ParameterAssumption, LenProperties
  <2>6. Age[t] # Age[u]
    BY <2>2, ChronologyAssumption
  <2>7. ~(Age[t] < Age[u])
    <3> SUFFICES ASSUME Age[t] < Age[u]
                 PROVE  FALSE
      OBVIOUS
    <3>1. /\ Timestamp[t] <= Timestamp[u]
          /\ \/ Len(Version[t]) < Len(Version[u])
             \/ Len(Version[t]) = Len(Version[u]) /\ StringLess(Version[t], Version[u])
      BY <2>2, ChronologyAssumption
    <3>2. Timestamp[t] = Timestamp[u]
      BY <2>3, <2>5, <3>1 DEF IsBefore
    <3> QED
      BY <2>3, <2>4, <2>5, <3>1, <3>2 DEF IsBefore, Comparable
  <2>8. Age[t] > Age[u]
    BY <2>5, <2>6, <2>7
  <2> QED
    BY <2>8 DEF t, u
<1> QED
  BY <1>1, TaskInvariant, PTL

\* Whatever is withdrawn, late, lost or restarted, deployTasks never has two
\* deployments at work that have not been told to stop.
THEOREM LastOneCounts == Spec => []OneUnstopped
<1>1. QueueOK /\ RunsInv => OneUnstopped
  <2> SUFFICES ASSUME QueueOK, RunsInv
               PROVE  Cardinality(Deploying \ aborted) <= 1
    BY DEF OneUnstopped
  <2>1. Deploying \ aborted = {} \/ Deploying \ aborted = {abortChan}
    BY DEF RunsInv, ChannelInv, Deploying
  <2>2. Cardinality({}) = 0 /\ Cardinality({abortChan}) = 1
    BY FS_EmptySet, FS_Singleton
  <2> QED
    BY <2>1, <2>2
<1> QED
  BY <1>1, TaskInvariant, PTL

\* From the start of a process to the first task that is withdrawn, or the first
\* deletion that is later than the second of sleep, deployments of deployTasks
\* never overlap and none is told to stop, however the events, the loop and the
\* steps by which a deployment ends are interleaved.
THEOREM DeploysOneByOne == Spec => []OneAtATime
<1>1. QueueOK /\ ControlInv => OneAtATime
  <2> SUFFICES ASSUME QueueOK, ControlOK
               PROVE  Cardinality(Deploying) <= 1 /\ Deploying \cap aborted = {}
    BY DEF ControlInv, ControlOK, OneAtATime
  <2>1. Deploying \subseteq Busy /\ \A k \in Deploying : run[k] = "deploy"
    BY DEF Deploying, Busy
  <2>2. Deploying \cap aborted = {}
    BY <2>1 DEF ControlOK, RunInv
  <2>3. CASE Deploying = {}
    <3>1. Cardinality(Deploying) = 0
      BY <2>3, FS_EmptySet
    <3> QED
      BY <2>2, <3>1
  <2>4. ASSUME NEW k \in Deploying
        PROVE  Cardinality(Deploying) <= 1
    <3>1. Deploying = {k}
      BY <2>1, <2>4 DEF ControlOK, RunInv
    <3>2. Cardinality({k}) = 1
      BY FS_Singleton
    <3> QED
      BY <3>1, <3>2
  <2> QED
    BY <2>2, <2>3, <2>4
<1> QED
  BY <1>1, TaskInvariant, PTL

\* A config map that is gone belonged to a task that was deployed, rejected or
\* withdrawn, or of which a run was told to stop: crashes at any point of
\* deployTasks and its goroutine lose no other.
THEOREM ConfigMapOutlivesTask == Spec => []DeletedWhenCompleted
<1>1. RunsInv => DeletedWhenCompleted
  BY DEF RunsInv
<1> QED
  BY <1>1, TaskInvariant, PTL
=============================================================================
