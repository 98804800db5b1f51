--------------------------- MODULE CoordinatorProofs ---------------------------
(***************************************************************************)
(* The safety of the coordinator for any number of service calls, any      *)
(* register contents, with or without polls, faults, cancelled calls and   *)
(* late replies.                                                           *)
(* IInv of Coordinator is inductive: LockInv says who is in the lock's     *)
(* queue, SnapshotInv orders the versions of what is published, read and   *)
(* still under way, LandedInv relates a write to its read-back, OrderInv   *)
(* the queue to the value requested last.                                  *)
(***************************************************************************)
EXTENDS Coordinator, TLAPS

(* The next-state relation, action by action.                              *)
LEMMA Steps ==
  ASSUME [Next]_vars
  PROVE  \/ UNCHANGED vars
         \/ \E w \in Writers, val \in Values : Request(w, val)
         \/ StartPoll \/ StartRefresh \/ CooldownEnds \/ StationApplies \/ PanelChange
         \/ \E t \in Tasks : Session(t)
         \/ \E w \in Writers : \/ Write(w) \/ Settled(w) \/ WriteReturns(w)
                               \/ WriteFails(w) \/ WriteRaises(w)
                               \/ LeavesQueue(w) \/ Drops(w) \/ Dropped(w)
         \/ \E t \in Refreshers : RefreshEnds(t)
  BY DEF Next, Requests, WriterStep, RefresherStep, Tasks

(* The names of the tasks are different.                                   *)
LEMMA TaskNames ==
  /\ Writers \subseteq Tasks /\ Refreshers \subseteq Tasks
  /\ Writers \cap Refreshers = {} /\ Nobody \notin Tasks
  /\ Poll \in Refreshers /\ Refresh \in Refreshers
  BY TasksAssumption DEF Tasks, Refreshers, Poll, Refresh, Nobody

(* Joining a queue, and leaving it at the front.                           *)
LEMMA Queues ==
  ASSUME NEW s \in Seq(Tasks), NEW t \in Tasks
  PROVE  /\ Append(s, t) \in Seq(Tasks) /\ Len(Append(s, t)) = Len(s) + 1
         /\ \A i \in 1..Len(Append(s, t)) :
              \/ i \in 1..Len(s) /\ Append(s, t)[i] = s[i]
              \/ i = Len(s) + 1 /\ Append(s, t)[i] = t
         /\ s # <<>> =>
              /\ Head(s) = s[1] /\ 1 \in 1..Len(s) /\ Tail(s) \in Seq(Tasks)
              /\ \A i \in 1..Len(Tail(s)) : i + 1 \in 1..Len(s) /\ Tail(s)[i] = s[i + 1]
  OBVIOUS

(* One sequence after another.                                             *)
LEMMA Joined ==
  ASSUME NEW S, NEW a \in Seq(S), NEW b \in Seq(S)
  PROVE  /\ a \o b \in Seq(S) /\ Len(a \o b) = Len(a) + Len(b)
         /\ \A j \in 1..Len(a) + Len(b) :
              (a \o b)[j] = IF j <= Len(a) THEN a[j] ELSE b[j - Len(a)]
  OBVIOUS

(* Leaving a queue at any place.                                           *)
LEMMA Removed ==
  ASSUME NEW s \in Seq(Tasks), NEW i \in 1..Len(s)
  PROVE  /\ RemoveAt(s, i) \in Seq(Tasks) /\ Len(RemoveAt(s, i)) = Len(s) - 1
         /\ \A j \in 1..Len(RemoveAt(s, i)) :
              /\ j \in 1..Len(s) /\ j + 1 \in 1..Len(s)
              /\ RemoveAt(s, i)[j] = IF j < i THEN s[j] ELSE s[j + 1]
<1> DEFINE front == SubSeq(s, 1, i - 1)
           back  == SubSeq(s, i + 1, Len(s))
<1>1. /\ Len(s) \in Nat /\ front \in Seq(Tasks) /\ Len(front) = i - 1
      /\ \A j \in 1..Len(front) : front[j] = s[j]
  OBVIOUS
<1>2. /\ back \in Seq(Tasks) /\ Len(back) = Len(s) - i
      /\ \A j \in 1..Len(back) : back[j] = s[i + j]
  OBVIOUS
<1> HIDE DEF front, back
<1>3. RemoveAt(s, i) = front \o back
  BY DEF RemoveAt, front, back
<1>4. /\ front \o back \in Seq(Tasks) /\ Len(front \o back) = Len(s) - 1
      /\ \A j \in 1..Len(front \o back) :
           (front \o back)[j] = IF j < i THEN front[j] ELSE back[j - (i - 1)]
  <2>1. front \in Seq(Tasks) /\ back \in Seq(Tasks)
    BY <1>1, <1>2
  <2>2. /\ front \o back \in Seq(Tasks) /\ Len(front \o back) = Len(front) + Len(back)
        /\ \A j \in 1..Len(front) + Len(back) :
             (front \o back)[j] = IF j <= Len(front) THEN front[j] ELSE back[j - Len(front)]
    BY <2>1, Joined
  <2>3. /\ i \in Int /\ Len(front) + Len(back) = Len(s) - 1
        /\ Len(front) = i - 1 /\ i - 1 \in Nat
    BY <1>1, <1>2
  <2>4. \A j \in 1..Len(front \o back) : j <= Len(front) <=> j < i
    BY <2>3
  <2> QED BY <2>2, <2>3, <2>4
<1>5. ASSUME NEW j \in 1..Len(front \o back)
      PROVE  /\ j \in 1..Len(s) /\ j + 1 \in 1..Len(s)
             /\ (front \o back)[j] = IF j < i THEN s[j] ELSE s[j + 1]
  <2>1. j \in 1..Len(s) /\ j + 1 \in 1..Len(s)
    BY <1>1, <1>4, <1>5
  <2>2. CASE j < i
    <3>1. j \in 1..Len(front)
      BY <1>1, <1>5, <2>2
    <3> QED BY <1>1, <1>4, <1>5, <2>1, <2>2, <3>1
  <2>3. CASE ~(j < i)
    <3>1. j - (i - 1) \in 1..Len(back) /\ i + (j - (i - 1)) = j + 1
      BY <1>1, <1>2, <1>4, <1>5, <2>3
    <3> QED BY <1>2, <1>4, <1>5, <2>1, <2>3, <3>1
  <2> QED BY <2>2, <2>3
<1> QED BY <1>3, <1>4, <1>5

(* The front of the queue is where a task that holds the lock is.          *)
LEMMA Holds ==
  ASSUME TypeOK, LockInv, NEW t \in Tasks, pc[t] \in Connected \cup {"connecting"}
  PROVE  ioLock # <<>> /\ Head(ioLock) = t /\ Tail(ioLock) \in Seq(Tasks)
<1>1. ioLock # <<>> /\ Head(ioLock) = t
  BY DEF LockInv, Owner
<1> QED BY <1>1, Queues DEF TypeOK

LEMMA InitInv == Init => IInv
<1> SUFFICES ASSUME Init PROVE IInv
  OBVIOUS
<1> USE DEF Init
<1>1. PICK v \in Values : station = [val |-> v, ver |-> 0]
  OBVIOUS
<1>2. station \in Snapshots
  BY <1>1 DEF Snapshots
<1>3. TypeOK
  <2>1. station.val \in Values /\ station.ver = 0
    BY <1>1
  <2>2. pc \in [Tasks -> {"idle"}] /\ \A t \in Refreshers : pc[t] = "idle"
    BY TaskNames
  <2>3. want \in [Writers -> Values] /\ seen \in [Tasks -> Snapshots] /\ landed \in [Writers -> Nat]
    BY <1>2, <2>1
  <2>4. ioLock \in Seq(Tasks)
    OBVIOUS
  <2> QED BY <1>2, <2>1, <2>2, <2>3, <2>4 DEF TypeOK, Connected, Ended
<1>4. LockInv
  BY DEF LockInv, Connected
<1>5. SnapshotInv
  BY <1>1 DEF SnapshotInv
<1>6. LandedInv
  <2>1. \A w \in Writers : landed[w] = 0 /\ pc[w] = "idle"
    BY TaskNames
  <2> QED BY <1>1, <2>1 DEF LandedInv
<1>7. ReadBackIsFresh
  BY DEF ReadBackIsFresh
<1>8. OrderInv
  BY DEF OrderInv
<1> QED BY <1>3, <1>4, <1>5, <1>6, <1>7, <1>8 DEF IInv

-------------------------------------------------------------------------------
(* Every step preserves the types. *)

LEMMA TypeStep == IInv /\ [Next]_vars => TypeOK'
<1> SUFFICES ASSUME IInv, [Next]_vars PROVE TypeOK'
  OBVIOUS
<1> USE TaskNames, CoordinatorAssumption
<1> USE DEF TypeOK, device, tasks, shown, bounce, ghosts, Goto, Connected, Ended
<1>0. TypeOK /\ LockInv
  BY DEF IInv
<1>1. CASE UNCHANGED vars
  BY <1>0, <1>1 DEF vars
<1>2. CASE \E w \in Writers, val \in Values : Request(w, val)
  <2> PICK w \in Writers, val \in Values : Request(w, val)
    BY <1>2
  <2>1. Append(ioLock, w) \in Seq(Tasks)
    BY <1>0, Queues
  <2> QED BY <1>0, <2>1 DEF Request, Enqueue
<1>3. CASE StartPoll
  <2>1. Append(ioLock, Poll) \in Seq(Tasks)
    BY <1>0, Queues
  <2>2. /\ ioLock' \in Seq(Tasks) /\ available' \in BOOLEAN
        /\ pc' = pc \/ pc' = [pc EXCEPT ![Poll] = "queued"]
    BY <1>0, <1>3, <2>1 DEF StartPoll, Enqueue
  <2>3. again' \in BOOLEAN /\ debouncer' \in {"ready", "running", "cooling"}
    BY <1>0, <1>3 DEF StartPoll, CancelDebounced
  <2> QED BY <1>0, <1>3, <2>2, <2>3 DEF StartPoll
<1>4. CASE StartRefresh
  <2>1. Append(ioLock, Refresh) \in Seq(Tasks)
    BY <1>0, Queues
  <2>2. /\ ioLock' \in Seq(Tasks) /\ available' \in BOOLEAN
        /\ pc' = pc \/ pc' = [pc EXCEPT ![Refresh] = "queued"]
        /\ debouncer' \in {"ready", "running", "cooling"}
    BY <1>0, <1>4, <2>1 DEF StartRefresh, Enqueue
  <2> QED BY <1>0, <1>4, <2>2 DEF StartRefresh
<1>5. CASE CooldownEnds
  BY <1>0, <1>5 DEF CooldownEnds
<1>6. CASE StationApplies
  BY <1>0, <1>6 DEF StationApplies, Change, Snapshots
<1>7. CASE PanelChange
  BY <1>0, <1>7 DEF PanelChange, Change, Snapshots
<1>8. CASE \E t \in Tasks : Session(t)
  <2> PICK t \in Tasks : Session(t)
    BY <1>8
  <2>1. CASE Acquire(t)
    BY <1>0, <2>1 DEF Acquire
  <2>2. CASE LinkUp(t)
    BY <1>0, <2>2 DEF LinkUp, Tasks
  <2>3. CASE ReadHolding(t)
    <3>1. \A reply \in LateAnswers(ReadHoldingBank) : reply.snapshot \in Snapshots
      BY <1>0 DEF LateAnswers
    <3>2. \E snapshot \in Snapshots : seen' = [seen EXCEPT ![t] = snapshot]
      BY <1>0, <2>3, <3>1 DEF ReadHolding
    <3> QED BY <1>0, <2>3, <3>2 DEF ReadHolding
  <2>4. CASE ReadInput(t)
    BY <1>0, <2>4 DEF ReadInput
  <2>5. CASE Fails(t)
    BY <1>0, <2>5 DEF Fails, LeavesBehind, Abandoned, Tasks, ReadHoldingBank, WriteRegister
  <2> QED BY <2>1, <2>2, <2>3, <2>4, <2>5 DEF Session
<1>9. CASE \E w \in Writers : Write(w) \/ Settled(w) \/ WriteRaises(w)
  BY <1>0, <1>9 DEF Write, Settled, WriteRaises
<1>10. CASE \E w \in Writers : WriteReturns(w)
  <2> PICK w \in Writers : WriteReturns(w)
    BY <1>10
  <2>1. Tail(ioLock) \in Seq(Tasks)
    BY <1>0, Holds DEF WriteReturns
  <2>2. again' \in BOOLEAN /\ debouncer' \in {"ready", "running", "cooling"}
    BY <1>0 DEF WriteReturns, CancelDebounced
  <2> QED BY <1>0, <2>1, <2>2 DEF WriteReturns, Release, Publish
<1>11. CASE \E w \in Writers : WriteFails(w)
  <2> PICK w \in Writers : WriteFails(w)
    BY <1>11
  <2>1. Tail(ioLock) \in Seq(Tasks)
    BY <1>0, Holds DEF WriteFails
  <2>2. again' \in BOOLEAN
    BY <1>0 DEF WriteFails, RequestRefresh
  <2> QED BY <1>0, <2>1, <2>2 DEF WriteFails, Release, RequestRefresh
<1>12. CASE \E t \in Refreshers : RefreshEnds(t)
  <2> PICK t \in Refreshers : RefreshEnds(t)
    BY <1>12
  <2>1. Tail(ioLock) \in Seq(Tasks)
    BY <1>0, Holds DEF RefreshEnds
  <2>2. \/ published' = seen[t] /\ available' = TRUE
        \/ published' = published /\ available' = FALSE
    BY DEF RefreshEnds, Publish
  <2>3. seen[t] \in Snapshots /\ stray' \subseteq Tasks \cup {Entities}
    BY <1>0 DEF RefreshEnds, Publish
  <2>4. pc' = [pc EXCEPT ![t] = "idle"] /\ debouncer' \in {"ready", "running", "cooling"}
    BY <1>0 DEF RefreshEnds
  <2>5. pc' \in [Tasks -> {"idle", "queued", "connecting", "refreshing"} \cup Connected \cup Ended]
    BY <1>0, <2>4
  <2>6. \A u \in Refreshers :
          pc'[u] \notin {"writing", "settling", "refreshing", "dropping"} \cup Ended
    BY <1>0, <2>4
  <2> QED BY <1>0, <2>1, <2>2, <2>3, <2>4, <2>5, <2>6 DEF RefreshEnds, Release
<1>13. CASE \E w \in Writers : Drops(w)
  BY <1>0, <1>13 DEF Drops, LeavesBehind, Abandoned, ReadHoldingBank, WriteRegister
<1>14. CASE \E w \in Writers : Dropped(w)
  <2> PICK w \in Writers : Dropped(w)
    BY <1>14
  <2>1. Tail(ioLock) \in Seq(Tasks)
    BY <1>0, Holds DEF Dropped
  <2> QED BY <1>0, <2>1 DEF Dropped, Release
<1>15. CASE \E w \in Writers : LeavesQueue(w)
  <2> PICK w \in Writers : LeavesQueue(w)
    BY <1>15
  <2>1. ioLock' \in Seq(Tasks)
    BY <1>0, Removed DEF LeavesQueue
  <2> QED BY <1>0, <2>1 DEF LeavesQueue
<1> QED BY <1>1, <1>2, <1>3, <1>4, <1>5, <1>6, <1>7, <1>8, <1>9, <1>10, <1>11, <1>12, <1>13,
           <1>14, <1>15, Steps

-------------------------------------------------------------------------------
(* The lock: joining it, moving on while holding it, and leaving it. *)

Waiting == Connected \cup {"connecting", "queued"}

LEMMA Joins ==
  ASSUME TypeOK, LockInv, NEW t \in Tasks, pc[t] \notin Waiting, Enqueue(t)
  PROVE  LockInv'
<1> USE DEF Waiting, Connected
<1>1. ioLock \in Seq(Tasks) /\ ioLock' = Append(ioLock, t) /\ pc' = [pc EXCEPT ![t] = "queued"]
  BY DEF TypeOK, Enqueue, Goto
<1>2. \A i \in 1..Len(ioLock) : ioLock[i] \in Tasks /\ ioLock[i] # t
  BY <1>1 DEF LockInv
<1>3. \A i \in 1..Len(ioLock') : \/ i \in 1..Len(ioLock) /\ ioLock'[i] = ioLock[i]
                                 \/ i = Len(ioLock) + 1 /\ ioLock'[i] = t
  BY <1>1, Queues
<1>4. \A i, j \in 1..Len(ioLock') : ioLock'[i] = ioLock'[j] => i = j
  BY <1>2, <1>3 DEF LockInv
<1>5. \A u \in Tasks : pc'[u] = IF u = t THEN "queued" ELSE pc[u]
  BY <1>1 DEF TypeOK
<1>6. \A i \in 1..Len(ioLock') : pc'[ioLock'[i]] \in Connected \cup {"connecting", "queued"}
  BY <1>2, <1>3, <1>5 DEF LockInv
<1>7. ioLock # <<>> => Head(ioLock') = Head(ioLock) /\ ioLock' # <<>>
  BY <1>1
<1>8. \A u \in Tasks : pc'[u] \in Connected \cup {"connecting"} =>
         ioLock' # <<>> /\ Head(ioLock') = u
  BY <1>5, <1>7 DEF LockInv, Owner
<1> QED BY <1>4, <1>6, <1>8 DEF LockInv, Owner

LEMMA Stays ==
  ASSUME TypeOK, LockInv, NEW t \in Tasks, Owner(t), UNCHANGED ioLock,
         NEW label \in Connected \cup {"connecting"}, Goto(t, label)
  PROVE  LockInv'
<1>1. \A u \in Tasks : pc'[u] = IF u = t THEN label ELSE pc[u]
  BY DEF Goto, TypeOK
<1>2. \A i \in 1..Len(ioLock) : ioLock[i] \in Tasks
  BY DEF TypeOK
<1> QED BY <1>1, <1>2 DEF LockInv, Owner

LEMMA Leaves ==
  ASSUME TypeOK, LockInv, NEW t \in Tasks, pc[t] \in Connected, Release,
         NEW label, label \notin Waiting, Goto(t, label)
  PROVE  LockInv'
<1> USE DEF Waiting
<1>1. \A u \in Tasks : pc'[u] = IF u = t THEN label ELSE pc[u]
  BY DEF Goto, TypeOK
<1>2. ioLock # <<>> /\ Head(ioLock) = t /\ ioLock' = Tail(ioLock) /\ ioLock \in Seq(Tasks)
  BY Holds DEF Release, TypeOK
<1>3. /\ ioLock[1] = t /\ 1 \in 1..Len(ioLock)
      /\ \A i \in 1..Len(ioLock') : i + 1 \in 1..Len(ioLock) /\ ioLock'[i] = ioLock[i + 1]
  BY <1>2, Queues
<1>4. \A i \in 1..Len(ioLock') : ioLock'[i] \in Tasks /\ ioLock'[i] # t
  <2> SUFFICES ASSUME NEW i \in 1..Len(ioLock') PROVE ioLock'[i] \in Tasks /\ ioLock'[i] # t
    OBVIOUS
  <2>1. i \in Nat /\ i >= 1
    BY <1>2, Queues
  <2> QED BY <1>2, <1>3, <2>1 DEF LockInv
<1>5. \A i, j \in 1..Len(ioLock') : ioLock'[i] = ioLock'[j] => i = j
  <2> SUFFICES ASSUME NEW i \in 1..Len(ioLock'), NEW j \in 1..Len(ioLock'),
                      ioLock'[i] = ioLock'[j]
               PROVE  i = j
    OBVIOUS
  <2>1. i + 1 = j + 1
    BY <1>3 DEF LockInv
  <2> QED BY <1>2, <2>1
<1>6. \A i \in 1..Len(ioLock') : pc'[ioLock'[i]] \in Connected \cup {"connecting", "queued"}
  BY <1>1, <1>3, <1>4 DEF LockInv
<1>7. \A u \in Tasks : pc'[u] \notin Connected \cup {"connecting"}
  BY <1>1, <1>2 DEF LockInv, Owner
<1> QED BY <1>5, <1>6, <1>7 DEF LockInv

LEMMA GivesUp ==
  ASSUME TypeOK, LockInv, NEW w \in Writers, LeavesQueue(w)
  PROVE  LockInv'
<1> USE TaskNames
<1>1. /\ pc[w] = "queued" /\ pc' = [pc EXCEPT ![w] = "cancelled"] /\ ioLock \in Seq(Tasks)
      /\ \A u \in Tasks : pc'[u] = IF u = w THEN "cancelled" ELSE pc[u]
  BY DEF LeavesQueue, Goto, TypeOK
<1>2. PICK i \in 1..Len(ioLock) : ioLock[i] = w /\ ioLock' = RemoveAt(ioLock, i)
  BY DEF LeavesQueue
<1>3. /\ Len(ioLock) \in Nat /\ Len(ioLock') = Len(ioLock) - 1 /\ ioLock' \in Seq(Tasks)
      /\ \A j \in 1..Len(ioLock') :
           /\ j \in 1..Len(ioLock) /\ j + 1 \in 1..Len(ioLock)
           /\ ioLock'[j] = IF j < i THEN ioLock[j] ELSE ioLock[j + 1]
  <2>1. Len(ioLock) \in Nat
    BY <1>1
  <2> DEFINE rest == RemoveAt(ioLock, i)
  <2>2. /\ Len(rest) = Len(ioLock) - 1 /\ rest \in Seq(Tasks)
        /\ \A j \in 1..Len(rest) :
             /\ j \in 1..Len(ioLock) /\ j + 1 \in 1..Len(ioLock)
             /\ rest[j] = IF j < i THEN ioLock[j] ELSE ioLock[j + 1]
    BY <1>1, Removed
  <2>3. ioLock' = rest
    BY <1>2
  <2> QED BY <2>1, <2>2, <2>3
<1>4. \A j \in 1..Len(ioLock) : ioLock[j] \in Tasks /\ (j # i => ioLock[j] # w)
  BY <1>1, <1>2 DEF LockInv
<1>5. \A j \in 1..Len(ioLock') : ioLock'[j] \in Tasks /\ ioLock'[j] # w
                                /\ \E k \in 1..Len(ioLock) : ioLock'[j] = ioLock[k]
  BY <1>3, <1>4
<1>6. \A j, k \in 1..Len(ioLock') : ioLock'[j] = ioLock'[k] => j = k
  <2> SUFFICES ASSUME NEW j \in 1..Len(ioLock'), NEW k \in 1..Len(ioLock'), ioLock'[j] = ioLock'[k]
               PROVE  j = k
    OBVIOUS
  <2>1. (IF j < i THEN j ELSE j + 1) = (IF k < i THEN k ELSE k + 1)
    BY <1>3 DEF LockInv
  <2> QED BY <1>3, <2>1
<1>7. \A j \in 1..Len(ioLock') : pc'[ioLock'[j]] \in Connected \cup {"connecting", "queued"}
  BY <1>1, <1>5 DEF LockInv
<1>8. ASSUME NEW u \in Tasks, pc'[u] \in Connected \cup {"connecting"}
      PROVE  ioLock' # <<>> /\ Head(ioLock') = u
  <2>1. u # w /\ pc[u] \in Connected \cup {"connecting"}
    BY <1>1, <1>8 DEF Connected
  <2>2. ioLock[1] = u /\ 1 \in 1..Len(ioLock)
    BY <1>1, <2>1, Holds, Queues
  <2>3. 1 < i /\ 1 \in 1..Len(ioLock')
    BY <1>2, <1>3, <2>1, <2>2
  <2>4. ioLock'[1] = u
    BY <1>3, <2>2, <2>3
  <2> QED BY <1>3, <2>3, <2>4
<1> QED BY <1>6, <1>7, <1>8 DEF LockInv, Owner

LEMMA LockStep == IInv /\ [Next]_vars => LockInv'
<1> SUFFICES ASSUME IInv, [Next]_vars PROVE LockInv'
  OBVIOUS
<1> USE TaskNames
<1> USE DEF device, tasks, shown, bounce, ghosts, Waiting
<1>0. TypeOK /\ LockInv
  BY DEF IInv
<1>1. ASSUME UNCHANGED <<pc, ioLock>> PROVE LockInv'
  BY <1>0, <1>1 DEF LockInv, Owner
<1>2. ASSUME NEW t \in Tasks, NEW label, UNCHANGED ioLock, Goto(t, label),
             pc[t] \notin Waiting, label \notin Waiting
      PROVE  LockInv'
  <2>1. \A u \in Tasks : pc'[u] = IF u = t THEN label ELSE pc[u]
    BY <1>0, <1>2 DEF Goto, TypeOK
  <2>2. \A i \in 1..Len(ioLock) : ioLock[i] \in Tasks
    BY <1>0 DEF TypeOK
  <2> QED BY <1>0, <1>2, <2>1, <2>2 DEF LockInv, Owner
<1>3. CASE \/ UNCHANGED vars \/ CooldownEnds \/ StationApplies \/ PanelChange
  BY <1>1, <1>3 DEF vars, CooldownEnds, StationApplies, PanelChange
<1>4. CASE \E w \in Writers, val \in Values : Request(w, val)
  <2> PICK w \in Writers, val \in Values : Request(w, val)
    BY <1>4
  <2>1. pc[w] \notin Waiting
    BY DEF Request, Connected
  <2>2. CASE Enqueue(w)
    BY <1>0, <2>1, <2>2, Joins
  <2>3. CASE UNCHANGED ioLock /\ \E label \in {"skipped", "failed"} : Goto(w, label)
    BY <1>2, <2>1, <2>3 DEF Connected
  <2> QED BY <2>2, <2>3 DEF Request
<1>5. CASE StartPoll
  <2>1. pc[Poll] \notin Waiting
    BY <1>5 DEF StartPoll, Connected
  <2> QED BY <1>0, <1>1, <1>5, <2>1, Joins DEF StartPoll
<1>6. CASE StartRefresh
  <2>1. pc[Refresh] \notin Waiting
    BY <1>6 DEF StartRefresh, Connected
  <2> QED BY <1>0, <1>1, <1>6, <2>1, Joins DEF StartRefresh
<1>7. CASE \E t \in Tasks : Session(t)
  <2> PICK t \in Tasks : Session(t)
    BY <1>7
  <2>1. UNCHANGED ioLock /\ \E label \in Connected \cup {"connecting"} : Goto(t, label)
    BY DEF Session, Acquire, LinkUp, ReadHolding, ReadInput, Fails, Connected
  <2>2. Owner(t)
    BY <1>0 DEF Session, Acquire, LinkUp, ReadHolding, ReadInput, Fails, Connected, LockInv
  <2> QED BY <1>0, <2>1, <2>2, Stays
<1>8. CASE \E w \in Writers : Write(w) \/ Settled(w)
  <2> PICK w \in Writers : Write(w) \/ Settled(w)
    BY <1>8
  <2>1. UNCHANGED ioLock /\ \E label \in Connected \cup {"connecting"} : Goto(w, label)
    BY DEF Write, Settled, Connected
  <2>2. Owner(w)
    BY <1>0 DEF Write, Settled, Connected, LockInv
  <2> QED BY <1>0, <2>1, <2>2, Stays
<1>9. CASE \E w \in Writers : WriteRaises(w)
  BY <1>2, <1>9 DEF WriteRaises, Connected
<1>10. CASE \E w \in Writers : WriteReturns(w) \/ WriteFails(w)
  <2> PICK w \in Writers : WriteReturns(w) \/ WriteFails(w)
    BY <1>10
  <2>1. pc[w] \in Connected /\ Release
    BY DEF WriteReturns, WriteFails, Connected
  <2>2. \E label \in {"ok", "refreshing", "failed"} : Goto(w, label)
    BY DEF WriteReturns, WriteFails, RequestRefresh
  <2> QED BY <1>0, <2>1, <2>2, Leaves DEF Connected
<1>11. CASE \E t \in Refreshers : RefreshEnds(t)
  BY <1>0, <1>11, Leaves DEF RefreshEnds, Connected
<1>12. CASE \E w \in Writers : Drops(w)
  <2> PICK w \in Writers : Drops(w)
    BY <1>12
  <2>1. UNCHANGED ioLock /\ Goto(w, "dropping") /\ "dropping" \in Connected
    BY DEF Drops, Connected
  <2>2. Owner(w)
    BY <1>0 DEF Drops, Connected, LockInv
  <2> QED BY <1>0, <2>1, <2>2, Stays
<1>13. CASE \E w \in Writers : Dropped(w)
  BY <1>0, <1>13, Leaves DEF Dropped, Connected
<1>14. CASE \E w \in Writers : LeavesQueue(w)
  BY <1>0, <1>14, GivesUp
<1> QED BY <1>3, <1>4, <1>5, <1>6, <1>7, <1>8, <1>9, <1>10, <1>11, <1>12, <1>13, <1>14, Steps

-------------------------------------------------------------------------------
(* The order of the snapshots. *)

(* Only the owner of the lock has read anything it has not yet published.  *)
LEMMA OneReader ==
  ASSUME TypeOK, LockInv, NEW t \in Tasks, pc[t] \in Connected,
         NEW u \in Tasks, pc[u] \in Connected
  PROVE  t = u
  BY Holds

(* Versions are numbers.                                                   *)
LEMMA Versions ==
  ASSUME TypeOK
  PROVE  /\ station.ver \in Nat /\ published.ver \in Nat
         /\ \A t \in Tasks : seen[t].ver \in Nat
         /\ \A reply \in late : reply.snapshot.ver \in Nat
         /\ \A w \in Writers : landed[w] \in Nat
  BY DEF TypeOK, Snapshots

LEMMA SnapshotStep == IInv /\ [Next]_vars => SnapshotInv' /\ published'.ver >= published.ver
<1> SUFFICES ASSUME IInv, [Next]_vars PROVE SnapshotInv' /\ published'.ver >= published.ver
  OBVIOUS
<1> USE TaskNames, Versions
<1> USE DEF device, tasks, shown, bounce, ghosts
<1>0. TypeOK /\ LockInv /\ SnapshotInv
  BY DEF IInv
<1>1. ASSUME UNCHANGED <<published, seen>>, late' \subseteq late, station'.ver >= station.ver,
             station'.ver \in Nat,
             \A t \in Tasks : pc'[t] \in {"input", "closing"} => pc[t] \in {"input", "closing"}
      PROVE  SnapshotInv' /\ published'.ver >= published.ver
  BY <1>0, <1>1 DEF SnapshotInv
<1>2. CASE UNCHANGED vars \/ CooldownEnds
  BY <1>0, <1>1, <1>2 DEF vars, CooldownEnds
<1>3. CASE StationApplies \/ PanelChange
  <2>1. station'.ver = station.ver + 1
    BY <1>3 DEF StationApplies, PanelChange, Change
  <2> QED BY <1>0, <1>1, <1>3, <2>1 DEF StationApplies, PanelChange
<1>4. CASE \E w \in Writers, val \in Values : Request(w, val)
  <2> PICK w \in Writers, val \in Values : Request(w, val)
    BY <1>4
  <2>1. \E label \in {"skipped", "queued", "failed"} : Goto(w, label)
    BY DEF Request, Enqueue
  <2>2. \A t \in Tasks : pc'[t] \in {"input", "closing"} => pc[t] \in {"input", "closing"}
    BY <1>0, <2>1 DEF Goto, TypeOK
  <2> QED BY <1>0, <1>1, <2>2 DEF Request
<1>5. CASE StartPoll
  BY <1>0, <1>1, <1>5 DEF StartPoll, Enqueue, Goto, TypeOK
<1>6. CASE StartRefresh
  BY <1>0, <1>1, <1>6 DEF StartRefresh, Enqueue, Goto, TypeOK
<1>7. CASE \E t \in Tasks : Acquire(t) \/ LinkUp(t)
  BY <1>0, <1>1, <1>7 DEF Acquire, LinkUp, Goto, TypeOK
<1>8. CASE \E t \in Tasks : ReadHolding(t)
  <2> PICK t \in Tasks : ReadHolding(t)
    BY <1>8
  <2>1. PICK snapshot \in Snapshots :
          /\ seen' = [seen EXCEPT ![t] = snapshot]
          /\ published.ver <= snapshot.ver /\ snapshot.ver <= station.ver
    <3>1. CASE LateAnswers(ReadHoldingBank) = {}
      BY <1>0, <3>1 DEF ReadHolding, TypeOK, SnapshotInv
    <3>2. CASE LateAnswers(ReadHoldingBank) # {}
      <4>1. PICK reply \in late : seen' = [seen EXCEPT ![t] = reply.snapshot]
        BY <3>2 DEF ReadHolding, LateAnswers
      <4>2. reply.snapshot \in Snapshots
        BY <1>0 DEF TypeOK
      <4> QED BY <1>0, <4>1, <4>2 DEF SnapshotInv
    <3> QED BY <3>1, <3>2
  <2>2. late' = {} /\ station' = station /\ published' = published /\ pc' = [pc EXCEPT ![t] = "input"]
    BY DEF ReadHolding, Goto
  <2>3. \A u \in Tasks : pc'[u] \in {"input", "closing"} => u = t
    <3> SUFFICES ASSUME NEW u \in Tasks, u # t, pc'[u] \in {"input", "closing"} PROVE FALSE
      OBVIOUS
    <3>1. pc[u] \in Connected /\ pc[t] \in Connected
      BY <1>0, <2>2 DEF Connected, TypeOK, ReadHolding
    <3> QED BY <1>0, <3>1, OneReader
  <2>4. seen'[t] = snapshot
    BY <1>0, <2>1 DEF TypeOK
  <2> QED BY <1>0, <2>1, <2>2, <2>3, <2>4 DEF SnapshotInv
<1>9. CASE \E t \in Tasks : ReadInput(t)
  BY <1>0, <1>1, <1>9 DEF ReadInput, Goto, TypeOK
<1>10. CASE \E t \in Tasks : Fails(t) \/ (t \in Writers /\ Drops(t))
  <2> PICK t \in Tasks : Fails(t) \/ (t \in Writers /\ Drops(t))
    BY <1>10
  <2>1. /\ UNCHANGED <<station, published, seen>>
        /\ pc' = [pc EXCEPT ![t] = "aborting"] \/ pc' = [pc EXCEPT ![t] = "dropping"]
        /\ pc[t] \in Connected \cup {"connecting"}
    BY DEF Fails, Drops, Goto, Connected
  <2>2. \A u \in Tasks : pc'[u] \notin {"input", "closing"}
    <3>1. \A u \in Tasks : pc[u] \in {"input", "closing"} => u = t
      BY <1>0, <2>1, Holds DEF Connected
    <3> QED BY <1>0, <2>1, <3>1 DEF TypeOK
  <2>3. \A reply \in late' : reply \in late \/ reply.snapshot = station
    BY DEF Fails, Drops, LeavesBehind, Abandoned
  <2> QED BY <1>0, <2>1, <2>2, <2>3 DEF SnapshotInv
<1>11. CASE \E w \in Writers : \/ Write(w) \/ Settled(w) \/ WriteRaises(w)
                               \/ LeavesQueue(w) \/ Dropped(w)
  BY <1>0, <1>1, <1>11 DEF Write, Settled, WriteRaises, LeavesQueue, Dropped, Goto, TypeOK
<1>12. CASE \E w \in Writers : WriteFails(w)
  BY <1>0, <1>1, <1>12 DEF WriteFails, RequestRefresh, Goto, TypeOK
<1>13. ASSUME NEW t \in Tasks, pc[t] = "closing", Publish(t), UNCHANGED <<station, late, seen>>,
              NEW label \in {"ok", "idle"}, Goto(t, label)
       PROVE  SnapshotInv' /\ published'.ver >= published.ver
  <2>1. published' = seen[t] /\ published.ver <= seen[t].ver /\ seen[t].ver <= station.ver /\ late = {}
    BY <1>0, <1>13 DEF Publish, SnapshotInv
  <2>2. \A u \in Tasks : pc'[u] \notin {"input", "closing"}
    <3>1. \A u \in Tasks : pc[u] \in {"input", "closing"} => u = t
      BY <1>0, <1>13, OneReader DEF Connected
    <3> QED BY <1>0, <1>13, <3>1 DEF TypeOK, Goto
  <2> QED BY <1>0, <1>13, <2>1, <2>2 DEF SnapshotInv
<1>14. CASE \E w \in Writers : WriteReturns(w)
  BY <1>13, <1>14 DEF WriteReturns
<1>15. CASE \E t \in Refreshers : RefreshEnds(t)
  <2> PICK t \in Refreshers : RefreshEnds(t)
    BY <1>15
  <2>1. CASE pc[t] = "closing"
    BY <1>13, <2>1 DEF RefreshEnds
  <2>2. CASE pc[t] = "aborting"
    BY <1>0, <1>1, <2>2 DEF RefreshEnds, Goto, TypeOK
  <2> QED BY <2>1, <2>2 DEF RefreshEnds
<1> QED BY <1>2, <1>3, <1>4, <1>5, <1>6, <1>7, <1>8, <1>9, <1>10, <1>11, <1>12, <1>14, <1>15,
           Steps DEF Session

-------------------------------------------------------------------------------
(* A write, its effect and its read-back. *)

ReadingBack == {"settling", "holding", "input", "closing"}
Applying    == {"settling", "aborting", "refreshing", "failed", "dropping", "cancelled"}

LEMMA LandedStep == IInv /\ [Next]_vars => LandedInv' /\ ReadBackIsFresh'
<1> SUFFICES ASSUME IInv, [Next]_vars PROVE LandedInv' /\ ReadBackIsFresh'
  OBVIOUS
<1> USE TaskNames, Versions
<1> USE DEF device, tasks, shown, bounce, ghosts
<1>0. TypeOK /\ LockInv /\ SnapshotInv /\ LandedInv /\ ReadBackIsFresh
  BY DEF IInv
<1>a. published'.ver >= published.ver /\ published'.ver \in Nat
  BY SnapshotStep, TypeStep DEF TypeOK, Snapshots
<1>b. /\ applying \in Writers \cup {Nobody}
      /\ pc \in [Tasks -> {"idle", "queued", "connecting", "refreshing"} \cup Connected \cup Ended]
  BY <1>0 DEF TypeOK
<1>1. ASSUME UNCHANGED <<station, applying, landed>>, late' \subseteq late,
             NEW t \in Tasks, NEW label, Goto(t, label), label # "ok",
             label \in {"settling", "holding", "input", "closing"} /\ t \in Writers =>
               pc[t] \in {"settling", "holding", "input", "closing"} \/ late' = {},
             label = "input" /\ t \in Writers => landed[t] <= seen'[t].ver,
             label = "closing" => pc[t] = "input",
             \A u \in Tasks : (label = "input" /\ u = t) \/ seen'[u] = seen[u],
             t = applying => label \in Applying
      PROVE  LandedInv' /\ ReadBackIsFresh'
  <2>1. \A u \in Tasks : pc'[u] = IF u = t THEN label ELSE pc[u]
    BY <1>b, <1>1 DEF Goto
  <2>2. LandedInv'
    BY <1>0, <1>b, <1>1, <2>1 DEF LandedInv, Applying
  <2>3. ReadBackIsFresh'
    BY <1>0, <1>a, <1>1, <2>1 DEF ReadBackIsFresh
  <2> QED BY <2>2, <2>3
<1>2. ASSUME UNCHANGED <<pc, station, applying, landed, late, seen>>
      PROVE  LandedInv' /\ ReadBackIsFresh'
  BY <1>0, <1>a, <1>2 DEF LandedInv, ReadBackIsFresh
<1>3. CASE UNCHANGED vars \/ CooldownEnds
  BY <1>2, <1>3 DEF vars, CooldownEnds
<1>4. CASE \E w \in Writers, val \in Values : Request(w, val)
  <2> PICK w \in Writers, val \in Values : Request(w, val)
    BY <1>4
  <2>1. \E label \in {"skipped", "queued", "failed"} : Goto(w, label)
    BY DEF Request, Enqueue
  <2>2. pc[w] = "idle" /\ UNCHANGED <<station, applying, landed, late, seen>> /\ w # applying
    BY <1>0, <1>b DEF Request, LandedInv
  <2> QED BY <1>1, <2>1, <2>2
<1>5. CASE StartPoll \/ StartRefresh
  <2>1. UNCHANGED <<station, applying, landed, late, seen>>
    BY <1>5 DEF StartPoll, StartRefresh
  <2>2. UNCHANGED pc \/ Goto(Poll, "queued") \/ Goto(Refresh, "queued")
    BY <1>5 DEF StartPoll, StartRefresh, Enqueue
  <2>3. applying # Poll /\ applying # Refresh
    BY <1>b
  <2> QED BY <1>1, <1>2, <2>1, <2>2, <2>3
<1>6. CASE StationApplies
  <2>1. /\ station'.ver = station.ver + 1 /\ applying' = Nobody /\ applying \in Writers
        /\ UNCHANGED <<late, pc, seen, published>>
        /\ landed' = [landed EXCEPT ![applying] = station.ver + 1]
    BY <1>b, <1>6 DEF StationApplies, Change
  <2>2. pc[applying] \notin {"input", "closing", "ok"}
    BY <1>0, <1>b, <2>1 DEF LandedInv
  <2>3. \A w \in Writers : landed'[w] = IF w = applying THEN station.ver + 1 ELSE landed[w]
    BY <1>0, <2>1 DEF TypeOK
  <2> QED BY <1>0, <2>1, <2>2, <2>3 DEF LandedInv, ReadBackIsFresh
<1>7. CASE PanelChange
  <2>1. station'.ver = station.ver + 1 /\ UNCHANGED <<applying, late, pc, seen, published, landed>>
    BY <1>7 DEF PanelChange, Change
  <2> QED BY <1>0, <2>1 DEF LandedInv, ReadBackIsFresh
<1>8. CASE \E t \in Tasks : Acquire(t) \/ LinkUp(t)
  <2> PICK t \in Tasks : Acquire(t) \/ LinkUp(t)
    BY <1>8
  <2>1. \/ Goto(t, "connecting") \/ Goto(t, "writing")
        \/ Goto(t, "holding") /\ t \notin Writers
    BY DEF Acquire, LinkUp
  <2>2. pc[t] \in {"queued", "connecting"} /\ UNCHANGED <<station, applying, landed, late, seen>>
    BY DEF Acquire, LinkUp
  <2>3. t # applying
    BY <1>0, <1>b, <2>2 DEF LandedInv
  <2> QED BY <1>1, <2>1, <2>2, <2>3
<1>9. CASE \E t \in Tasks : ReadHolding(t)
  <2> PICK t \in Tasks : ReadHolding(t)
    BY <1>9
  <2>1. /\ pc[t] = "holding" /\ Goto(t, "input") /\ late' = {}
        /\ UNCHANGED <<station, applying, landed>>
    BY DEF ReadHolding
  <2>2. \A u \in Tasks : u = t \/ seen'[u] = seen[u]
    BY <1>0 DEF ReadHolding, TypeOK
  <2>3. ASSUME t \in Writers PROVE landed[t] <= seen'[t].ver
    <3>1. LateAnswers(ReadHoldingBank) = {}
      BY <1>0, <2>1, <2>3 DEF LandedInv, LateAnswers
    <3>2. seen'[t] = station
      BY <1>0, <3>1 DEF ReadHolding, TypeOK
    <3> QED BY <1>0, <2>3, <3>2 DEF LandedInv
  <2>4. t # applying
    BY <1>0, <1>b, <2>1 DEF LandedInv
  <2> QED BY <1>1, <2>1, <2>2, <2>3, <2>4
<1>10. CASE \E t \in Tasks : ReadInput(t)
  <2> PICK t \in Tasks : ReadInput(t)
    BY <1>10
  <2>1. pc[t] = "input" /\ Goto(t, "closing") /\ UNCHANGED <<station, applying, landed, late, seen>>
    BY DEF ReadInput
  <2>2. t # applying
    BY <1>0, <1>b, <2>1 DEF LandedInv
  <2> QED BY <1>1, <2>1, <2>2
<1>11. CASE \E t \in Tasks : Fails(t) \/ (t \in Writers /\ Drops(t))
  <2> PICK t \in Tasks : Fails(t) \/ (t \in Writers /\ Drops(t))
    BY <1>11
  <2>1. PICK label \in {"aborting", "dropping"} :
          /\ pc' = [pc EXCEPT ![t] = label] /\ UNCHANGED <<station, landed, seen>>
          /\ pc[t] \in Connected \cup {"connecting"} /\ applying' \in {applying, t}
    BY DEF Fails, Drops, LeavesBehind, Goto, Connected
  <2>2. \A u \in Tasks : pc'[u] \notin ReadingBack
    <3>1. \A u \in Tasks : pc[u] \in ReadingBack => u = t
      BY <1>0, <2>1, Holds DEF Connected, ReadingBack
    <3> QED BY <1>b, <2>1, <3>1 DEF ReadingBack
  <2>3. \A u \in Tasks : pc'[u] = IF u = t THEN label ELSE pc[u]
    BY <1>b, <2>1
  <2>4. applying' # Nobody => pc'[applying'] \in Applying
    BY <1>0, <1>b, <2>1, <2>3 DEF LandedInv, Applying
  <2> QED BY <1>0, <1>a, <2>1, <2>2, <2>3, <2>4 DEF LandedInv, ReadBackIsFresh, ReadingBack, Applying
<1>12. CASE \E w \in Writers : Write(w)
  <2> PICK w \in Writers : Write(w)
    BY <1>12
  <2>1. /\ pc[w] = "writing" /\ late' = {} /\ pc' = [pc EXCEPT ![w] = "settling"]
        /\ UNCHANGED <<station, landed, seen, published>> /\ applying' \in {applying, w}
    BY DEF Write, Goto
  <2>2. \A u \in Tasks : pc'[u] = IF u = w THEN "settling" ELSE pc[u]
    BY <1>b, <2>1
  <2> QED BY <1>0, <1>b, <2>1, <2>2 DEF LandedInv, ReadBackIsFresh
<1>13. CASE \E w \in Writers : Settled(w)
  BY <1>1, <1>13 DEF Settled
<1>14. CASE \E w \in Writers : WriteRaises(w)
  BY <1>1, <1>14 DEF WriteRaises, Applying
<1>15. CASE \E w \in Writers : WriteFails(w)
  <2> PICK w \in Writers : WriteFails(w)
    BY <1>15
  <2>1. \E label \in {"refreshing", "failed"} : Goto(w, label)
    BY DEF WriteFails, RequestRefresh
  <2>2. UNCHANGED <<station, applying, landed, late, seen>>
    BY DEF WriteFails
  <2> QED BY <1>1, <2>1, <2>2 DEF Applying
<1>16. CASE \E w \in Writers : WriteReturns(w)
  <2> PICK w \in Writers : WriteReturns(w)
    BY <1>16
  <2>1. /\ pc[w] = "closing" /\ pc' = [pc EXCEPT ![w] = "ok"] /\ published' = seen[w]
        /\ UNCHANGED <<station, applying, landed, late, seen>>
    BY DEF WriteReturns, Publish, Goto
  <2>2. \A u \in Tasks : pc'[u] = IF u = w THEN "ok" ELSE pc[u]
    BY <1>b, <2>1
  <2>3. landed[w] <= published'.ver /\ w # applying
    BY <1>0, <1>b, <2>1 DEF LandedInv
  <2>4. LandedInv'
    BY <1>0, <1>b, <2>1, <2>2, <2>3 DEF LandedInv
  <2>5. ReadBackIsFresh'
    BY <1>0, <1>a, <2>1, <2>2, <2>3 DEF ReadBackIsFresh
  <2> QED BY <2>4, <2>5
<1>17. CASE \E t \in Refreshers : RefreshEnds(t)
  <2> PICK t \in Refreshers : RefreshEnds(t)
    BY <1>17
  <2>1. Goto(t, "idle") /\ UNCHANGED <<station, applying, landed, late, seen>> /\ t # applying
    BY <1>b DEF RefreshEnds
  <2> QED BY <1>1, <2>1
<1>18. CASE \E w \in Writers : LeavesQueue(w) \/ Dropped(w)
  <2> PICK w \in Writers : LeavesQueue(w) \/ Dropped(w)
    BY <1>18
  <2>1. Goto(w, "cancelled") /\ UNCHANGED <<station, applying, landed, late, seen>>
    BY DEF LeavesQueue, Dropped
  <2> QED BY <1>1, <2>1 DEF Applying
<1> QED BY <1>3, <1>4, <1>5, <1>6, <1>7, <1>8, <1>9, <1>10, <1>11, <1>12, <1>13, <1>14, <1>15,
           <1>16, <1>17, <1>18, Steps DEF Session

-------------------------------------------------------------------------------
(* The order of the service calls. *)

PendingLabels == {"queued", "connecting", "writing"}
Trouble       == {"aborting", "refreshing", "failed", "skipped", "dropping", "cancelled"}

(* Trouble lasts: a call that failed or was skipped stays so, and a change *)
(* at the panel is not forgotten.                                          *)
LEMMA TroubleLasts ==
  ASSUME IInv, [Next]_vars, Untroubled'
  PROVE  Untroubled
<1> USE TaskNames
<1> USE DEF device, tasks, shown, bounce, ghosts
<1>0. TypeOK
  BY DEF IInv
<1>1. panel \in Nat /\ panel' \in {panel, panel + 1}
  <2>1. panel \in Nat
    BY <1>0 DEF TypeOK
  <2>2. panel' \in {panel, panel + 1}
    BY Steps DEF vars, Request, StartPoll, StartRefresh, CooldownEnds, StationApplies, PanelChange,
                 Session, Acquire, LinkUp, ReadHolding, ReadInput, Fails, Write, Settled,
                 WriteReturns, WriteFails, WriteRaises, LeavesQueue, Drops, Dropped, RefreshEnds
  <2> QED BY <2>1, <2>2
<1>2. ASSUME NEW w \in Writers, pc[w] \in Trouble PROVE pc'[w] \in Trouble
  <2>1. CASE UNCHANGED pc
    BY <1>2, <2>1
  <2>2. CASE \E t \in Tasks : \E place : Goto(t, place) /\ (pc[t] \in Trouble => t \notin Writers \/ place \in Trouble)
    BY <1>0, <1>2, <2>2 DEF Goto, TypeOK
  <2>3. UNCHANGED pc \/ \E t \in Tasks : \E place :
          Goto(t, place) /\ (pc[t] \in Trouble => t \notin Writers \/ place \in Trouble)
    BY Steps DEF vars, Request, Enqueue, StartPoll, StartRefresh, CooldownEnds, StationApplies, PanelChange,
                 Session, Acquire, LinkUp, ReadHolding, ReadInput, Fails, Write, Settled,
                 WriteReturns, WriteFails, RequestRefresh, WriteRaises, LeavesQueue, Drops, Dropped,
                 RefreshEnds, Trouble
  <2> QED BY <2>1, <2>2, <2>3
<1> QED BY <1>1, <1>2 DEF Untroubled, Trouble

LEMMA OrderStep == IInv /\ [Next]_vars => OrderInv'
<1> SUFFICES ASSUME IInv, [Next]_vars, Untroubled' PROVE OrderInv'
  BY DEF OrderInv
<1> USE TaskNames
<1> USE DEF device, tasks, shown, bounce, ghosts
<1>0. TypeOK /\ LockInv /\ LandedInv /\ OrderInv /\ Untroubled
  BY TroubleLasts DEF IInv
<1>a. ioLock \in Seq(Tasks) /\ \A i \in 1..Len(ioLock) : ioLock[i] \in Tasks
  BY <1>0 DEF TypeOK
<1>b. pc \in [Tasks -> {"idle", "queued", "connecting", "refreshing"} \cup Connected \cup Ended]
  BY <1>0 DEF TypeOK
<1>1. ASSUME UNCHANGED <<ioLock, want, lastWanted>>, Pending' = Pending,
             Pending = {} => UNCHANGED <<applying, station>>,
             \A reply \in late' : reply.fc # WriteRegister
      PROVE  OrderInv'
  BY <1>0, <1>1 DEF OrderInv
<1>2. ASSUME NEW t \in Tasks, NEW label, Goto(t, label),
             t \in Writers => (pc[t] \in PendingLabels <=> label \in PendingLabels)
      PROVE  Pending' = Pending
  BY <1>b, <1>2 DEF Goto, Pending, PendingLabels
<1>3. ASSUME UNCHANGED pc PROVE Pending' = Pending
  BY <1>3 DEF Pending
<1>4. \A reply \in late : reply.fc # WriteRegister
  BY <1>0 DEF OrderInv
<1>5. CASE UNCHANGED vars \/ CooldownEnds
  BY <1>1, <1>3, <1>4, <1>5 DEF vars, CooldownEnds
<1>6. CASE StationApplies
  <2>1. PICK w \in Writers : applying = w
    BY <1>0, <1>6 DEF StationApplies, TypeOK
  <2>2. Pending' = Pending /\ UNCHANGED <<ioLock, want, lastWanted, late>>
        /\ station'.val = want[w] /\ applying' = Nobody
    BY <1>3, <1>6, <2>1 DEF StationApplies, Change
  <2> QED BY <1>0, <2>1, <2>2 DEF OrderInv
<1>7. CASE PanelChange
  BY <1>0, <1>7 DEF PanelChange, Untroubled, TypeOK
<1>8. CASE \E w \in Writers, val \in Values : Request(w, val)
  <2> PICK w \in Writers, val \in Values : Request(w, val)
    BY <1>8
  <2>1. Enqueue(w)
    <3>1. ASSUME NEW label \in {"skipped", "failed"}, Goto(w, label) PROVE FALSE
      BY <1>b, <3>1 DEF Goto, Untroubled
    <3> QED BY <3>1 DEF Request
  <2>2. /\ ioLock' = Append(ioLock, w) /\ pc' = [pc EXCEPT ![w] = "queued"]
        /\ want' = [want EXCEPT ![w] = val] /\ lastWanted' = val /\ late' = late
    BY <2>1 DEF Request, Enqueue, Goto
  <2>3. w \in Pending' /\ want'[w] = val
    BY <1>0, <1>b, <2>2 DEF Pending, TypeOK
  <2>4. Len(ioLock') = Len(ioLock) + 1 /\ ioLock'[Len(ioLock) + 1] = w /\ Len(ioLock) \in Nat
    BY <1>a, <2>2
  <2>5. ASSUME NEW i \in 1..Len(ioLock'), \A j \in i+1..Len(ioLock') : ioLock'[j] \notin Writers
        PROVE  want'[ioLock'[i]] = lastWanted'
    <3>1. ~(Len(ioLock) + 1 \in i+1..Len(ioLock'))
      BY <2>4, <2>5
    <3>2. i = Len(ioLock) + 1
      BY <2>4, <3>1
    <3> QED BY <2>2, <2>3, <2>4, <3>2
  <2> QED BY <1>4, <2>2, <2>3, <2>5 DEF OrderInv
<1>9. ASSUME NEW t \in Refreshers, Enqueue(t), pc[t] = "idle",
             UNCHANGED <<want, lastWanted, applying, station, late>>
      PROVE  OrderInv'
  <2>1. Pending' = Pending
    BY <1>2, <1>9 DEF Enqueue
  <2>2. /\ Len(ioLock') = Len(ioLock) + 1 /\ ioLock'[Len(ioLock) + 1] = t /\ Len(ioLock) \in Nat
        /\ \A i \in 1..Len(ioLock) : i \in 1..Len(ioLock') /\ ioLock'[i] = ioLock[i]
    BY <1>a, <1>9 DEF Enqueue
  <2>3. ASSUME NEW i \in 1..Len(ioLock'), ioLock'[i] \in Pending',
               \A j \in i+1..Len(ioLock') : ioLock'[j] \notin Writers
        PROVE  want'[ioLock'[i]] = lastWanted'
    <3>1. i \in 1..Len(ioLock) /\ ioLock'[i] = ioLock[i]
      BY <2>2, <2>3 DEF Pending
    <3>2. \A j \in i+1..Len(ioLock) : ioLock[j] \notin Writers
      BY <2>2, <2>3, <3>1
    <3> QED BY <1>0, <1>9, <2>1, <2>3, <3>1, <3>2 DEF OrderInv
  <2> QED BY <1>0, <1>4, <1>9, <2>1, <2>3 DEF OrderInv
<1>10. CASE StartPoll
  BY <1>1, <1>3, <1>4, <1>9, <1>10 DEF StartPoll
<1>11. CASE StartRefresh
  BY <1>1, <1>3, <1>4, <1>9, <1>11 DEF StartRefresh
<1>12. CASE \E t \in Tasks : Acquire(t) \/ LinkUp(t) \/ ReadHolding(t) \/ ReadInput(t)
  <2> PICK t \in Tasks : Acquire(t) \/ LinkUp(t) \/ ReadHolding(t) \/ ReadInput(t)
    BY <1>12
  <2>1. Pending' = Pending
    BY <1>2 DEF Acquire, LinkUp, ReadHolding, ReadInput, PendingLabels
  <2>2. late' \subseteq late /\ UNCHANGED <<ioLock, want, lastWanted, applying, station>>
    BY DEF Acquire, LinkUp, ReadHolding, ReadInput
  <2> QED BY <1>1, <1>4, <2>1, <2>2
<1>13. CASE \E t \in Tasks : Fails(t)
  <2> PICK t \in Tasks : Fails(t)
    BY <1>13
  <2>1. t \notin Writers /\ pc[t] # "writing"
    <3>1. pc'[t] = "aborting"
      BY <1>b DEF Fails, Goto
    <3> QED BY <1>0, <3>1 DEF Untroubled, TypeOK, Tasks
  <2>2. Pending' = Pending
    BY <1>2, <2>1 DEF Fails
  <2>3. UNCHANGED <<ioLock, want, lastWanted, applying, station>>
    BY <2>1 DEF Fails, LeavesBehind
  <2>4. \A reply \in late' : reply.fc # WriteRegister
    BY <1>4, <2>1 DEF Fails, LeavesBehind, Abandoned, ReadHoldingBank, WriteRegister
  <2> QED BY <1>1, <2>2, <2>3, <2>4
<1>14. CASE \E w \in Writers : Write(w)
  <2> PICK w \in Writers : Write(w)
    BY <1>14
  <2>1. /\ applying' = w /\ late' = {} /\ pc[w] = "writing" /\ pc' = [pc EXCEPT ![w] = "settling"]
        /\ UNCHANGED <<ioLock, want, lastWanted>>
    BY <1>4 DEF Write, LateAnswers, Goto
  <2>2. Pending' = Pending \ {w} /\ w \in Pending
    BY <1>b, <2>1 DEF Pending
  <2>3. ioLock[1] = w /\ 1 \in 1..Len(ioLock)
    BY <1>0, <1>a, <2>1, Holds DEF Connected
  <2>4. ASSUME Pending' = {} PROVE lastWanted' = want'[w]
    <3>1. ASSUME NEW j \in 2..Len(ioLock), ioLock[j] \in Writers PROVE FALSE
      <4>1. j \in 1..Len(ioLock) /\ ioLock[j] # w
        BY <1>0, <2>3, <3>1 DEF LockInv
      <4>2. pc[ioLock[j]] \in Connected \cup {"connecting", "queued"}
        BY <1>0, <4>1 DEF LockInv
      <4>3. pc[ioLock[j]] = "queued"
        BY <1>0, <2>1, <3>1, <4>1, <4>2, Holds DEF Connected
      <4>4. ioLock[j] \in Pending'
        BY <2>2, <3>1, <4>1, <4>3 DEF Pending
      <4> QED BY <2>4, <4>4
    <3> QED BY <1>0, <2>1, <2>2, <2>3, <3>1 DEF OrderInv
  <2> QED BY <1>0, <2>1, <2>2, <2>4 DEF OrderInv
<1>15. CASE \E w \in Writers : Settled(w) \/ WriteRaises(w)
  <2> PICK w \in Writers : Settled(w) \/ WriteRaises(w)
    BY <1>15
  <2>1. Pending' = Pending
    BY <1>2 DEF Settled, WriteRaises, PendingLabels
  <2> QED BY <1>1, <1>4, <2>1 DEF Settled, WriteRaises
<1>16. ASSUME NEW t \in Tasks, pc[t] \in {"closing", "aborting"}, Release, Pending' = Pending,
              UNCHANGED <<want, lastWanted, applying, station, late>>
       PROVE  OrderInv'
  <2>1. /\ ioLock' = Tail(ioLock) /\ Len(ioLock) \in Nat
        /\ Len(ioLock') = Len(ioLock) - 1
        /\ \A i \in 1..Len(ioLock') : i + 1 \in 1..Len(ioLock) /\ ioLock'[i] = ioLock[i + 1]
    BY <1>0, <1>a, <1>16, Holds, Queues DEF Release, Connected
  <2>2. ASSUME NEW i \in 1..Len(ioLock'), ioLock'[i] \in Pending',
               \A j \in i+1..Len(ioLock') : ioLock'[j] \notin Writers
        PROVE  want'[ioLock'[i]] = lastWanted'
    <3>1. i + 1 \in 1..Len(ioLock) /\ ioLock'[i] = ioLock[i + 1]
      BY <2>1
    <3>2. ASSUME NEW j \in (i + 1) + 1..Len(ioLock) PROVE ioLock[j] \notin Writers
      <4>1. j - 1 \in i+1..Len(ioLock') /\ (j - 1) + 1 = j /\ j - 1 \in 1..Len(ioLock')
        BY <2>1, <3>2
      <4> QED BY <2>1, <2>2, <4>1
    <3> QED BY <1>0, <1>16, <2>2, <3>1, <3>2 DEF OrderInv
  <2> QED BY <1>0, <1>4, <1>16, <2>2 DEF OrderInv
<1>17. CASE \E w \in Writers : WriteReturns(w) \/ WriteFails(w)
  <2> PICK w \in Writers : WriteReturns(w) \/ WriteFails(w)
    BY <1>17
  <2>1. Pending' = Pending
    BY <1>2 DEF WriteReturns, WriteFails, RequestRefresh, PendingLabels
  <2> QED BY <1>16, <2>1 DEF WriteReturns, WriteFails
<1>18. CASE \E t \in Refreshers : RefreshEnds(t)
  <2> PICK t \in Refreshers : RefreshEnds(t)
    BY <1>18
  <2>1. Pending' = Pending
    BY <1>2 DEF RefreshEnds
  <2> QED BY <1>16, <2>1 DEF RefreshEnds
<1>19. ASSUME NEW w \in Writers, LeavesQueue(w) \/ Drops(w) \/ Dropped(w) PROVE FALSE
  <2>1. pc'[w] \in {"dropping", "cancelled"}
    BY <1>b, <1>19 DEF LeavesQueue, Drops, Dropped, Goto
  <2> QED BY <2>1 DEF Untroubled
<1> QED BY <1>5, <1>6, <1>7, <1>8, <1>10, <1>11, <1>12, <1>13, <1>14, <1>15, <1>17, <1>18, <1>19,
           Steps DEF Session

-------------------------------------------------------------------------------
(* The invariant holds throughout: types, the lock's queue, the order of   *)
(* the snapshots, and every read-back after its write.                     *)
THEOREM Inductive == Spec => []IInv
<1>1. IInv /\ [Next]_vars => IInv'
  BY TypeStep, LockStep, SnapshotStep, LandedStep, OrderStep DEF IInv
<1> QED BY InitInv, <1>1, PTL DEF Spec

(* Every variable of the coordinator keeps its type, and polls and         *)
(* refreshes never write.                                                  *)
THEOREM TypeCorrect == Spec => []TypeOK
<1>1. IInv => TypeOK
  BY DEF IInv
<1> QED BY <1>1, Inductive, PTL

(* The lock keeps every poll, refresh and service call to a connection of  *)
(* its own: the station never sees two clients.                            *)
THEOREM SingleClient == Spec => []OneClientAtATime
<1>1. IInv => OneClientAtATime
  BY Holds DEF IInv, OneClientAtATime
<1> QED BY <1>1, Inductive, PTL

(* No publication replaces a snapshot by an older one.                     *)
THEOREM Monotonic == Spec => NeverBackwards
<1>1. IInv /\ [Next]_vars => [published'.ver >= published.ver]_vars
  BY SnapshotStep
<1> QED BY <1>1, Inductive, PTL DEF Spec, NeverBackwards

(* A service call that returned success is reflected in what is published. *)
THEOREM FreshReadBack == Spec => []ReadBackIsFresh
<1>1. IInv => ReadBackIsFresh
  BY DEF IInv
<1> QED BY <1>1, Inductive, PTL

(* Service calls that all succeed leave the value requested last in the    *)
(* register, in whatever order they came and were resumed: the lock's      *)
(* queue is the order of the requests (coordinator.py, _io_lock).          *)
THEOREM LastOneWins == Spec => []LastWriteWins
<1>1. ASSUME IInv, Untouched, \A w \in Writers : pc[w] \notin {"failed", "skipped", "cancelled"}
      PROVE  station.val = lastWanted
  <2>1. Untroubled /\ Pending = {} /\ applying = Nobody
    BY <1>1 DEF Untouched, Done, Ended, Untroubled, Pending
  <2> QED BY <1>1, <2>1 DEF IInv, OrderInv
<1>2. IInv => LastWriteWins
  BY <1>1 DEF LastWriteWins
<1> QED BY <1>2, Inductive, PTL
===============================================================================
