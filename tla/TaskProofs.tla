----------------------------- MODULE TaskProofs -----------------------------
(***************************************************************************)
(* What the proofs about every component with tasks rest on.  First the    *)
(* invariants of the task states, for every table of tasks and every order *)
(* in which schedule() picks them; then what the list operators of         *)
(* Lists.tla do to the nodes linked in a list.                             *)
(***************************************************************************)
EXTENDS Tasks, Lists, SequenceTheorems, TLAPS

\* The inductive invariant: each conjunct needs the other two.
TaskInv == TaskTypeOK /\ RunningIsCurrent /\ IdleIsRunnable

(***************************************************************************)
(* schedule() picks a task that can run, the idle task for want of a ready *)
(* one, whatever state the current task has entered.                       *)
(***************************************************************************)
LEMMA CandidatesCanRun ==
    ASSUME NEW st \in [Task -> State], NEW cur \in Task \cup {Boot},
           NEW next \in Candidates(st, cur)
    PROVE  /\ next \in Task
           /\ \/ st[next] = "READY" /\ next # cur
              \/ next = Idle
BY TaskAssumption DEF Candidates

\* schedule() is called with a state for every slot.
LEMMA EnteringType ==
    ASSUME NEW st \in [Task -> State], NEW W, NEW cur,
           NEW s \in Sleeping \cup {"RUNNING", "DIED"}
    PROVE  Entering(Unblocked(st, W), cur, s) \in [Task -> State]
BY DEF Entering, Unblocked, State, Sleeping

\* A switch neither starts nor ends a wait.
LEMMA SwitchKeepsWaits ==
    ASSUME NEW st \in [Task -> State], NEW cur \in Task \cup {Boot},
           NEW next \in Candidates(st, cur), st[Idle] \notin Sleeping
    PROVE  \A t \in Task : \A s \in Sleeping :
              Switched(st, cur, next)[t] = s <=> st[t] = s
BY CandidatesCanRun DEF Switched, Sleeping

LEMMA InitTaskInv == TaskInit => TaskInv
<1> SUFFICES ASSUME TaskInit PROVE TaskInv
  OBVIOUS
<1>1. current \in Task \cup {Boot}
  BY DEF TaskInit
<1>2. PICK live \in SUBSET Task :
         /\ {Idle, current} \cap Task \subseteq live
         /\ state = [t \in Task |-> IF t = current THEN "RUNNING"
                                    ELSE IF t \in live THEN "READY"
                                    ELSE "NONE"]
  BY DEF TaskInit
<1>3. TaskTypeOK
  BY <1>1, <1>2 DEF TaskTypeOK, State
<1>4. RunningIsCurrent
  BY <1>2 DEF RunningIsCurrent
<1>5. IdleIsRunnable
  BY <1>2, TaskAssumption DEF IdleIsRunnable
<1> QED BY <1>3, <1>4, <1>5 DEF TaskInv

LEMMA StepTaskInv == TaskInv /\ [TaskNext]_taskVars => TaskInv'
<1> SUFFICES ASSUME TaskInv, [TaskNext]_taskVars PROVE TaskInv'
  OBVIOUS
<1> USE TaskAssumption DEF TaskInv, TaskTypeOK, RunningIsCurrent,
                           IdleIsRunnable, State, Sleeping
<1>1. CASE WakeAndReturn
  <2>1. PICK W \in SUBSET Waiters(state) : state' = Unblocked(state, W)
    BY <1>1 DEF WakeAndReturn
  <2>2. state' = [t \in Task |-> IF t \in W THEN "READY" ELSE state[t]]
    BY <2>1 DEF Unblocked
  <2>3. \A t \in W : state[t] \in {"BLOCKED", "SLEEPING", "WAITING"}
    BY <2>1 DEF Waiters
  <2>4. current' = current
    BY <1>1 DEF WakeAndReturn
  <2> QED BY <2>2, <2>3, <2>4
<1>2. CASE WakeAndSwitch
  <2>1. PICK W \in SUBSET Waiters(state), s \in Sleeping \cup {"RUNNING", "DIED"} :
           LET st == Entering(Unblocked(state, W), current, s)
           IN  /\ s # "RUNNING" => current \notin {Idle, Boot}
               /\ current' \in Candidates(st, current)
               /\ state' = Switched(st, current, current')
    BY <1>2 DEF WakeAndSwitch
  <2> DEFINE st == Entering(Unblocked(state, W), current, s)
  <2>2. st = [t \in Task |-> IF t = current THEN s
                             ELSE IF t \in W THEN "READY" ELSE state[t]]
    BY DEF Entering, Unblocked
  <2>3. st \in [Task -> State]
    BY <2>1, <2>2
  <2>4. \A t \in Task : st[t] = "RUNNING" => t = current
    BY <2>2
  <2>5. st[Idle] \in {"READY", "RUNNING"}
    BY <2>1, <2>2
  <2> HIDE DEF st
  <2>6. /\ current' \in Task
        /\ \/ st[current'] = "READY" /\ current' # current
           \/ current' = Idle
    BY <2>1, <2>3, CandidatesCanRun DEF st
  <2>7. state' = [t \in Task |-> IF t = current' THEN "RUNNING"
                                 ELSE IF t = current /\ st[t] = "RUNNING"
                                 THEN "READY" ELSE st[t]]
    BY <2>1 DEF Switched, st
  <2> QED BY <2>3, <2>4, <2>5, <2>6, <2>7
<1>3. CASE Create
  BY <1>3 DEF Create
<1>4. CASE Reap
  BY <1>4 DEF Reap
<1>5. CASE UNCHANGED taskVars
  BY <1>5 DEF taskVars
<1> QED BY <1>1, <1>2, <1>3, <1>4, <1>5 DEF TaskNext

(***************************************************************************)
(* One running task, the current one, and an idle task that can always be  *)
(* picked: for every table, and for every scheduler that implements        *)
(* TaskSpec (schedule(), task.c:210-234).                                  *)
(***************************************************************************)
THEOREM TaskSafety == TaskSpec => [](TaskTypeOK /\ RunningIsCurrent /\ IdleIsRunnable)
<1>1. TaskInit => TaskInv
  BY InitTaskInv
<1>2. TaskInv /\ [TaskNext]_taskVars => TaskInv'
  BY StepTaskInv
<1>3. TaskInv => TaskTypeOK /\ RunningIsCurrent /\ IdleIsRunnable
  BY DEF TaskInv
<1> QED BY <1>1, <1>2, <1>3, PTL DEF TaskSpec

-----------------------------------------------------------------------------
(***************************************************************************)
(* A call of schedule() by the current task, which enters state s, when    *)
(* the tasks of W have been woken.                                         *)
(***************************************************************************)
Reschedules(W, s) ==
    LET st == Entering(Unblocked(state, W), current, s)
    IN  /\ current' \in Candidates(st, current)
        /\ state' = Switched(st, current, current')

LEMMA RescheduleStates ==
    ASSUME TaskInv, current \in Task, NEW W \in SUBSET Waiters(state),
           NEW s \in {"RUNNING", "BLOCKED"}, s # "RUNNING" => current # Idle,
           Reschedules(W, s)
    PROVE  /\ TaskNext
           /\ current' \in Task
           /\ \A t \in Task : state'[t] = "BLOCKED"
                 <=> IF t = current THEN s = "BLOCKED"
                     ELSE state[t] = "BLOCKED" /\ t \notin W
<1> DEFINE st == Entering(Unblocked(state, W), current, s)
<1>1. /\ st = [t \in Task |-> IF t = current THEN s
                              ELSE IF t \in W THEN "READY" ELSE state[t]]
      /\ state \in [Task -> State]
      /\ st[Idle] \in {"READY", "RUNNING"}
  BY TaskAssumption DEF Entering, Unblocked, TaskTypeOK, TaskInv, IdleIsRunnable
<1>2. st \in [Task -> State]
  BY <1>1 DEF State, Sleeping
<1> HIDE DEF st
<1>3. /\ current' \in Candidates(st, current)
      /\ state' = Switched(st, current, current')
  BY DEF Reschedules, st
<1>4. st[Idle] \notin Sleeping
  BY <1>1 DEF Sleeping
<1>5. current' \in Task
  BY <1>1, <1>2, <1>3, CandidatesCanRun
<1>6. \A t \in Task : state'[t] = "BLOCKED" <=> st[t] = "BLOCKED"
  BY <1>1, <1>2, <1>3, <1>4, SwitchKeepsWaits DEF Sleeping
<1>7. WakeAndSwitch
  BY <1>1, <1>3, TaskAssumption DEF st, WakeAndSwitch, Sleeping
<1> QED BY <1>1, <1>5, <1>6, <1>7 DEF TaskNext

\* The current task blocks and nobody is woken.
LEMMA BlockStates ==
    ASSUME TaskInv, current \in Task, current # Idle,
           current' \in Candidates(Entering(state, current, "BLOCKED"), current),
           state' = Switched(Entering(state, current, "BLOCKED"), current, current')
    PROVE  /\ TaskNext /\ current' \in Task
           /\ \A t \in Task : state'[t] = "BLOCKED"
                                <=> t = current \/ state[t] = "BLOCKED"
<1>1. state = Unblocked(state, {}) /\ {} \in SUBSET Waiters(state)
  BY DEF TaskInv, TaskTypeOK, Unblocked
<1>2. Reschedules({}, "BLOCKED")
  BY <1>1 DEF Reschedules
<1> QED BY <1>1, <1>2, RescheduleStates

\* The current task wakes others and yields.
LEMMA YieldStates ==
    ASSUME TaskInv, current \in Task, NEW W \in SUBSET Waiters(state),
           current' \in Candidates(Unblocked(state, W), current),
           state' = Switched(Unblocked(state, W), current, current')
    PROVE  /\ TaskNext /\ current' \in Task
           /\ \A t \in Task : state'[t] = "BLOCKED"
                                <=> state[t] = "BLOCKED" /\ t \notin W
<1>1. state[current] = "RUNNING" /\ current \notin W
  BY DEF TaskInv, RunningIsCurrent, Waiters, Sleeping
<1>2. Unblocked(state, W) = Entering(Unblocked(state, W), current, "RUNNING")
  BY <1>1 DEF Unblocked, Entering
<1>3. Reschedules(W, "RUNNING")
  BY <1>2 DEF Reschedules
<1> QED BY <1>1, <1>3, RescheduleStates

\* An interrupt, or the current task, wakes a task and returns.
LEMMA WokenStates ==
    ASSUME TaskInv, NEW t \in Waiters(state), state' = Unblocked(state, {t}),
           UNCHANGED current
    PROVE  /\ TaskNext
           /\ state'[t] = "READY"
           /\ \A u \in Task : state'[u] = "BLOCKED" <=> state[u] = "BLOCKED" /\ u # t
<1>1. t \in Task /\ {t} \in (SUBSET Waiters(state)) \ {{}}
  BY DEF Waiters
<1>2. WakeAndReturn
  BY <1>1 DEF WakeAndReturn
<1> QED BY <1>1, <1>2 DEF TaskNext, Unblocked

-----------------------------------------------------------------------------
(***************************************************************************)
(* The elements of a list after a node has been linked at position k       *)
(* (list_insert_before, list.c:13-20).                                     *)
(***************************************************************************)
LEMMA InsertAtElements ==
    ASSUME NEW S, NEW list \in Seq(S), NEW node \in S,
           NEW k \in 1..(Len(list) + 1)
    PROVE  /\ InsertAt(list, k, node) \in Seq(S)
           /\ Len(InsertAt(list, k, node)) = Len(list) + 1
           /\ \A i \in 1..(Len(list) + 1) :
                 InsertAt(list, k, node)[i] = IF i < k THEN list[i]
                                              ELSE IF i = k THEN node
                                              ELSE list[i - 1]
<1> DEFINE front == SubSeq(list, 1, k - 1)
           back == SubSeq(list, k, Len(list))
<1>1. /\ front \in Seq(S) /\ Len(front) = k - 1
      /\ \A i \in 1..(k - 1) : front[i] = list[i]
  BY SubSeqProperties
<1>2. /\ back \in Seq(S) /\ Len(back) = Len(list) - k + 1
      /\ \A i \in 1..(Len(list) - k + 1) : back[i] = list[k + i - 1]
  BY SubSeqProperties
<1>3. /\ front \o <<node>> \in Seq(S) /\ Len(front \o <<node>>) = k
      /\ \A i \in 1..(k - 1) : (front \o <<node>>)[i] = list[i]
      /\ (front \o <<node>>)[k] = node
  <2> HIDE DEF front
  <2> QED BY <1>1
<1> HIDE DEF front, back
<1>4. /\ (front \o <<node>>) \o back \in Seq(S)
      /\ Len((front \o <<node>>) \o back) = Len(list) + 1
      /\ \A i \in 1..(Len(list) + 1) :
            ((front \o <<node>>) \o back)[i]
               = IF i <= k THEN (front \o <<node>>)[i] ELSE back[i - k]
  BY <1>2, <1>3
<1>5. InsertAt(list, k, node) = (front \o <<node>>) \o back
  BY DEF InsertAt, front, back
<1>6. ASSUME NEW i \in 1..(Len(list) + 1)
      PROVE  ((front \o <<node>>) \o back)[i] = IF i < k THEN list[i]
                                                ELSE IF i = k THEN node
                                                ELSE list[i - 1]
  <2>1. CASE i <= k
    BY <2>1, <1>3, <1>4
  <2>2. CASE i > k
    <3>1. i - k \in 1..(Len(list) - k + 1) /\ ~(i <= k)
      BY <2>2
    <3>2. back[i - k] = list[k + (i - k) - 1] /\ k + (i - k) - 1 = i - 1
      BY <3>1, <1>2
    <3>3. ((front \o <<node>>) \o back)[i] = back[i - k]
      BY <3>1, <1>4
    <3>4. list[k + (i - k) - 1] = list[i - 1]
      BY <3>2
    <3>5. ~(i < k) /\ i # k
      BY <2>2
    <3> QED BY ONLY <3>2, <3>3, <3>4, <3>5
  <2>3. i <= k \/ i > k
    OBVIOUS
  <2> QED BY ONLY <2>1, <2>2, <2>3
<1> QED BY <1>4, <1>5, <1>6

\* The elements of a list after the node at position k has been unlinked.
LEMMA RemoveAtElements ==
    ASSUME NEW S, NEW list \in Seq(S), NEW k \in 1..Len(list)
    PROVE  /\ RemoveAt(list, k) \in Seq(S)
           /\ Len(RemoveAt(list, k)) = Len(list) - 1
           /\ \A i \in 1..(Len(list) - 1) :
                 RemoveAt(list, k)[i] = IF i < k THEN list[i] ELSE list[i + 1]
<1> DEFINE front == SubSeq(list, 1, k - 1)
           back == SubSeq(list, k + 1, Len(list))
<1>1. /\ front \in Seq(S) /\ Len(front) = k - 1
      /\ \A i \in 1..(k - 1) : front[i] = list[i]
  BY SubSeqProperties
<1>2. /\ back \in Seq(S) /\ Len(back) = Len(list) - k
      /\ \A i \in 1..(Len(list) - k) : back[i] = list[k + i]
  BY SubSeqProperties
<1> HIDE DEF front, back
<1>3. /\ front \o back \in Seq(S)
      /\ Len(front \o back) = Len(list) - 1
      /\ \A i \in 1..(Len(list) - 1) :
            (front \o back)[i] = IF i < k THEN front[i] ELSE back[i - (k - 1)]
  <2>1. Len(front \o back) = Len(front) + Len(back)
    BY <1>1, <1>2, ConcatProperties
  <2>2. \A i \in 1..Len(front) : (front \o back)[i] = front[i]
    BY <1>1, <1>2, ConcatProperties
  <2>3. \A i \in (Len(front) + 1)..(Len(front) + Len(back)) :
           (front \o back)[i] = back[i - Len(front)]
    BY <1>1, <1>2, ConcatProperties
  <2>4. front \o back \in Seq(S)
    BY <1>1, <1>2, ConcatProperties
  <2> QED BY <2>1, <2>2, <2>3, <2>4, <1>1, <1>2
<1>4. RemoveAt(list, k) = front \o back
  BY DEF RemoveAt, front, back
<1>5. ASSUME NEW i \in 1..(Len(list) - 1)
      PROVE  (front \o back)[i] = IF i < k THEN list[i] ELSE list[i + 1]
  <2>1. CASE i < k
    BY <2>1, <1>1, <1>3
  <2>2. CASE i >= k
    <3>1. i - (k - 1) \in 1..(Len(list) - k) /\ ~(i < k)
      BY <2>2
    <3>2. /\ back[i - (k - 1)] = list[k + (i - (k - 1))]
          /\ k + (i - (k - 1)) = i + 1
      BY <3>1, <1>2
    <3>3. (front \o back)[i] = back[i - (k - 1)]
      BY <3>1, <1>3
    <3>4. list[k + (i - (k - 1))] = list[i + 1]
      BY <3>2
    <3> QED BY ONLY <3>1, <3>2, <3>3, <3>4
  <2>3. i < k \/ i >= k
    OBVIOUS
  <2> QED BY ONLY <2>1, <2>2, <2>3
<1> QED BY <1>3, <1>4, <1>5

(***************************************************************************)
(* Linking a node that is in no list keeps the list free of duplicates and *)
(* adds that node alone (list_insert_sort, list_push).                     *)
(***************************************************************************)
LEMMA InsertLinks ==
    ASSUME NEW S, NEW list \in Seq(S), NEW node \in S,
           NEW k \in 1..(Len(list) + 1),
           IsInjective(list), ~Linked(list, node)
    PROVE  /\ IsInjective(InsertAt(list, k, node))
           /\ \A n : Linked(InsertAt(list, k, node), n)
                        <=> Linked(list, n) \/ n = node
<1> DEFINE new == InsertAt(list, k, node)
           Old(i) == IF i < k THEN i ELSE i - 1
<1>1. /\ new \in Seq(S)
      /\ DOMAIN new = 1..(Len(list) + 1)
      /\ DOMAIN list = 1..Len(list)
      /\ \A i \in 1..(Len(list) + 1) :
            new[i] = IF i < k THEN list[i] ELSE IF i = k THEN node
                     ELSE list[i - 1]
  BY InsertAtElements
<1> HIDE DEF new
<1>2. \A i \in DOMAIN new : i # k => /\ Old(i) \in DOMAIN list
                                     /\ new[i] = list[Old(i)]
                                     /\ new[i] # node
  BY <1>1 DEF Linked
<1>3. new[k] = node
  BY <1>1
<1>4. IsInjective(new)
  <2> SUFFICES ASSUME NEW a \in DOMAIN new, NEW b \in DOMAIN new,
                      new[a] = new[b], a # b
               PROVE  FALSE
    BY DEF IsInjective
  <2>1. a # k /\ b # k
    BY <1>2, <1>3
  <2>2. Old(a) = Old(b)
    BY <2>1, <1>2 DEF IsInjective
  <2> QED BY <2>1, <2>2, <1>1
<1>5. ASSUME NEW n
      PROVE  Linked(new, n) <=> Linked(list, n) \/ n = node
  <2>1. Linked(new, n) => Linked(list, n) \/ n = node
    BY <1>2, <1>3 DEF Linked
  <2>2. ASSUME NEW j \in DOMAIN list, list[j] = n
        PROVE  Linked(new, n)
    <3>1. CASE j < k
      BY <2>2, <3>1, <1>1 DEF Linked
    <3>2. CASE j >= k
      <4>1. j + 1 \in DOMAIN new /\ new[j + 1] = list[j]
        BY <3>2, <1>1
      <4> QED BY <4>1, <2>2 DEF Linked
    <3> QED BY <3>1, <3>2, <1>1
  <2>3. Linked(new, node)
    BY <1>1, <1>3 DEF Linked
  <2> QED BY <2>1, <2>2, <2>3 DEF Linked
<1> QED BY <1>4, <1>5 DEF new

(***************************************************************************)
(* Unlinking a node (list_remove, list.c:75-85) takes that node alone out  *)
(* of the list.                                                            *)
(***************************************************************************)
LEMMA RemoveUnlinks ==
    ASSUME NEW S, NEW list \in Seq(S), NEW node,
           IsInjective(list), Linked(list, node)
    PROVE  /\ list_remove(list, node) \in Seq(S)
           /\ IsInjective(list_remove(list, node))
           /\ Len(list_remove(list, node)) = Len(list) - 1
           /\ \A n : Linked(list_remove(list, node), n)
                        <=> Linked(list, n) /\ n # node
<1> DEFINE k == CHOOSE i \in DOMAIN list : list[i] = node
           new == RemoveAt(list, k)
           Old(i) == IF i < k THEN i ELSE i + 1
<1>1. k \in 1..Len(list) /\ list[k] = node
  BY DEF Linked
<1> HIDE DEF k
<1>2. /\ new \in Seq(S)
      /\ DOMAIN new = 1..(Len(list) - 1)
      /\ Len(new) = Len(list) - 1
      /\ DOMAIN list = 1..Len(list)
      /\ \A i \in 1..(Len(list) - 1) :
            new[i] = IF i < k THEN list[i] ELSE list[i + 1]
  BY <1>1, RemoveAtElements
<1> HIDE DEF new
<1>3. \A i \in DOMAIN new : /\ Old(i) \in DOMAIN list
                            /\ Old(i) # k
                            /\ new[i] = list[Old(i)]
  BY <1>1, <1>2
<1>4. IsInjective(new)
  <2> SUFFICES ASSUME NEW a \in DOMAIN new, NEW b \in DOMAIN new,
                      new[a] = new[b]
               PROVE  a = b
    BY DEF IsInjective
  <2>1. Old(a) = Old(b)
    BY <1>3 DEF IsInjective
  <2> QED BY <2>1, <1>1, <1>2
<1>5. ASSUME NEW n
      PROVE  Linked(new, n) <=> Linked(list, n) /\ n # node
  <2>1. Linked(new, n) => Linked(list, n) /\ n # node
    BY <1>1, <1>2, <1>3 DEF Linked, IsInjective
  <2>2. ASSUME NEW j \in DOMAIN list, list[j] = n, n # node
        PROVE  Linked(new, n)
    <3>1. CASE j < k
      <4>1. j \in DOMAIN new /\ new[j] = list[j]
        BY <3>1, <1>1, <1>2
      <4> QED BY <4>1, <2>2 DEF Linked
    <3>2. CASE j > k
      <4>1. j - 1 \in DOMAIN new /\ new[j - 1] = list[j]
        BY <3>2, <1>1, <1>2
      <4> QED BY <4>1, <2>2 DEF Linked
    <3> QED BY <3>1, <3>2, <2>2, <1>1, <1>2
  <2> QED BY <2>1, <2>2 DEF Linked
<1> QED BY <1>2, <1>4, <1>5 DEF list_remove, new, k

(***************************************************************************)
(* What is left of a list after its first n nodes have been unlinked, as   *)
(* task_wakeup does (task.c:165-184).                                      *)
(***************************************************************************)
LEMMA DropElements ==
    ASSUME NEW S, NEW list \in Seq(S), NEW n \in 0..Len(list)
    PROVE  /\ SubSeq(list, n + 1, Len(list)) \in Seq(S)
           /\ DOMAIN SubSeq(list, n + 1, Len(list)) = 1..(Len(list) - n)
           /\ \A i \in 1..(Len(list) - n) :
                 SubSeq(list, n + 1, Len(list))[i] = list[n + i]
BY SubSeqProperties

LEMMA DropUnlinks ==
    ASSUME NEW S, NEW list \in Seq(S), NEW n \in 0..Len(list),
           IsInjective(list)
    PROVE  /\ IsInjective(SubSeq(list, n + 1, Len(list)))
           /\ \A x : Linked(SubSeq(list, n + 1, Len(list)), x)
                        <=> Linked(list, x) /\ x \notin {list[i] : i \in 1..n}
<1> DEFINE new == SubSeq(list, n + 1, Len(list))
<1>1. /\ DOMAIN new = 1..(Len(list) - n)
      /\ DOMAIN list = 1..Len(list)
      /\ \A i \in 1..(Len(list) - n) : new[i] = list[n + i]
  BY DropElements
<1> HIDE DEF new
<1>2. IsInjective(new)
  BY <1>1 DEF IsInjective
<1>3. ASSUME NEW x
      PROVE  Linked(new, x) <=> Linked(list, x) /\ x \notin {list[i] : i \in 1..n}
  <2>1. ASSUME NEW j \in DOMAIN new, new[j] = x
        PROVE  Linked(list, x) /\ x \notin {list[i] : i \in 1..n}
    <3>1. n + j \in DOMAIN list /\ list[n + j] = x
      BY <1>1, <2>1
    <3>2. \A i \in 1..n : i \in DOMAIN list /\ i # n + j
      BY <1>1
    <3> QED BY <3>1, <3>2 DEF Linked, IsInjective
  <2>2. ASSUME NEW j \in DOMAIN list, list[j] = x,
               x \notin {list[i] : i \in 1..n}
        PROVE  Linked(new, x)
    <3>1. j > n
      BY <2>2, <1>1
    <3>2. j - n \in DOMAIN new /\ new[j - n] = list[j]
      BY <3>1, <1>1
    <3> QED BY <3>2, <2>2 DEF Linked
  <2> QED BY <2>1, <2>2 DEF Linked
<1> QED BY <1>2, <1>3 DEF new
=============================================================================
