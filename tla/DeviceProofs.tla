---------------------------- MODULE DeviceProofs ----------------------------
(***************************************************************************)
(* Theorems about Device, for every number of tasks, disks and requests.   *)
(* One request of a disk is served at a time only because the lists are    *)
(* sorted and the task that ends a request wakes exactly the one that      *)
(* waits at the next place; no interrupt is lost only because the lock of  *)
(* the controller is held while the drive is busy.  DeviceInv says so in   *)
(* three parts: the tasks, the lists, and the controller.                  *)
(***************************************************************************)
EXTENDS Device, Console, TaskProofs

Label == {"user", "do_request", "ide_lock", "ide_pio", "ide_done"}

KernelOK ==
    /\ TaskInv
    /\ current \in Task
    /\ pc \in [Task -> Label]
    /\ pc[Idle] = "user"

\* The tasks that wait for their turn on a disk.
Queued(t) == pc[t] = "do_request" /\ state[t] = "BLOCKED"

ListsType ==
    /\ req \in [Task -> Request \cup {NoRequest}]
    /\ reqTask \in [Task -> Task \cup {Boot}]
    /\ request_list \in [Disk -> Seq(Task)]
    /\ direct \in [Disk -> {"DIRECT_UP", "DIRECT_DOWN"}]

\* A list is in the order of the sectors.
Sorted ==
    \A d \in Disk : \A i, j \in DOMAIN request_list[d] :
       i < j => req[request_list[d][i]].idx <= req[request_list[d][j]].idx

ListsOK ==
    /\ ListsType
    /\ \A t \in Task : /\ req[t] = NoRequest <=> pc[t] = "user"
                       /\ Queued(t) => reqTask[t] = t
    /\ Sorted
    /\ OneServed

ControllerType ==
    /\ holder \in Task \cup {Boot} /\ waiters \in Seq(Task)
    /\ waiter \in Task \cup {Boot}
    /\ drive \in [disk : Disk, lba : Nat, left : Nat,
                  type : {"REQ_READ", "REQ_WRITE"}, phase : {"idle", "busy", "data"}]
    /\ irq \in BOOLEAN
    /\ got \in [Task -> Seq(Disk \X Nat)]

\* The lock is held in the loop over the sectors, and waited for.
LockOK ==
    /\ \A t \in Task : holder = t <=> pc[t] = "ide_pio"
    /\ IsInjective(waiters)
    /\ \A t \in Task : Linked(waiters, t) <=> pc[t] = "ide_lock" /\ state[t] = "BLOCKED"

\* The drive is busy, or interrupts, exactly when its waiter is set.
WaiterOK ==
    /\ \A t \in Task : pc[t] = "ide_pio" /\ state[t] = "BLOCKED" <=> waiter = t
    /\ waiter # Boot <=> drive.phase = "busy" \/ irq
    /\ ~(drive.phase = "busy" /\ irq)

\* The drive has moved the first sectors of r and is at the next one.
Transfers(r, moved) ==
    /\ drive.disk = r.disk /\ drive.type = r.type
    /\ drive.lba = r.idx + Len(moved)
    /\ drive.left + Len(moved) = r.count
    /\ r.type = "REQ_READ" => drive.left > 0

TransfersOK ==
    \A t \in Task :
       /\ pc[t] \in {"user", "do_request", "ide_lock"} => got[t] = <<>>
       /\ pc[t] = "ide_pio" => Transfers(req[t], got[t])
       /\ pc[t] = "ide_done" => Len(got[t]) = req[t].count

ControllerOK == ControllerType /\ LockOK /\ WaiterOK /\ TransfersOK

DeviceInv == KernelOK /\ ListsOK /\ ControllerOK

LEMMA RequestType ==
    ASSUME NEW r \in Request
    PROVE  /\ r.disk \in Disk /\ r.idx \in Nat /\ r.count \in Nat \ {0}
           /\ r.type \in {"REQ_READ", "REQ_WRITE"} /\ r # NoRequest
BY DeviceAssumption

\* Who is served depends on who is in a list and who waits there.
LEMMA ServedAre ==
    ASSUME NEW d \in Disk
    PROVE  /\ Served(d) = {t \in Task : Linked(request_list[d], t) /\ ~Queued(t)}
           /\ Served(d)' = {t \in Task : Linked(request_list'[d], t) /\ ~Queued(t)'}
BY DEF Served, Queued

LEMMA QuietLists ==
    ASSUME ListsOK, UNCHANGED lists,
           \A t \in Task : /\ pc'[t] = "user" <=> pc[t] = "user"
                           /\ Queued(t)' <=> Queued(t)
    PROVE  ListsOK'
<1> USE DEF lists
<1>1. \A d \in Disk : Served(d)' = Served(d)
  BY ServedAre
<1>2. OneServed'
  BY <1>1 DEF ListsOK, OneServed
<1>3. Sorted' /\ ListsType'
  BY DEF ListsOK, Sorted, ListsType
<1> QED BY <1>2, <1>3 DEF ListsOK

-----------------------------------------------------------------------------
\* list_insert_sort keeps the order of the sectors.
LEMMA InsertKeepsOrder ==
    ASSUME NEW list \in Seq(Task), NEW key \in [Task -> Nat], NEW t \in Task,
           NEW k, InsertPosition([i \in DOMAIN list |-> key[list[i]]], key[t], k),
           \A i, j \in DOMAIN list : i < j => key[list[i]] <= key[list[j]]
    PROVE  /\ k \in 1..(Len(list) + 1)
           /\ \A i, j \in DOMAIN InsertAt(list, k, t) :
                 i < j => key[InsertAt(list, k, t)[i]] <= key[InsertAt(list, k, t)[j]]
<1> DEFINE keys == [i \in DOMAIN list |-> key[list[i]]]
           new == InsertAt(list, k, t)
<1>1. DOMAIN list = 1..Len(list) /\ Len(list) \in Nat
  OBVIOUS
<1>2. keys \in Seq(Nat) /\ Len(keys) = Len(list)
  <2>1. \A i \in DOMAIN list : key[list[i]] \in Nat
    BY <1>1
  <2>2. keys \in [1..Len(list) -> Nat]
    BY <1>1, <2>1
  <2>3. keys \in Seq(Nat)
    BY <1>1, <2>2, IsASeq
  <2> HIDE DEF keys
  <2> QED BY <1>1, <2>2, <2>3
<1>3. /\ k \in 1..(Len(list) + 1)
      /\ \A i \in 1..(k - 1) : keys[i] <= key[t]
      /\ k <= Len(list) => keys[k] > key[t]
  BY <1>2 DEF InsertPosition
<1>4. /\ new \in Seq(Task) /\ DOMAIN new = 1..(Len(list) + 1)
      /\ \A i \in 1..(Len(list) + 1) :
            new[i] = IF i < k THEN list[i] ELSE IF i = k THEN t ELSE list[i - 1]
  <2>1. k \in 1..(Len(list) + 1) /\ list \in Seq(Task) /\ t \in Task
    BY <1>3
  <2>2. /\ new \in Seq(Task) /\ Len(new) = Len(list) + 1
        /\ \A i \in 1..(Len(list) + 1) :
              new[i] = IF i < k THEN list[i] ELSE IF i = k THEN t ELSE list[i - 1]
    BY ONLY <2>1, InsertAtElements
  <2> HIDE DEF new
  <2> QED BY <2>2
<1> HIDE DEF new
<1>5. \A i \in 1..Len(list) : keys[i] = key[list[i]] /\ keys[i] \in Nat
  BY <1>1, <1>2
<1>6. \A i, j \in 1..Len(list) : i < j => keys[i] <= keys[j]
  BY <1>1, <1>5
<1> HIDE DEF keys
<1> SUFFICES ASSUME NEW i \in DOMAIN new, NEW j \in DOMAIN new, i < j
             PROVE  key[new[i]] <= key[new[j]]
  BY <1>3 DEF new
<1>7. PICK len \in Nat : len = Len(list)
  BY <1>1
<1>8. /\ k \in 1..(len + 1) /\ i \in 1..(len + 1) /\ j \in 1..(len + 1)
      /\ \A m \in 1..(len + 1) :
            new[m] = IF m < k THEN list[m] ELSE IF m = k THEN t ELSE list[m - 1]
      /\ \A m \in 1..len : keys[m] = key[list[m]] /\ keys[m] \in Nat
      /\ \A m, n \in 1..len : m < n => keys[m] <= keys[n]
      /\ \A m \in 1..(k - 1) : keys[m] <= key[t]
      /\ k <= len => keys[k] > key[t]
      /\ key[t] \in Nat
  <2>1. k \in 1..(len + 1) /\ i \in 1..(len + 1) /\ j \in 1..(len + 1)
    BY <1>3, <1>4, <1>7
  <2>2. \A m \in 1..(len + 1) :
            new[m] = IF m < k THEN list[m] ELSE IF m = k THEN t ELSE list[m - 1]
    BY ONLY <1>4, <1>7
  <2>3. /\ \A m \in 1..len : keys[m] = key[list[m]] /\ keys[m] \in Nat
        /\ \A m, n \in 1..len : m < n => keys[m] <= keys[n]
    BY ONLY <1>5, <1>6, <1>7
  <2>4. /\ \A m \in 1..(k - 1) : keys[m] <= key[t]
        /\ k <= len => keys[k] > key[t]
    BY ONLY <1>3, <1>7
  <2>5. key[t] \in Nat
    BY <1>1
  <2> QED BY ONLY <2>1, <2>2, <2>3, <2>4, <2>5
<1>9. CASE j < k
  <2>1. i \in 1..len /\ j \in 1..len /\ i < k
    BY ONLY <1>8, <1>9, len \in Nat, i < j
  <2>2. new[i] = list[i] /\ new[j] = list[j]
    BY ONLY <1>8, <1>9, <2>1
  <2>3. key[list[i]] = keys[i] /\ key[list[j]] = keys[j] /\ keys[i] <= keys[j]
    BY ONLY <1>8, <2>1, i < j
  <2> QED BY ONLY <2>2, <2>3
<1>10. CASE j = k
  <2>1. i \in 1..len /\ i < k /\ i \in 1..(k - 1) /\ ~(j < k)
    BY ONLY <1>8, <1>10, len \in Nat, i < j
  <2> QED BY ONLY <1>8, <1>10, <2>1
<1>11. CASE j > k
  <2>1. j - 1 \in 1..len /\ k \in 1..len /\ ~(j < k) /\ j # k /\ (k = j - 1 \/ k < j - 1)
    BY ONLY <1>8, <1>11, len \in Nat
  <2>2. key[new[j]] = keys[j - 1] /\ keys[j - 1] \in Nat /\ key[t] <= keys[j - 1]
    <3>1. new[j] = list[j - 1] /\ keys[j - 1] = key[list[j - 1]] /\ keys[j - 1] \in Nat
      BY ONLY <1>8, <2>1
    <3>2. keys[k] <= keys[j - 1] /\ keys[k] \in Nat
      BY ONLY <1>8, <2>1
    <3>3. key[t] < keys[k]
      BY ONLY <1>8, <2>1, <3>2
    <3> QED BY ONLY <3>1, <3>2, <3>3, <1>8
  <2>3. CASE i < k
    <3>1. i \in 1..len /\ i \in 1..(k - 1)
      BY ONLY <1>8, <2>3, len \in Nat
    <3>2. key[new[i]] = keys[i] /\ keys[i] <= key[t] /\ keys[i] \in Nat
      BY ONLY <1>8, <2>3, <3>1
    <3> QED BY ONLY <1>8, <2>2, <3>2
  <2>4. CASE i = k
    <3>1. new[i] = t
      BY ONLY <1>8, <2>4
    <3> QED BY ONLY <2>2, <3>1
  <2>5. CASE i > k
    <3>1. i - 1 \in 1..len /\ i - 1 < j - 1 /\ ~(i < k) /\ i # k
      BY ONLY <1>8, <2>5, i < j, len \in Nat
    <3>2. key[new[i]] = keys[i - 1]
      BY ONLY <1>8, <3>1
    <3> QED BY ONLY <1>8, <2>1, <2>2, <3>1, <3>2
  <2> QED BY ONLY <1>8, <2>3, <2>4, <2>5
<1> QED BY ONLY <1>8, <1>9, <1>10, <1>11

\* And so does list_remove.
LEMMA RemoveKeepsOrder ==
    ASSUME NEW list \in Seq(Task), NEW key \in [Task -> Nat], NEW t \in Task,
           Linked(list, t),
           \A i, j \in DOMAIN list : i < j => key[list[i]] <= key[list[j]]
    PROVE  \A i, j \in DOMAIN list_remove(list, t) :
              i < j => key[list_remove(list, t)[i]] <= key[list_remove(list, t)[j]]
<1> DEFINE k == CHOOSE i \in DOMAIN list : list[i] = t
           new == RemoveAt(list, k)
           Old(i) == IF i < k THEN i ELSE i + 1
<1>1. k \in 1..Len(list) /\ DOMAIN list = 1..Len(list) /\ Len(list) \in Nat
  BY DEF Linked
<1> HIDE DEF k
<1>2. /\ DOMAIN new = 1..(Len(list) - 1)
      /\ \A i \in 1..(Len(list) - 1) :
            new[i] = IF i < k THEN list[i] ELSE list[i + 1]
  <2>1. /\ new \in Seq(Task) /\ Len(new) = Len(list) - 1
        /\ \A i \in 1..(Len(list) - 1) :
              new[i] = IF i < k THEN list[i] ELSE list[i + 1]
    BY <1>1, RemoveAtElements
  <2> HIDE DEF new
  <2> QED BY ONLY <2>1, <1>1
<1> HIDE DEF new
<1>3. \A i, j \in DOMAIN new :
         /\ Old(i) \in DOMAIN list /\ new[i] = list[Old(i)]
         /\ i < j => Old(i) < Old(j)
  <2>1. PICK len \in Nat : len = Len(list)
    BY <1>1
  <2>2. /\ k \in 1..len /\ DOMAIN list = 1..len /\ DOMAIN new = 1..(len - 1)
        /\ \A i \in 1..(len - 1) : new[i] = IF i < k THEN list[i] ELSE list[i + 1]
    BY ONLY <1>1, <1>2, <2>1
  <2>3. \A i \in 1..(len - 1) : Old(i) \in 1..len /\ new[i] = list[Old(i)]
    BY ONLY <2>2, len \in Nat DEF Old
  <2>4. \A i, j \in 1..(len - 1) : i < j => Old(i) < Old(j)
    BY ONLY <2>2, len \in Nat DEF Old
  <2> HIDE DEF Old
  <2> QED BY ONLY <2>2, <2>3, <2>4
<1>4. \A i, j \in DOMAIN new : i < j => key[new[i]] <= key[new[j]]
  BY <1>3
<1> QED BY <1>4 DEF list_remove, new, k

-----------------------------------------------------------------------------
\* The sector where the request of a task begins.
Sector(u) == IF req[u] \in Request THEN req[u].idx ELSE 0

LEMMA ListTasks ==
    ASSUME ListsOK, NEW d \in Disk
    PROVE  /\ request_list[d] \in Seq(Task) /\ IsInjective(request_list[d])
           /\ \A u : Linked(request_list[d], u)
                 => /\ u \in Task /\ pc[u] # "user" /\ req[u] \in Request
                    /\ req[u].disk = d /\ Sector(u) = req[u].idx
<1>1. request_list[d] \in Seq(Task) /\ IsInjective(request_list[d])
  BY DEF ListsOK, ListsType, OneServed
<1>2. ASSUME NEW u, Linked(request_list[d], u)
      PROVE  /\ u \in Task /\ pc[u] # "user" /\ req[u] \in Request
             /\ req[u].disk = d /\ Sector(u) = req[u].idx
  <2>1. u \in Task
    BY <1>1, <1>2 DEF Linked
  <2>2. pc[u] # "user" /\ req[u].disk = d
    BY <1>2, <2>1 DEF ListsOK, OneServed
  <2>3. req[u] \in Request
    BY <2>1, <2>2 DEF ListsOK, ListsType
  <2> QED BY <2>1, <2>2, <2>3 DEF Sector
<1> QED BY <1>1, <1>2


\* device_request links a request: it is served at once if it is alone.
LEMMA RequestLists ==
    ASSUME KernelOK, ListsOK, NEW t \in Task, device_request(t),
           pc' = [pc EXCEPT ![t] = "do_request"],
           \A u \in Task : state'[u] = "BLOCKED" <=>
              \/ state[u] = "BLOCKED"
              \/ u = t /\ reqTask'[t] = t
    PROVE  ListsOK'
<1>1. PICK r \in Request :
         LET list == request_list[r.disk]
             keys == [i \in DOMAIN list |-> req[list[i]].idx]
         IN  /\ req' = [req EXCEPT ![t] = r]
             /\ \E k \in 1..(Len(list) + 1) :
                   /\ InsertPosition(keys, r.idx, k)
                   /\ request_list' = [request_list EXCEPT ![r.disk] =
                                           InsertAt(@, k, t)]
             /\ IF MustWait(list)
                THEN /\ reqTask' = [reqTask EXCEPT ![t] = t]
                     /\ schedule(Entering(state, t, "BLOCKED"))
                ELSE /\ reqTask' = [reqTask EXCEPT ![t] = Boot]
                     /\ Stay
  BY DEF device_request
<1> DEFINE e == r.disk
           list == request_list[e]
<1>2. PICK k \in 1..(Len(list) + 1) :
         /\ InsertPosition([i \in DOMAIN list |-> req[list[i]].idx], r.idx, k)
         /\ request_list' = [request_list EXCEPT ![e] = InsertAt(@, k, t)]
  BY <1>1
<1> DEFINE new == InsertAt(list, k, t)
<1>3. /\ e \in Disk /\ r.idx \in Nat /\ r # NoRequest
      /\ req' = [req EXCEPT ![t] = r] /\ UNCHANGED direct
      /\ pc[t] = "user" /\ t = current /\ state[t] = "RUNNING"
  BY <1>1, RequestType DEF device_request, KernelOK, TaskInv, RunningIsCurrent
<1>4. /\ list \in Seq(Task) /\ IsInjective(list)
      /\ \A u : Linked(list, u)
            => /\ u \in Task /\ u # t /\ pc[u] # "user" /\ req[u] \in Request
               /\ req[u].disk = e /\ Sector(u) = req[u].idx
  BY <1>3, ListTasks
<1>5. /\ request_list'[e] = new
      /\ \A d \in Disk : d # e => request_list'[d] = request_list[d]
      /\ new \in Seq(Task) /\ IsInjective(new)
      /\ \A u : Linked(new, u) <=> Linked(list, u) \/ u = t
  <2>1. ~Linked(list, t)
    BY <1>4
  <2>2. new \in Seq(Task)
    BY <1>4, InsertAtElements
  <2>3. IsInjective(new) /\ \A u : Linked(new, u) <=> Linked(list, u) \/ u = t
    BY <1>4, <2>1, InsertLinks
  <2> HIDE DEF new
  <2>4. request_list' = [request_list EXCEPT ![e] = new]
    BY <1>2 DEF new
  <2> QED BY <1>3, <2>2, <2>3, <2>4 DEF ListsOK, ListsType
<1>6. /\ reqTask'[t] \in {t, Boot}
      /\ reqTask'[t] = t <=> list # <<>>
      /\ reqTask' \in [Task -> Task \cup {Boot}]
      /\ \A u \in Task : u # t => reqTask'[u] = reqTask[u]
  <2>1. IF list # <<>> THEN reqTask' = [reqTask EXCEPT ![t] = t]
                       ELSE reqTask' = [reqTask EXCEPT ![t] = Boot]
    BY <1>1 DEF MustWait, list_empty
  <2>2. reqTask \in [Task -> Task \cup {Boot}] /\ t # Boot
    BY TaskAssumption DEF ListsOK, ListsType
  <2> HIDE DEF list
  <2> QED BY <2>1, <2>2
<1>7. \A u \in Task : /\ u # t => (Queued(u)' <=> Queued(u)) /\ pc'[u] = pc[u]
                      /\ ~Queued(t)
                      /\ Queued(t)' <=> list # <<>>
                      /\ pc'[t] = "do_request"
  BY <1>3, <1>6 DEF Queued, KernelOK
<1> HIDE DEF new, list
<1>8. ListsType'
  <2>1. request_list' = [request_list EXCEPT ![e] = new]
    BY <1>2 DEF new, list
  <2> QED BY <1>1, <1>3, <1>5, <1>6, <2>1 DEF ListsOK, ListsType
<1>9. \A u \in Task : /\ req'[u] = IF u = t THEN r ELSE req[u]
                      /\ req'[u] = NoRequest <=> pc'[u] = "user"
                      /\ Queued(u)' => reqTask'[u] = u
  BY <1>3, <1>6, <1>7 DEF ListsOK, ListsType
<1>10. Sorted'
  <2> SUFFICES ASSUME NEW d \in Disk
               PROVE  \A i, j \in DOMAIN request_list'[d] : i < j
                         => req'[request_list'[d][i]].idx <= req'[request_list'[d][j]].idx
    BY DEF Sorted
  <2>1. CASE d = e
    <3> DEFINE key == [u \in Task |-> IF u = t THEN r.idx ELSE Sector(u)]
    <3>1. key \in [Task -> Nat] /\ key[t] = r.idx
      BY <1>3, RequestType DEF Sector
    <3>2. \A i \in DOMAIN list : key[list[i]] = req[list[i]].idx
      BY <1>4 DEF Linked
    <3>3. [i \in DOMAIN list |-> key[list[i]]] = [i \in DOMAIN list |-> req[list[i]].idx]
      BY <3>2
    <3>4. InsertPosition([i \in DOMAIN list |-> key[list[i]]], key[t], k)
      BY <1>2, <3>1, <3>3 DEF list
    <3>5. \A i, j \in DOMAIN list : i < j => key[list[i]] <= key[list[j]]
      BY <1>3, <3>2 DEF ListsOK, Sorted, list
    <3> HIDE DEF key
    <3>6. \A i, j \in DOMAIN new : i < j => key[new[i]] <= key[new[j]]
      BY <1>4, <3>1, <3>4, <3>5, InsertKeepsOrder DEF new
    <3>7. \A i \in DOMAIN new : key[new[i]] = req'[new[i]].idx
      <4> SUFFICES ASSUME NEW i \in DOMAIN new PROVE key[new[i]] = req'[new[i]].idx
        OBVIOUS
      <4>1. Linked(new, new[i])
        BY DEF Linked
      <4> QED BY <1>4, <1>5, <1>9, <4>1 DEF key
    <3> QED BY <1>5, <2>1, <3>6, <3>7
  <2>2. CASE d # e
    <3>1. \A i \in DOMAIN request_list[d] : req'[request_list[d][i]] = req[request_list[d][i]]
      <4> SUFFICES ASSUME NEW i \in DOMAIN request_list[d]
                   PROVE  req'[request_list[d][i]] = req[request_list[d][i]]
        OBVIOUS
      <4>1. Linked(request_list[d], request_list[d][i])
        BY DEF Linked
      <4> QED BY <1>3, <1>9, <4>1, ListTasks
    <3> QED BY <1>5, <2>2, <3>1 DEF ListsOK, Sorted
  <2> QED BY <2>1, <2>2
<1>11. OneServed'
  <2> SUFFICES ASSUME NEW d \in Disk
               PROVE  /\ IsInjective(request_list'[d])
                      /\ \A u \in Task : Linked(request_list'[d], u)
                                            <=> pc'[u] # "user" /\ req'[u].disk = d
                      /\ request_list'[d] # <<>> => \E u \in Task : Served(d)' = {u}
    BY DEF OneServed
  <2>1. \A u \in Task : Linked(request_list[d], u) <=> pc[u] # "user" /\ req[u].disk = d
    BY DEF ListsOK, OneServed
  <2>2. CASE d = e
    <3>1. CASE list = <<>>
      <4>1. \A u : Linked(new, u) <=> u = t
        BY <1>5, <3>1 DEF Linked
      <4>2. Served(d)' = {t}
        BY <1>5, <1>7, <2>2, <3>1, <4>1, ServedAre
      <4> QED BY <1>5, <1>7, <1>9, <2>1, <2>2, <4>2 DEF list
    <3>2. CASE list # <<>>
      <4>1. Served(d)' = Served(d)
        <5>1. \A u \in Task : Linked(new, u) /\ ~Queued(u)' <=> Linked(list, u) /\ ~Queued(u)
          BY <1>4, <1>5, <1>7, <3>2
        <5>2. request_list'[d] = new /\ request_list[d] = list
          BY <1>5, <2>2 DEF list
        <5> QED BY <5>1, <5>2, ServedAre
      <4>2. \E u \in Task : Served(d) = {u}
        BY <2>2, <3>2 DEF ListsOK, OneServed, list
      <4> QED BY <1>5, <1>7, <1>9, <2>1, <2>2, <4>1, <4>2 DEF list
    <3> QED BY <3>1, <3>2
  <2>3. CASE d # e
    <3>1. ~Linked(request_list[d], t)
      BY <1>3, <2>1
    <3>2. Served(d)' = Served(d)
      <4>1. \A u \in Task : Linked(request_list[d], u) /\ ~Queued(u)'
                              <=> Linked(request_list[d], u) /\ ~Queued(u)
        BY <1>7, <3>1
      <4>2. request_list'[d] = request_list[d]
        BY <1>5, <2>3
      <4> QED BY <4>1, <4>2, ServedAre
    <3> QED BY <1>3, <1>5, <1>7, <1>9, <2>1, <2>3, <3>2 DEF ListsOK, OneServed
  <2> QED BY <2>2, <2>3
<1> QED BY <1>8, <1>9, <1>10, <1>11 DEF ListsOK

Place(list, t) == CHOOSE i \in DOMAIN list : list[i] = t

\* The place of t in its list, and that of the next request.
ListOf(t) == request_list[req[t].disk]
PlaceOf(t) == Place(ListOf(t), t)
TurnedAt(t) == Turned(ListOf(t), PlaceOf(t), direct[req[t].disk])
NextOf(t) == NextPlace(ListOf(t), PlaceOf(t), direct[req[t].disk])

(***************************************************************************)
(* request_nextreq: the next request waits for its turn; there is none     *)
(* only at the end of the last request.                                    *)
(***************************************************************************)
LEMMA NextWaits ==
    ASSUME ListsOK, NEW t \in Task, pc[t] = "ide_done"
    PROVE  /\ req[t].disk \in Disk /\ Linked(ListOf(t), t)
           /\ PlaceOf(t) \in DOMAIN ListOf(t) /\ ListOf(t)[PlaceOf(t)] = t
           /\ TurnedAt(t) \in {"DIRECT_UP", "DIRECT_DOWN"}
           /\ NextOf(t) = IF TurnedAt(t) = "DIRECT_UP" THEN PlaceOf(t) + 1
                         ELSE PlaceOf(t) - 1
           /\ NextOf(t) \in DOMAIN ListOf(t)
                 => LET u == ListOf(t)[NextOf(t)]
                    IN  u # t /\ u \in Task /\ Queued(u) /\ reqTask[u] = u
           /\ NextOf(t) \notin DOMAIN ListOf(t) => \A u : Linked(ListOf(t), u) => u = t
<1> DEFINE d == req[t].disk
           list == ListOf(t)
           k == PlaceOf(t)
           n == NextOf(t)
           dir == TurnedAt(t)
<1>1. d \in Disk /\ direct[d] \in {"DIRECT_UP", "DIRECT_DOWN"}
  <2>1. req[t] \in Request
    BY DEF ListsOK, ListsType
  <2> QED BY <2>1, RequestType DEF ListsOK, ListsType
<1>2. /\ list \in Seq(Task) /\ IsInjective(list) /\ Linked(list, t)
      /\ DOMAIN list = 1..Len(list) /\ Len(list) \in Nat
  BY <1>1, ListTasks DEF ListsOK, OneServed, ListOf
<1>3. k \in DOMAIN list /\ list[k] = t
  BY <1>2 DEF Linked, Place, PlaceOf
<1>4. \A u : Linked(list, u) => u \in Task /\ (u = t \/ Queued(u))
  <2>1. t \in Served(d)
    BY <1>1, <1>2, ServedAre DEF Queued, ListOf
  <2>2. \E u \in Task : Served(d) = {u}
    BY <1>1, <1>2, <1>3 DEF ListsOK, OneServed, ListOf
  <2>3. Served(d) = {t}
    BY <2>1, <2>2
  <2>4. \A u : Linked(list, u) => u \in Task
    BY <1>2 DEF Linked
  <2> QED BY <1>1, <2>3, <2>4, ServedAre DEF ListOf
<1>5. /\ n = IF dir = "DIRECT_UP" THEN k + 1 ELSE k - 1
      /\ dir = IF direct[d] = "DIRECT_UP" /\ k = Len(list) THEN "DIRECT_DOWN"
               ELSE IF direct[d] = "DIRECT_DOWN" /\ k = 1 THEN "DIRECT_UP"
               ELSE direct[d]
  BY DEF NextPlace, NextOf, TurnedAt, Turned
<1> HIDE DEF list, k, n, dir
<1>6. ASSUME n \in DOMAIN list
      PROVE  /\ list[n] # t /\ list[n] \in Task
             /\ Queued(list[n]) /\ reqTask[list[n]] = list[n]
  <2>1. n # k
    BY <1>2, <1>3, <1>5
  <2>2. list[n] # t
    BY <1>2, <1>3, <1>6, <2>1 DEF IsInjective
  <2>3. Linked(list, list[n])
    BY <1>6 DEF Linked
  <2> QED BY <1>4, <2>2, <2>3 DEF ListsOK
<1>7. ASSUME n \notin DOMAIN list PROVE \A u : Linked(list, u) => u = t
  <2>1. Len(list) = 1
    <3>1. k \in 1..Len(list) /\ n \notin 1..Len(list)
      BY <1>2, <1>3, <1>7
    <3> QED BY <1>1, <1>2, <1>5, <3>1
  <2> QED BY <1>2, <1>3, <2>1 DEF Linked
<1>8. dir \in {"DIRECT_UP", "DIRECT_DOWN"}
  BY <1>1, <1>5
<1> QED BY <1>1, <1>2, <1>3, <1>5, <1>6, <1>7, <1>8 DEF list, k, n, dir

\* The step at the end of request t, which wakes u of the same list.
Hands(t, u) ==
    /\ u \in Task /\ Queued(u) /\ u # t
    /\ Linked(ListOf(t), u)
    /\ state' = Unblocked(state, {u})

Alone(t) ==
    /\ \A u : Linked(ListOf(t), u) => u = t
    /\ UNCHANGED state

LEMMA DoneHands ==
    ASSUME ListsOK, NEW t \in Task, request_done(t)
    PROVE  Alone(t) \/ \E u : Hands(t, u)
<1> DEFINE list == ListOf(t)
           n == NextOf(t)
<1>1. /\ pc[t] = "ide_done"
      /\ state' = IF n \in DOMAIN list THEN Unblocked(state, {reqTask[list[n]]})
                  ELSE state
  BY DEF request_done, Place, PlaceOf, NextOf, ListOf
<1>2. /\ n \in DOMAIN list => /\ list[n] # t /\ list[n] \in Task
                              /\ Queued(list[n]) /\ reqTask[list[n]] = list[n]
      /\ n \notin DOMAIN list => \A u : Linked(list, u) => u = t
  BY <1>1, NextWaits
<1>3. CASE n \in DOMAIN list
  <2>1. Linked(list, list[n])
    BY <1>3 DEF Linked
  <2>2. Hands(t, list[n])
    BY <1>1, <1>2, <1>3, <2>1 DEF Hands
  <2> QED BY <2>2
<1>4. CASE n \notin DOMAIN list
  BY <1>1, <1>2, <1>4 DEF Alone
<1> QED BY <1>3, <1>4

LEMMA DoneLists ==
    ASSUME KernelOK, ListsOK, NEW t \in Task, request_done(t)
    PROVE  ListsOK'
<1> DEFINE e == req[t].disk
           list == request_list[e]
           new == list_remove(list, t)
<1>1. /\ pc[t] = "ide_done"
      /\ direct' = [direct EXCEPT ![e] = Turned(list, Place(list, t), @)]
      /\ request_list' = [request_list EXCEPT ![e] = new]
      /\ req' = [req EXCEPT ![t] = NoRequest]
      /\ reqTask' = [reqTask EXCEPT ![t] = Boot]
      /\ pc' = [pc EXCEPT ![t] = "user"]
      /\ state \in [Task -> State] /\ pc \in [Task -> Label]
  BY DEF request_done, Place, WithoutRequest, Goto, KernelOK, TaskInv, TaskTypeOK
<1>2. e \in Disk /\ Linked(list, t)
  BY <1>1, NextWaits DEF ListOf
<1>3. /\ list \in Seq(Task) /\ IsInjective(list)
      /\ \A u : Linked(list, u)
            => /\ u \in Task /\ pc[u] # "user" /\ req[u] \in Request
               /\ req[u].disk = e /\ Sector(u) = req[u].idx
  BY <1>2, ListTasks
<1>4. /\ request_list'[e] = new
      /\ \A d \in Disk : d # e => request_list'[d] = request_list[d]
      /\ new \in Seq(Task) /\ IsInjective(new)
      /\ \A u : Linked(new, u) <=> Linked(list, u) /\ u # t
  <2>1. new \in Seq(Task) /\ IsInjective(new)
        /\ \A u : Linked(new, u) <=> Linked(list, u) /\ u # t
    BY <1>2, <1>3, RemoveUnlinks
  <2> HIDE DEF new
  <2> QED BY <1>1, <1>2, <2>1 DEF ListsOK, ListsType
<1>5. \A u \in Task : u # t => /\ pc'[u] = pc[u] /\ req'[u] = req[u]
                               /\ reqTask'[u] = reqTask[u]
  BY <1>1 DEF ListsOK, ListsType
<1>6. pc'[t] = "user" /\ req'[t] = NoRequest /\ reqTask'[t] = Boot
  BY <1>1 DEF ListsOK, ListsType
<1>7. Alone(t) \/ \E u : Hands(t, u)
  BY DoneHands
<1>8. \A u \in Task : Queued(u)' => Queued(u) /\ u # t
  BY <1>1, <1>5, <1>6, <1>7 DEF Queued, Alone, Hands, Unblocked
<1> HIDE DEF new, list
<1>9. ListsType'
  <2>1. Turned(list, Place(list, t), direct[e]) \in {"DIRECT_UP", "DIRECT_DOWN"}
    BY <1>2 DEF Turned, ListsOK, ListsType
  <2> QED BY <1>1, <1>4, <2>1 DEF ListsOK, ListsType
<1>10. \A u \in Task : /\ req'[u] = NoRequest <=> pc'[u] = "user"
                       /\ Queued(u)' => reqTask'[u] = u
  BY <1>5, <1>6, <1>8 DEF ListsOK
<1>11. Sorted'
  <2> SUFFICES ASSUME NEW d \in Disk
               PROVE  \A i, j \in DOMAIN request_list'[d] : i < j
                         => req'[request_list'[d][i]].idx <= req'[request_list'[d][j]].idx
    BY DEF Sorted
  <2>1. CASE d = e
    <3> DEFINE key == [u \in Task |-> Sector(u)]
    <3>1. key \in [Task -> Nat]
      BY RequestType DEF Sector
    <3>2. \A i, j \in DOMAIN list : i < j => key[list[i]] <= key[list[j]]
      <4>1. \A i \in DOMAIN list : key[list[i]] = req[list[i]].idx
        BY <1>3 DEF Linked
      <4> QED BY <1>2, <4>1 DEF ListsOK, Sorted, list
    <3> HIDE DEF key
    <3>3. \A i, j \in DOMAIN new : i < j => key[new[i]] <= key[new[j]]
      BY <1>2, <1>3, <3>1, <3>2, RemoveKeepsOrder DEF new
    <3>4. \A i \in DOMAIN new : key[new[i]] = req'[new[i]].idx
      <4> SUFFICES ASSUME NEW i \in DOMAIN new PROVE key[new[i]] = req'[new[i]].idx
        OBVIOUS
      <4>1. Linked(new, new[i])
        BY DEF Linked
      <4> QED BY <1>3, <1>4, <1>5, <4>1 DEF key
    <3> QED BY <1>4, <2>1, <3>3, <3>4
  <2>2. CASE d # e
    <3>1. \A i \in DOMAIN request_list[d] : req'[request_list[d][i]] = req[request_list[d][i]]
      <4> SUFFICES ASSUME NEW i \in DOMAIN request_list[d]
                   PROVE  req'[request_list[d][i]] = req[request_list[d][i]]
        OBVIOUS
      <4>1. Linked(request_list[d], request_list[d][i])
        BY DEF Linked
      <4> QED BY <1>5, <2>2, <4>1, ListTasks
    <3> QED BY <1>4, <2>2, <3>1 DEF ListsOK, Sorted
  <2> QED BY <2>1, <2>2
<1>12. OneServed'
  <2> SUFFICES ASSUME NEW d \in Disk
               PROVE  /\ IsInjective(request_list'[d])
                      /\ \A u \in Task : Linked(request_list'[d], u)
                                            <=> pc'[u] # "user" /\ req'[u].disk = d
                      /\ request_list'[d] # <<>> => \E u \in Task : Served(d)' = {u}
    BY DEF OneServed
  <2>1. \A u \in Task : Linked(request_list[d], u) <=> pc[u] # "user" /\ req[u].disk = d
    BY DEF ListsOK, OneServed
  <2>2. CASE d = e
    <3>1. \A u \in Task : Linked(request_list'[d], u) <=> pc'[u] # "user" /\ req'[u].disk = d
      BY <1>4, <1>5, <1>6, <2>1, <2>2 DEF list
    <3>2. ASSUME request_list'[d] # <<>> PROVE \E u \in Task : Served(d)' = {u}
      <4>1. PICK u : Hands(t, u)
        <5>1. \E v : Linked(new, v)
          <6>1. new # <<>>
            BY <1>4, <2>2, <3>2
          <6>2. 1 \in DOMAIN new
            BY <1>4, <6>1
          <6> QED BY <6>2 DEF Linked
        <5>2. ~Alone(t)
          BY <1>4, <5>1 DEF Alone, ListOf, list
        <5> QED BY <1>7, <5>2
      <4>2. \A v \in Task : Linked(new, v) /\ ~Queued(v)' <=> v = u
        <5>1. Served(e) = {t}
          <6>1. t \in Served(e)
            BY <1>1, <1>2, ServedAre DEF Queued, list
          <6>2. \E v \in Task : Served(e) = {v}
            BY <1>2 DEF ListsOK, OneServed, list, Linked
          <6> QED BY <6>1, <6>2
        <5>2. \A v \in Task : Linked(list, v) /\ v # t => Queued(v)
          BY <1>2, <5>1, ServedAre DEF list
        <5>3. /\ Linked(list, u) /\ u # t /\ u \in Task
              /\ \A v \in Task : v # u => state'[v] = state[v]
              /\ state'[u] = "READY"
          BY <1>1, <4>1 DEF Hands, Unblocked, ListOf, list
        <5>4. \A v \in Task : v # t /\ v # u => (Queued(v)' <=> Queued(v))
          BY <1>5, <5>3 DEF Queued
        <5>5. ~Queued(u)'
          BY <5>3 DEF Queued
        <5> QED BY <1>4, <5>2, <5>3, <5>4, <5>5
      <4>3. Served(d)' = {u}
        BY <1>4, <2>2, <4>1, <4>2, ServedAre DEF Hands
      <4> QED BY <4>1, <4>3 DEF Hands
    <3> QED BY <1>4, <2>2, <3>1, <3>2
  <2>3. CASE d # e
    <3>1. ~Linked(request_list[d], t)
      BY <2>1, <2>3
    <3>2. \A u \in Task : Linked(request_list[d], u) => (Queued(u)' <=> Queued(u))
      <4> SUFFICES ASSUME NEW u \in Task, Linked(request_list[d], u)
                   PROVE  Queued(u)' <=> Queued(u)
        OBVIOUS
      <4>1. u # t /\ req[u].disk = d
        BY <2>1, <3>1
      <4>2. ~Linked(list, u)
        BY <1>3, <2>3, <4>1
      <4>3. state'[u] = state[u]
        BY <1>1, <1>7, <4>2 DEF Alone, Hands, Unblocked, ListOf, list
      <4> QED BY <1>5, <4>1, <4>3 DEF Queued
    <3>3. Served(d)' = Served(d)
      <4>1. request_list'[d] = request_list[d]
        BY <1>4, <2>3
      <4> QED BY <3>2, <4>1, ServedAre
    <3>4. \A u \in Task : Linked(request_list'[d], u) <=> pc'[u] # "user" /\ req'[u].disk = d
      BY <1>4, <1>5, <1>6, <2>1, <2>3, <3>1
    <3> QED BY <1>4, <2>3, <3>3, <3>4 DEF ListsOK, OneServed
  <2> QED BY <2>2, <2>3
<1> QED BY <1>9, <1>10, <1>11, <1>12 DEF ListsOK

-----------------------------------------------------------------------------
\* What SkipsNobody says of one step.
SkipStep ==
    \A t, u \in Task :
       LET d == req[t].disk
           Between(v) == IF direct'[d] = "DIRECT_UP"
                         THEN req[t].idx < req[v].idx /\ req[v].idx < req[u].idx
                         ELSE req[u].idx < req[v].idx /\ req[v].idx < req[t].idx
       IN  /\ pc[t] = "ide_done" /\ pc'[t] = "user"
           /\ state[u] = "BLOCKED" /\ state'[u] = "READY"
           => /\ Linked(request_list[d], u)
              /\ IF direct'[d] = "DIRECT_UP" THEN req[t].idx <= req[u].idx
                                             ELSE req[u].idx <= req[t].idx
              /\ ~ \E v \in Task : Linked(request_list[d], v) /\ Between(v)

LEMMA DoneSkips ==
    ASSUME KernelOK, ListsOK, NEW t \in Task, request_done(t)
    PROVE  SkipStep
<1> DEFINE d == req[t].disk
           list == ListOf(t)
           k == PlaceOf(t)
           n == NextOf(t)
           dir == TurnedAt(t)
<1>1. /\ pc[t] = "ide_done"
      /\ direct' = [direct EXCEPT ![d] = dir]
      /\ state' = IF n \in DOMAIN list THEN Unblocked(state, {reqTask[list[n]]})
                  ELSE state
      /\ pc' = [pc EXCEPT ![t] = "user"]
      /\ state \in [Task -> State] /\ pc \in [Task -> Label]
  BY DEF request_done, Place, PlaceOf, NextOf, TurnedAt, ListOf, Goto, KernelOK,
     TaskInv, TaskTypeOK
<1>2. /\ d \in Disk /\ k \in DOMAIN list /\ list[k] = t
      /\ dir \in {"DIRECT_UP", "DIRECT_DOWN"}
      /\ n = IF dir = "DIRECT_UP" THEN k + 1 ELSE k - 1
      /\ n \in DOMAIN list => list[n] # t /\ list[n] \in Task /\ reqTask[list[n]] = list[n]
  BY <1>1, NextWaits
<1>3. /\ list \in Seq(Task) /\ list = request_list[d]
      /\ DOMAIN list = 1..Len(list) /\ Len(list) \in Nat
      /\ \A i \in DOMAIN list : req[list[i]].idx \in Nat
      /\ \A i, j \in DOMAIN list : i < j => req[list[i]].idx <= req[list[j]].idx
  <2>1. list = request_list[d] /\ list \in Seq(Task)
    BY <1>2, ListTasks DEF ListOf
  <2>2. \A i \in DOMAIN list : Linked(list, list[i])
    BY DEF Linked
  <2>3. \A i \in DOMAIN list : req[list[i]] \in Request
    BY <1>2, <2>1, <2>2, ListTasks
  <2>4. \A i \in DOMAIN list : req[list[i]].idx \in Nat
    BY <2>3, RequestType
  <2>5. \A i, j \in DOMAIN list : i < j => req[list[i]].idx <= req[list[j]].idx
    BY <1>2, <2>1 DEF ListsOK, Sorted
  <2> HIDE DEF list
  <2>6. DOMAIN list = 1..Len(list) /\ Len(list) \in Nat
    BY <2>1
  <2> QED BY <2>1, <2>4, <2>5, <2>6
<1> HIDE DEF list, k, n, dir
<1>4. direct'[d] = dir
  BY <1>1, <1>2 DEF ListsOK, ListsType
<1> SUFFICES ASSUME NEW s \in Task, NEW u \in Task,
                    pc[s] = "ide_done", pc'[s] = "user",
                    state[u] = "BLOCKED", state'[u] = "READY"
             PROVE  /\ s = t /\ Linked(list, u)
                    /\ IF dir = "DIRECT_UP" THEN req[t].idx <= req[u].idx
                                            ELSE req[u].idx <= req[t].idx
                    /\ \A v \in Task : Linked(list, v) =>
                          ~ IF dir = "DIRECT_UP"
                            THEN req[t].idx < req[v].idx /\ req[v].idx < req[u].idx
                            ELSE req[u].idx < req[v].idx /\ req[v].idx < req[t].idx
  BY <1>3, <1>4 DEF SkipStep
<1>5. s = t
  BY <1>1
<1>6. n \in DOMAIN list /\ u = list[n]
  BY <1>1, <1>2 DEF Unblocked
<1>11. k \in Nat /\ n \in Nat /\ \A i \in DOMAIN list : i \in Nat
  <2>1. PICK len \in Nat : DOMAIN list = 1..len
    BY <1>3
  <2> QED BY ONLY <1>2, <1>6, <2>1
<1>7. \A i, j \in DOMAIN list : i <= j => req[list[i]].idx <= req[list[j]].idx
  <2> SUFFICES ASSUME NEW i \in DOMAIN list, NEW j \in DOMAIN list, i <= j
               PROVE  req[list[i]].idx <= req[list[j]].idx
    OBVIOUS
  <2>1. i \in Nat /\ j \in Nat
    BY <1>3
  <2>2. req[list[i]].idx \in Nat
    BY <1>3
  <2>3. CASE i = j
    BY <2>2, <2>3
  <2>4. CASE i < j
    BY <1>3, <2>4
  <2> QED BY <2>1, <2>3, <2>4
<1>8. IF dir = "DIRECT_UP" THEN req[t].idx <= req[u].idx ELSE req[u].idx <= req[t].idx
  <2>1. IF dir = "DIRECT_UP" THEN k < n ELSE n < k
    BY <1>2, <1>11
  <2> QED BY <1>2, <1>3, <1>6, <2>1
<1>9. ASSUME NEW v \in Task, Linked(list, v)
      PROVE  ~ IF dir = "DIRECT_UP"
               THEN req[t].idx < req[v].idx /\ req[v].idx < req[u].idx
               ELSE req[u].idx < req[v].idx /\ req[v].idx < req[t].idx
  <2>1. PICK m \in DOMAIN list : list[m] = v
    BY <1>9 DEF Linked
  <2>2. /\ req[v].idx \in Nat /\ req[t].idx \in Nat /\ req[u].idx \in Nat
    BY <1>2, <1>3, <1>6, <2>1
  <2>3. CASE dir = "DIRECT_UP"
    <3>1. n = k + 1
      BY <1>2, <2>3
    <3>2. m <= k \/ n <= m
      BY <1>11, <2>1, <3>1
    <3>3. CASE m <= k
      <4>1. req[v].idx <= req[t].idx
        BY <1>2, <1>7, <2>1, <3>3
      <4> QED BY <2>2, <2>3, <4>1
    <3>4. CASE n <= m
      <4>1. req[u].idx <= req[v].idx
        BY <1>6, <1>7, <2>1, <3>4
      <4> QED BY <2>2, <2>3, <4>1
    <3> QED BY <3>2, <3>3, <3>4
  <2>4. CASE dir # "DIRECT_UP"
    <3>1. n = k - 1
      BY <1>2, <2>4
    <3>2. m <= n \/ k <= m
      BY <1>11, <2>1, <3>1
    <3>3. CASE m <= n
      <4>1. req[v].idx <= req[u].idx
        BY <1>6, <1>7, <2>1, <3>3
      <4> QED BY <2>2, <2>4, <4>1
    <3>4. CASE k <= m
      <4>1. req[t].idx <= req[v].idx
        BY <1>2, <1>7, <2>1, <3>4
      <4> QED BY <2>2, <2>4, <4>1
    <3> QED BY <3>2, <3>3, <3>4
  <2> QED BY <2>3, <2>4
<1>10. Linked(list, u)
  BY <1>6 DEF Linked
<1> QED BY <1>5, <1>8, <1>9, <1>10

\* Only the end of a request leaves the code of the driver.
LEMMA OthersSkip ==
    ASSUME \A t \in Task : pc[t] = "ide_done" => pc'[t] # "user"
    PROVE  SkipStep
BY DEF SkipStep

-----------------------------------------------------------------------------
(***************************************************************************)
(* The controller.  A step that is not about it keeps its invariant.       *)
(***************************************************************************)
LEMMA QuietController ==
    ASSUME ControllerOK, UNCHANGED <<lock, waiter, hardware>>,
           got' \in [Task -> Seq(Disk \X Nat)],
           \A t \in Task :
              /\ pc'[t] = "ide_pio" <=> pc[t] = "ide_pio"
              /\ pc'[t] = "ide_lock" <=> pc[t] = "ide_lock"
              /\ pc[t] \in {"ide_pio", "ide_lock"}
                    => /\ state'[t] = "BLOCKED" <=> state[t] = "BLOCKED"
                       /\ UNCHANGED <<req[t], got[t]>>
              /\ pc'[t] \in {"user", "do_request"} => got'[t] = <<>>
              /\ pc'[t] = "ide_done" => pc[t] = "ide_done" /\ UNCHANGED <<req[t], got[t]>>
    PROVE  ControllerOK'
<1> USE DEF lock, hardware
<1>1. ControllerType'
  BY DEF ControllerOK, ControllerType
<1>2. LockOK'
  BY DEF ControllerOK, LockOK
<1>3. WaiterOK'
  BY DEF ControllerOK, WaiterOK
<1>4. TransfersOK'
  <2> SUFFICES ASSUME NEW t \in Task
               PROVE  /\ pc'[t] \in {"user", "do_request", "ide_lock"} => got'[t] = <<>>
                      /\ pc'[t] = "ide_pio" => Transfers(req[t], got[t])'
                      /\ pc'[t] = "ide_done" => Len(got'[t]) = req'[t].count
    BY DEF TransfersOK
  <2>1. /\ pc[t] = "ide_lock" => got[t] = <<>>
        /\ pc[t] = "ide_pio" => Transfers(req[t], got[t])
        /\ pc[t] = "ide_done" => Len(got[t]) = req[t].count
    BY DEF ControllerOK, TransfersOK
  <2> QED BY <2>1 DEF Transfers
<1> QED BY <1>1, <1>2, <1>3, <1>4 DEF ControllerOK

\* The current task is in no list of waiters, and is not the waiter.
LEMMA CurrentWaitsNot ==
    ASSUME KernelOK, ControllerOK
    PROVE  /\ current \in Task /\ state[current] = "RUNNING"
           /\ ~Linked(waiters, current) /\ waiter # current
           /\ holder \in {Boot, current}
                 => waiter = Boot /\ ~irq /\ drive.phase # "busy"
<1>1. current \in Task /\ state[current] = "RUNNING"
  BY DEF KernelOK, TaskInv, RunningIsCurrent
<1>2. ~Linked(waiters, current) /\ waiter # current
  BY <1>1 DEF ControllerOK, LockOK, WaiterOK
<1>3. ASSUME holder \in {Boot, current} PROVE waiter = Boot
  <2>1. ASSUME waiter # Boot PROVE FALSE
    <3>1. waiter \in Task /\ pc[waiter] = "ide_pio"
      BY <2>1 DEF ControllerOK, ControllerType, WaiterOK
    <3>2. holder = waiter
      BY <3>1 DEF ControllerOK, LockOK
    <3> QED BY <1>2, <1>3, <2>1, <3>2
  <2> QED BY <2>1
<1> QED BY <1>1, <1>2, <1>3 DEF ControllerOK, WaiterOK

\* The driver waits for the drive, first or again.
LEMMA WaitsForDrive ==
    ASSUME KernelOK, ControllerOK, NEW t \in Task, t = current,
           pc[t] \in {"do_request", "ide_lock", "ide_pio"},
           holder \in {Boot, t}, holder' = t, waiter' = t,
           pc' = [pc EXCEPT ![t] = "ide_pio"],
           \A u \in Task : state'[u] = "BLOCKED" <=> u = t \/ state[u] = "BLOCKED",
           UNCHANGED <<waiters, irq, req>>,
           drive'.phase = "busy", ControllerType', Transfers(req[t], got[t])',
           \A u \in Task : u # t => got'[u] = got[u]
    PROVE  ControllerOK'
<1>1. /\ ~Linked(waiters, t) /\ waiter = Boot /\ ~irq
  BY CurrentWaitsNot
<1>2. \A u \in Task : pc'[u] = IF u = t THEN "ide_pio" ELSE pc[u]
  BY DEF KernelOK
<1>3. \A u \in Task : u # t => pc[u] # "ide_pio"
  BY TaskAssumption DEF ControllerOK, LockOK
<1>4. LockOK'
  BY <1>1, <1>2, <1>3 DEF ControllerOK, LockOK
<1>5. t # Boot
  BY TaskAssumption
<1>6. WaiterOK'
  BY <1>1, <1>2, <1>3, <1>5 DEF WaiterOK
<1>7. TransfersOK'
  <2> SUFFICES ASSUME NEW u \in Task
               PROVE  /\ pc'[u] \in {"user", "do_request", "ide_lock"} => got'[u] = <<>>
                      /\ pc'[u] = "ide_pio" => Transfers(req[u], got[u])'
                      /\ pc'[u] = "ide_done" => Len(got'[u]) = req'[u].count
    BY DEF TransfersOK
  <2>1. CASE u = t
    BY <1>2, <2>1
  <2>2. CASE u # t
    BY <1>2, <1>3, <2>2 DEF ControllerOK, TransfersOK
  <2> QED BY <2>1, <2>2
<1> QED BY <1>4, <1>6, <1>7 DEF ControllerOK

\* The driver returns, and wakes a task that waits for the lock.
LEMMA ReturnStates ==
    ASSUME KernelOK, ControllerOK, NEW t \in Task, t = current,
           pc[t] = "ide_pio", ide_return(t)
    PROVE  /\ TaskNext \/ UNCHANGED taskVars
           /\ current' \in Task
           /\ waiters' \in Seq(Task) /\ IsInjective(waiters')
           /\ \A u \in Task :
                 /\ Linked(waiters', u) <=> pc[u] = "ide_lock" /\ state'[u] = "BLOCKED"
                 /\ pc[u] # "ide_lock" => (state'[u] = "BLOCKED" <=> state[u] = "BLOCKED")
<1>1. /\ waiters \in Seq(Task) /\ IsInjective(waiters)
      /\ \A u \in Task : Linked(waiters, u) <=> pc[u] = "ide_lock" /\ state[u] = "BLOCKED"
      /\ current \in Task
  BY DEF ControllerOK, ControllerType, LockOK, KernelOK
<1>2. CASE waiters = <<>>
  <2>1. UNCHANGED <<state, current, waiters>>
    BY <1>2 DEF ide_return, list_empty, Stay, taskVars
  <2> QED BY <1>1, <2>1 DEF taskVars
<1>3. CASE waiters # <<>>
  <2> DEFINE w == list_last(waiters)
  <2>1. w \in Task /\ Linked(waiters, w)
    <3>1. Len(waiters) \in DOMAIN waiters
      BY <1>1, <1>3
    <3> QED BY <1>1, <3>1 DEF list_last, Linked
  <2>2. state[w] = "BLOCKED" /\ pc[w] = "ide_lock"
    BY <1>1, <2>1
  <2>3. /\ waiters' = list_remove(waiters, w)
        /\ schedule(Unblocked(state, {w}))
    BY <1>3 DEF ide_return, list_empty
  <2> HIDE DEF w
  <2>4. {w} \in SUBSET Waiters(state)
    BY <2>1, <2>2 DEF Waiters, Sleeping
  <2>5. /\ TaskNext /\ current' \in Task
        /\ \A u \in Task : state'[u] = "BLOCKED" <=> state[u] = "BLOCKED" /\ u \notin {w}
    BY <1>1, <2>3, <2>4, YieldStates DEF schedule, KernelOK
  <2>6. /\ waiters' \in Seq(Task) /\ IsInjective(waiters')
        /\ \A u : Linked(waiters', u) <=> Linked(waiters, u) /\ u # w
    BY <1>1, <2>1, <2>3, RemoveUnlinks
  <2> QED BY <1>1, <2>2, <2>5, <2>6
<1> QED BY <1>2, <1>3

LEMMA ReturnsController ==
    ASSUME KernelOK, ControllerOK, NEW t \in Task, t = current,
           pc[t] = "ide_pio", ide_return(t),
           UNCHANGED <<waiter, irq, req>>, drive'.phase # "busy", ControllerType',
           Len(got'[t]) = req[t].count,
           \A u \in Task : u # t => got'[u] = got[u]
    PROVE  ControllerOK'
<1>1. holder = t /\ waiter = Boot /\ ~irq /\ t # Boot
  <2>1. holder = t
    BY DEF ControllerOK, LockOK
  <2> QED BY <2>1, CurrentWaitsNot, TaskAssumption
<1>2. holder' = Boot /\ \A u \in Task : pc'[u] = IF u = t THEN "ide_done" ELSE pc[u]
  BY DEF ide_return, Goto, KernelOK
<1>3. \A u \in Task : u # t => pc[u] # "ide_pio"
  BY <1>1 DEF ControllerOK, LockOK
<1>4. LockOK'
  BY <1>2, <1>3, ReturnStates, TaskAssumption DEF LockOK
<1>5. WaiterOK'
  BY <1>1, <1>2, <1>3, TaskAssumption DEF WaiterOK
<1>6. TransfersOK'
  <2> SUFFICES ASSUME NEW u \in Task
               PROVE  /\ pc'[u] \in {"user", "do_request", "ide_lock"} => got'[u] = <<>>
                      /\ pc'[u] = "ide_pio" => Transfers(req[u], got[u])'
                      /\ pc'[u] = "ide_done" => Len(got'[u]) = req'[u].count
    BY DEF TransfersOK
  <2>1. CASE u = t
    BY <1>2, <2>1
  <2>2. CASE u # t
    BY <1>2, <1>3, <2>2 DEF ControllerOK, TransfersOK
  <2> QED BY <2>1, <2>2
<1> QED BY <1>4, <1>5, <1>6 DEF ControllerOK

-----------------------------------------------------------------------------
(***************************************************************************)
(* One lemma for each kind of step.                                        *)
(***************************************************************************)
DiskStep == DiskService!DiskNext \/ UNCHANGED <<req, got>>

Goes(t, l) == t # Idle /\ l \in Label /\ pc' = [pc EXCEPT ![t] = l]

StepResult ==
    /\ TaskNext \/ UNCHANGED taskVars
    /\ current' \in Task
    /\ UNCHANGED pc \/ \E t \in Task, l \in Label : Goes(t, l)
    /\ ListsOK' /\ ControllerOK'
    /\ DiskStep /\ SkipStep

\* The drive moves the next sector of the request.
LEMMA SectorMoves ==
    ASSUME ControllerOK, ListsOK, NEW t \in Task, pc[t] # "user", NEW d,
           d \in [disk : Disk, lba : Nat, left : Nat \ {0},
                  type : {"REQ_READ", "REQ_WRITE"}, phase : {"idle", "busy", "data"}],
           d.disk = req[t].disk, d.type = req[t].type,
           d.lba = req[t].idx + Len(got[t]), d.left + Len(got[t]) = req[t].count,
           PioSector(t, d)
    PROVE  /\ got' \in [Task -> Seq(Disk \X Nat)]
           /\ got'[t] = Append(got[t], <<d.disk, d.lba>>)
           /\ Len(got'[t]) = Len(got[t]) + 1
           /\ \A u \in Task : u # t => got'[u] = got[u]
           /\ drive' \in [disk : Disk, lba : Nat, left : Nat,
                          type : {"REQ_READ", "REQ_WRITE"}, phase : {"idle", "busy", "data"}]
           /\ drive'.left = d.left - 1
           /\ drive'.phase = IF d.type = "REQ_WRITE" \/ d.left > 1 THEN "busy" ELSE "idle"
           /\ UNCHANGED req /\ (d.type = "REQ_READ" => d.left > 1)
                 => Transfers(req[t], got[t])'
           /\ UNCHANGED req => DiskStep
<1>1. /\ got \in [Task -> Seq(Disk \X Nat)] /\ req[t] \in Request /\ req[t] # NoRequest
      /\ got' = [got EXCEPT ![t] = Append(@, <<d.disk, d.lba>>)]
      /\ drive' = [d EXCEPT !.lba = @ + 1, !.left = @ - 1,
                            !.phase = IF d.type = "REQ_WRITE" \/ d.left > 1
                                      THEN "busy" ELSE "idle"]
  <2>1. req[t] \in Request /\ req[t] # NoRequest
    BY RequestType DEF ListsOK, ListsType
  <2> QED BY <2>1 DEF ControllerOK, ControllerType, PioSector
<1>2. /\ got[t] \in Seq(Disk \X Nat) /\ <<d.disk, d.lba>> \in Disk \X Nat
      /\ Len(got[t]) \in Nat /\ req[t].count \in Nat /\ req[t].idx \in Nat
  BY <1>1, RequestType
<1>3. /\ Append(got[t], <<d.disk, d.lba>>) \in Seq(Disk \X Nat)
      /\ Len(Append(got[t], <<d.disk, d.lba>>)) = Len(got[t]) + 1
  BY <1>2
<1>4. /\ got' \in [Task -> Seq(Disk \X Nat)]
      /\ got'[t] = Append(got[t], <<d.disk, d.lba>>)
      /\ Len(got'[t]) = Len(got[t]) + 1
      /\ \A u \in Task : u # t => got'[u] = got[u]
  BY <1>1, <1>3
<1>5. /\ drive'.disk = d.disk /\ drive'.type = d.type
      /\ drive'.lba = d.lba + 1 /\ drive'.left = d.left - 1
      /\ drive'.phase = IF d.type = "REQ_WRITE" \/ d.left > 1 THEN "busy" ELSE "idle"
  BY <1>1
<1>6. drive' \in [disk : Disk, lba : Nat, left : Nat,
                  type : {"REQ_READ", "REQ_WRITE"}, phase : {"idle", "busy", "data"}]
  <2>1. d.lba + 1 \in Nat /\ d.left - 1 \in Nat
    OBVIOUS
  <2>2. PICK phase \in {"idle", "busy", "data"} :
           phase = IF d.type = "REQ_WRITE" \/ d.left > 1 THEN "busy" ELSE "idle"
    OBVIOUS
  <2>3. drive' = [disk |-> d.disk, lba |-> d.lba + 1, left |-> d.left - 1,
                  type |-> d.type, phase |-> phase]
    BY <1>1, <2>2
  <2> QED BY <2>1, <2>3
<1>7. ASSUME UNCHANGED req, d.type = "REQ_READ" => d.left > 1
      PROVE  Transfers(req[t], got[t])'
  <2>1. PICK n \in Nat : n = Len(got[t])
    BY ONLY <1>2
  <2>2. PICK lba \in Nat, left \in Nat : lba = d.lba /\ left = d.left
    OBVIOUS
  <2>3. Len(got'[t]) = n + 1 /\ drive'.lba = lba + 1 /\ drive'.left = left - 1
    BY ONLY <1>4, <1>5, <2>1, <2>2
  <2>4. req'[t].idx = req[t].idx /\ req'[t].count = req[t].count /\ req'[t].type = req[t].type
    BY ONLY <1>7
  <2>5. PICK idx \in Nat, cnt \in Nat : idx = req[t].idx /\ cnt = req[t].count
    BY ONLY <1>2
  <2>6. lba = idx + n /\ left + n = cnt
    BY ONLY <2>1, <2>2, <2>5, d.lba = req[t].idx + Len(got[t]),
            d.left + Len(got[t]) = req[t].count
  <2>7. lba + 1 = idx + (n + 1) /\ (left - 1) + (n + 1) = cnt
    BY ONLY <2>6
  <2>8. drive'.lba = req'[t].idx + Len(got'[t]) /\ drive'.left + Len(got'[t]) = req'[t].count
    BY ONLY <2>3, <2>4, <2>5, <2>7
  <2>9. req'[t].type = "REQ_READ" => drive'.left > 0
    <3>1. d.type = "REQ_READ" => left > 1
      BY ONLY <1>7, <2>2
    <3> QED BY ONLY <2>3, <2>4, <3>1, d.type = req[t].type
  <2>10. drive'.disk = req'[t].disk /\ drive'.type = req'[t].type
    BY ONLY <1>5, <1>7, d.type = req[t].type, d.disk = req[t].disk
  <2> QED BY ONLY <2>8, <2>9, <2>10 DEF Transfers
<1>8. ASSUME UNCHANGED req PROVE DiskStep
  <2>1. Len(got[t]) < req[t].count
    BY <1>2
  <2>2. got' = [got EXCEPT ![t] = Append(@, <<req[t].disk, req[t].idx + Len(@)>>)]
    BY <1>1
  <2>3. DiskService!Move(t)
    BY <1>1, <1>8, <2>1, <2>2 DEF DiskService!Move
  <2> QED BY <2>3 DEF DiskStep, DiskService!DiskNext
<1> QED BY <1>4, <1>5, <1>6, <1>7, <1>8

\* A wait for the drive blocks the current task.
LEMMA WaitStates ==
    ASSUME KernelOK, NEW t \in Task, t = current, t # Idle, ide_wait(t)
    PROVE  /\ TaskNext /\ current' \in Task /\ waiter' = t /\ Goes(t, "ide_pio")
           /\ \A u \in Task : state'[u] = "BLOCKED" <=> u = t \/ state[u] = "BLOCKED"
<1>1. schedule(Entering(state, current, "BLOCKED"))
  BY DEF ide_wait
<1> QED BY <1>1, BlockStates DEF ide_wait, schedule, KernelOK, Goto, Goes, Label

LEMMA NotIdle == ASSUME KernelOK, NEW t \in Task, pc[t] # "user" PROVE t # Idle
BY DEF KernelOK

\* The steps of the driver leave the lists alone.
LEMMA DriverLists ==
    ASSUME KernelOK, ListsOK, NEW t \in Task, t = current, NEW l \in Label,
           pc[t] # "user", l \notin {"user", "do_request"}, Goes(t, l),
           UNCHANGED lists,
           \A u \in Task : pc[u] = "do_request" /\ u # t
              => (state'[u] = "BLOCKED" <=> state[u] = "BLOCKED")
    PROVE  ListsOK' /\ SkipStep
<1>1. \A u \in Task : pc'[u] = IF u = t THEN l ELSE pc[u]
  BY DEF Goes, KernelOK
<1>2. state[t] # "BLOCKED"
  BY DEF KernelOK, TaskInv, RunningIsCurrent
<1>3. \A u \in Task : /\ pc'[u] = "user" <=> pc[u] = "user"
                      /\ Queued(u)' <=> Queued(u)
  BY <1>1, <1>2 DEF Queued
<1>4. \A u \in Task : pc[u] = "ide_done" => pc'[u] # "user"
  BY <1>1
<1> QED BY <1>3, <1>4, QuietLists, OthersSkip

LEMMA StartStep ==
    ASSUME KernelOK, ListsOK, ControllerOK, NEW t \in Task, ide_start(t)
    PROVE  StepResult
<1>1. /\ t = current /\ pc[t] \in {"do_request", "ide_lock"} /\ t # Idle
      /\ holder = Boot /\ holder' = t /\ drive.phase # "busy"
      /\ ide_wait(t) /\ UNCHANGED <<lists, waiters, irq>>
  BY NotIdle DEF ide_start, Locked
<1>2. /\ TaskNext /\ current' \in Task /\ waiter' = t /\ Goes(t, "ide_pio")
      /\ \A u \in Task : state'[u] = "BLOCKED" <=> u = t \/ state[u] = "BLOCKED"
  BY <1>1, WaitStates
<1>3. ListsOK' /\ SkipStep
  BY <1>1, <1>2, DriverLists DEF Label
<1>4. /\ req[t] \in Request /\ got[t] = <<>> /\ Len(got[t]) = 0 /\ UNCHANGED req
      /\ req[t].disk \in Disk /\ req[t].idx \in Nat /\ req[t].count \in Nat \ {0}
      /\ req[t].type \in {"REQ_READ", "REQ_WRITE"}
  BY <1>1, RequestType DEF ControllerOK, TransfersOK, ListsOK, ListsType, lists
<1> DEFINE d == Selected(req[t])
<1>5. /\ d \in [disk : Disk, lba : Nat, left : Nat \ {0},
                type : {"REQ_READ", "REQ_WRITE"}, phase : {"idle", "busy", "data"}]
      /\ d.disk = req[t].disk /\ d.type = req[t].type
      /\ d.lba = req[t].idx + Len(got[t]) /\ d.left + Len(got[t]) = req[t].count
      /\ req[t].type = "REQ_READ" => d.phase = "busy"
  BY <1>4 DEF Selected
<1>6. CASE req[t].type = "REQ_READ"
  <2>1. drive' = d /\ UNCHANGED got
    BY <1>6 DEF ide_start
  <2>2. drive'.phase = "busy" /\ ControllerType' /\ Transfers(req[t], got[t])'
    BY <1>1, <1>2, <1>4, <1>5, <1>6, <2>1 DEF ControllerOK, ControllerType, Transfers
  <2>3. ControllerOK'
    BY <1>1, <1>2, <1>4, <2>1, <2>2, WaitsForDrive DEF Goes
  <2> QED BY <1>2, <1>3, <1>4, <2>1, <2>3 DEF StepResult, DiskStep, Label
<1>7. CASE req[t].type = "REQ_WRITE"
  <2>1. PioSector(t, d)
    BY <1>7 DEF ide_start
  <2> HIDE DEF d
  <2>2. /\ got' \in [Task -> Seq(Disk \X Nat)]
        /\ \A u \in Task : u # t => got'[u] = got[u]
        /\ drive' \in [disk : Disk, lba : Nat, left : Nat,
                       type : {"REQ_READ", "REQ_WRITE"}, phase : {"idle", "busy", "data"}]
        /\ drive'.phase = "busy"
        /\ Transfers(req[t], got[t])'
        /\ DiskStep
    BY <1>1, <1>4, <1>5, <1>7, <2>1, SectorMoves
  <2>3. ControllerType'
    BY <1>1, <1>2, <2>2 DEF ControllerOK, ControllerType
  <2>4. ControllerOK'
    BY <1>1, <1>2, <1>4, <2>2, <2>3, WaitsForDrive DEF Goes
  <2> QED BY <1>2, <1>3, <2>2, <2>4 DEF StepResult, Label
<1> QED BY <1>4, <1>6, <1>7

LEMMA LockStep ==
    ASSUME KernelOK, ListsOK, ControllerOK, NEW t \in Task, ide_lock(t)
    PROVE  StepResult
<1>1. /\ t = current /\ pc[t] \in {"do_request", "ide_lock"} /\ t # Idle
      /\ waiters' = InsertAt(waiters, 1, t)
      /\ schedule(Entering(state, t, "BLOCKED")) /\ Goes(t, "ide_lock")
      /\ UNCHANGED <<lists, holder, waiter, hardware, got>>
  BY NotIdle DEF ide_lock, list_push, Goto, Goes, Label
<1>2. /\ TaskNext /\ current' \in Task
      /\ \A u \in Task : state'[u] = "BLOCKED" <=> u = t \/ state[u] = "BLOCKED"
  BY <1>1, BlockStates DEF schedule, KernelOK
<1>3. ListsOK' /\ SkipStep
  BY <1>1, <1>2, DriverLists DEF Label
<1>4. \A u \in Task : pc'[u] = IF u = t THEN "ide_lock" ELSE pc[u]
  BY <1>1 DEF Goes, KernelOK
<1>5. /\ waiters \in Seq(Task) /\ IsInjective(waiters) /\ ~Linked(waiters, t)
  BY <1>1, CurrentWaitsNot DEF ControllerOK, ControllerType, LockOK
<1>6. /\ waiters' \in Seq(Task) /\ IsInjective(waiters')
      /\ \A u : Linked(waiters', u) <=> Linked(waiters, u) \/ u = t
  <2>1. 1 \in 1..(Len(waiters) + 1)
    BY <1>5
  <2> QED BY <1>1, <1>5, <2>1, InsertAtElements, InsertLinks
<1>7. ControllerType'
  BY <1>1, <1>6 DEF ControllerOK, ControllerType, hardware
<1>8. LockOK'
  BY <1>1, <1>2, <1>4, <1>6 DEF ControllerOK, LockOK
<1>9. WaiterOK'
  BY <1>1, <1>2, <1>4 DEF ControllerOK, WaiterOK, hardware
<1>10. TransfersOK'
  BY <1>1, <1>4 DEF ControllerOK, TransfersOK, Transfers, hardware, lists
<1>11. DiskStep
  BY <1>1 DEF DiskStep, lists
<1> QED BY <1>1, <1>2, <1>3, <1>7, <1>8, <1>9, <1>10, <1>11 DEF StepResult, ControllerOK, Label

\* What the loop over the sectors knows when the drive is not busy.
LEMMA InLoop ==
    ASSUME KernelOK, ListsOK, ControllerOK, NEW t \in Task, t = current,
           pc[t] = "ide_pio"
    PROVE  /\ holder = t /\ waiter = Boot /\ ~irq /\ t # Idle
           /\ req[t] \in Request /\ Len(got[t]) \in Nat
           /\ req[t].idx \in Nat /\ req[t].count \in Nat \ {0}
           /\ Transfers(req[t], got[t])
           /\ drive \in [disk : Disk, lba : Nat, left : Nat,
                         type : {"REQ_READ", "REQ_WRITE"}, phase : {"idle", "busy", "data"}]
<1>1. holder = t
  BY DEF ControllerOK, LockOK
<1>2. req[t] \in Request
  BY DEF ListsOK, ListsType
<1> QED BY <1>1, <1>2, CurrentWaitsNot, RequestType, NotIdle
        DEF ControllerOK, TransfersOK, ControllerType

LEMMA ReturnLists ==
    ASSUME KernelOK, ListsOK, ControllerOK, NEW t \in Task, t = current,
           pc[t] = "ide_pio", ide_return(t), UNCHANGED lists
    PROVE  /\ TaskNext \/ UNCHANGED taskVars
           /\ current' \in Task /\ Goes(t, "ide_done")
           /\ ListsOK' /\ SkipStep
<1>1. Goes(t, "ide_done")
  BY NotIdle DEF ide_return, Goto, Goes, Label
<1> QED BY <1>1, ReturnStates, DriverLists DEF Label

LEMMA ReadStep ==
    ASSUME KernelOK, ListsOK, ControllerOK, NEW t \in Task, ide_read_sector(t)
    PROVE  StepResult
<1>1. /\ t = current /\ pc[t] = "ide_pio" /\ req[t].type = "REQ_READ"
      /\ drive.phase = "data" /\ PioSector(t, drive)
      /\ UNCHANGED <<lists, irq>>
      /\ IF Len(got[t]) + 1 < req[t].count
         THEN ide_wait(t) /\ UNCHANGED lock
         ELSE ide_return(t) /\ UNCHANGED waiter
  BY DEF ide_read_sector
<1>2. /\ holder = t /\ waiter = Boot /\ ~irq /\ t # Idle /\ UNCHANGED req
      /\ req[t] \in Request /\ Len(got[t]) \in Nat /\ req[t].count \in Nat
      /\ Transfers(req[t], got[t]) /\ drive.type = "REQ_READ"
      /\ drive.left \in Nat /\ drive.left > 0 /\ drive.left + Len(got[t]) = req[t].count
      /\ drive \in [disk : Disk, lba : Nat, left : Nat \ {0},
                    type : {"REQ_READ", "REQ_WRITE"}, phase : {"idle", "busy", "data"}]
  <2>1. Transfers(req[t], got[t]) /\ drive.left \in Nat
    BY <1>1, InLoop
  <2>2. drive.left > 0
    BY <1>1, <2>1 DEF Transfers
  <2> QED BY <1>1, <2>1, <2>2, InLoop DEF Transfers, lists
<1>3. /\ got' \in [Task -> Seq(Disk \X Nat)]
      /\ Len(got'[t]) = Len(got[t]) + 1
      /\ \A u \in Task : u # t => got'[u] = got[u]
      /\ drive' \in [disk : Disk, lba : Nat, left : Nat,
                     type : {"REQ_READ", "REQ_WRITE"}, phase : {"idle", "busy", "data"}]
      /\ drive'.phase = IF drive.left > 1 THEN "busy" ELSE "idle"
      /\ drive.left > 1 => Transfers(req[t], got[t])'
      /\ DiskStep
  BY <1>1, <1>2, SectorMoves DEF Transfers
<1>4. CASE Len(got[t]) + 1 < req[t].count
  <2>1. drive.left > 1
    BY <1>2, <1>4
  <2>2. ide_wait(t) /\ UNCHANGED <<holder, waiters>>
    BY <1>1, <1>4 DEF lock
  <2>3. /\ TaskNext /\ current' \in Task /\ waiter' = t /\ Goes(t, "ide_pio")
        /\ \A u \in Task : state'[u] = "BLOCKED" <=> u = t \/ state[u] = "BLOCKED"
    BY <1>1, <1>2, <2>2, WaitStates
  <2>4. ListsOK' /\ SkipStep
    BY <1>1, <2>3, DriverLists DEF Label
  <2>5. ControllerType'
    BY <1>1, <1>2, <1>3, <2>2, <2>3 DEF ControllerOK, ControllerType
  <2>6. ControllerOK'
    BY <1>1, <1>2, <1>3, <2>1, <2>2, <2>3, <2>5, WaitsForDrive DEF Goes
  <2> QED BY <1>3, <2>3, <2>4, <2>6 DEF StepResult, Label
<1>5. CASE ~(Len(got[t]) + 1 < req[t].count)
  <2>1. /\ ide_return(t) /\ UNCHANGED waiter
        /\ ~(drive.left > 1) /\ Len(got[t]) + 1 = req[t].count
    BY <1>1, <1>2, <1>5
  <2>2. /\ TaskNext \/ UNCHANGED taskVars
        /\ current' \in Task /\ Goes(t, "ide_done")
        /\ ListsOK' /\ SkipStep
    BY <1>1, <2>1, ReturnLists
  <2>3. ControllerType'
    <3>1. waiters' \in Seq(Task)
      BY <1>1, <2>1, ReturnStates
    <3> QED BY <1>1, <1>3, <2>1, <3>1 DEF ControllerOK, ControllerType, ide_return
  <2>4. ControllerOK'
    BY <1>1, <1>2, <1>3, <2>1, <2>3, ReturnsController
  <2> QED BY <1>3, <2>2, <2>4 DEF StepResult, Label
<1> QED BY <1>4, <1>5

LEMMA WriteStep ==
    ASSUME KernelOK, ListsOK, ControllerOK, NEW t \in Task, ide_write_sector(t)
    PROVE  StepResult
<1>1. /\ t = current /\ pc[t] = "ide_pio" /\ req[t].type = "REQ_WRITE"
      /\ drive.phase # "busy"
      /\ UNCHANGED <<lists, irq>>
      /\ IF Unwritten(t)
         THEN PioSector(t, drive) /\ ide_wait(t) /\ UNCHANGED lock
         ELSE ide_return(t) /\ UNCHANGED <<waiter, drive, got>>
  BY DEF ide_write_sector
<1>2. /\ holder = t /\ waiter = Boot /\ ~irq /\ t # Idle /\ UNCHANGED req
      /\ req[t] \in Request /\ Len(got[t]) \in Nat /\ req[t].count \in Nat
      /\ Transfers(req[t], got[t]) /\ drive.type = "REQ_WRITE"
      /\ drive.left \in Nat /\ drive.left + Len(got[t]) = req[t].count
      /\ drive \in [disk : Disk, lba : Nat, left : Nat,
                    type : {"REQ_READ", "REQ_WRITE"}, phase : {"idle", "busy", "data"}]
  BY <1>1, InLoop DEF Transfers, lists
<1>3. CASE Unwritten(t)
  <2>1. drive \in [disk : Disk, lba : Nat, left : Nat \ {0},
                   type : {"REQ_READ", "REQ_WRITE"}, phase : {"idle", "busy", "data"}]
    <3>1. drive.left # 0
      BY <1>2, <1>3 DEF Unwritten
    <3> QED BY <1>2, <3>1
  <2>2. /\ got' \in [Task -> Seq(Disk \X Nat)]
        /\ \A u \in Task : u # t => got'[u] = got[u]
        /\ drive' \in [disk : Disk, lba : Nat, left : Nat,
                       type : {"REQ_READ", "REQ_WRITE"}, phase : {"idle", "busy", "data"}]
        /\ drive'.phase = "busy"
        /\ Transfers(req[t], got[t])'
        /\ DiskStep
    BY <1>1, <1>2, <1>3, <2>1, SectorMoves DEF Transfers
  <2>3. ide_wait(t) /\ UNCHANGED <<holder, waiters>>
    BY <1>1, <1>3 DEF lock
  <2>4. /\ TaskNext /\ current' \in Task /\ waiter' = t /\ Goes(t, "ide_pio")
        /\ \A u \in Task : state'[u] = "BLOCKED" <=> u = t \/ state[u] = "BLOCKED"
    BY <1>1, <1>2, <2>3, WaitStates
  <2>5. ListsOK' /\ SkipStep
    BY <1>1, <2>4, DriverLists DEF Label
  <2>6. ControllerType'
    BY <1>1, <1>2, <2>2, <2>3, <2>4 DEF ControllerOK, ControllerType
  <2>7. ControllerOK'
    BY <1>1, <1>2, <2>2, <2>3, <2>4, <2>6, WaitsForDrive DEF Goes
  <2> QED BY <2>2, <2>4, <2>5, <2>7 DEF StepResult, Label
<1>4. CASE ~Unwritten(t)
  <2>1. ide_return(t) /\ UNCHANGED <<waiter, drive, got>> /\ Len(got[t]) = req[t].count
    BY <1>1, <1>2, <1>4 DEF Unwritten
  <2>2. /\ TaskNext \/ UNCHANGED taskVars
        /\ current' \in Task /\ Goes(t, "ide_done")
        /\ ListsOK' /\ SkipStep
    BY <1>1, <2>1, ReturnLists
  <2>3. ControllerType'
    <3>1. waiters' \in Seq(Task)
      BY <1>1, <2>1, ReturnStates
    <3> QED BY <1>1, <2>1, <3>1 DEF ControllerOK, ControllerType, ide_return
  <2>4. ControllerOK'
    BY <1>1, <1>2, <2>1, <2>3, ReturnsController
  <2>5. DiskStep
    BY <1>2, <2>1 DEF DiskStep
  <2> QED BY <2>2, <2>4, <2>5 DEF StepResult, Label
<1> QED BY <1>3, <1>4

LEMMA DriveStep == ASSUME KernelOK, ListsOK, ControllerOK, DriveDone PROVE StepResult
<1>1. /\ drive.phase = "busy" /\ drive'.phase # "busy" /\ irq'
      /\ drive' = [drive EXCEPT !.phase =
            IF drive.type = "REQ_WRITE" /\ drive.left = 0 THEN "idle" ELSE "data"]
      /\ UNCHANGED <<state, current, pc, lists, holder, waiters, waiter, got>>
  BY DEF DriveDone, taskVars, lock, ControllerOK, ControllerType
<1>2. ListsOK' /\ SkipStep
  BY <1>1, QuietLists, OthersSkip DEF Queued
<1>3. ControllerType'
  BY <1>1 DEF DriveDone, ControllerOK, ControllerType
<1>4. LockOK' /\ WaiterOK'
  BY <1>1 DEF ControllerOK, LockOK, WaiterOK
<1>5. TransfersOK'
  <2>1. UNCHANGED <<drive.disk, drive.type, drive.lba, drive.left>>
    BY <1>1 DEF ControllerOK, ControllerType
  <2> QED BY <1>1, <2>1 DEF ControllerOK, TransfersOK, Transfers, lists
<1>6. DiskStep /\ current' \in Task /\ UNCHANGED taskVars
  BY <1>1 DEF DiskStep, lists, taskVars, KernelOK
<1> QED BY <1>1, <1>2, <1>3, <1>4, <1>5, <1>6 DEF StepResult, ControllerOK

LEMMA HandlerStep == ASSUME KernelOK, ListsOK, ControllerOK, ide_handler PROVE StepResult
<1>1. /\ irq /\ irq' = FALSE /\ waiter # Boot /\ waiter \in Task
      /\ pc[waiter] = "ide_pio" /\ state[waiter] = "BLOCKED"
      /\ state' = Unblocked(state, {waiter}) /\ waiter' = Boot
      /\ UNCHANGED <<current, pc, lists, holder, waiters, drive, got>>
  BY DEF ide_handler, WaiterWoken, lock, ControllerOK, ControllerType, WaiterOK
<1>2. waiter \in Waiters(state)
  BY <1>1 DEF Waiters, Sleeping
<1>3. /\ TaskNext
      /\ \A u \in Task : state'[u] = "BLOCKED" <=> state[u] = "BLOCKED" /\ u # waiter
  BY <1>1, <1>2, WokenStates DEF KernelOK
<1>4. ListsOK' /\ SkipStep
  <2>1. \A u \in Task : Queued(u)' <=> Queued(u)
    BY <1>1, <1>3 DEF Queued
  <2> QED BY <1>1, <2>1, QuietLists, OthersSkip
<1>5. ControllerType'
  BY <1>1, TaskAssumption DEF ControllerOK, ControllerType
<1>6. LockOK'
  BY <1>1, <1>3 DEF ControllerOK, LockOK
<1>7. WaiterOK'
  BY <1>1, <1>3, TaskAssumption DEF ControllerOK, WaiterOK
<1>8. TransfersOK'
  BY <1>1 DEF ControllerOK, TransfersOK, Transfers, lists
<1>9. DiskStep /\ current' \in Task
  BY <1>1 DEF DiskStep, lists, KernelOK
<1> QED BY <1>1, <1>3, <1>4, <1>5, <1>6, <1>7, <1>8, <1>9 DEF StepResult, ControllerOK

LEMMA PreemptStep == ASSUME KernelOK, ListsOK, ControllerOK, Preempt PROVE StepResult
<1>1. schedule(state) /\ UNCHANGED <<pc, lists, lock, waiter, hardware, got>>
  BY DEF Preempt, Preempted, deviceVars
<1>2. state = Unblocked(state, {}) /\ {} \in SUBSET Waiters(state)
  BY DEF KernelOK, TaskInv, TaskTypeOK, Unblocked
<1>3. /\ TaskNext /\ current' \in Task
      /\ \A u \in Task : state'[u] = "BLOCKED" <=> state[u] = "BLOCKED"
  <2>1. schedule(Unblocked(state, {}))
    BY <1>1, <1>2
  <2> QED BY <1>2, <2>1, YieldStates DEF schedule, KernelOK
<1>4. ListsOK' /\ SkipStep
  <2>1. \A u \in Task : Queued(u)' <=> Queued(u)
    BY <1>1, <1>3 DEF Queued
  <2> QED BY <1>1, <2>1, QuietLists, OthersSkip
<1>5. ControllerOK'
  <2>1. got' \in [Task -> Seq(Disk \X Nat)]
    BY <1>1 DEF ControllerOK, ControllerType
  <2>2. \A t \in Task : pc[t] \in {"user", "do_request"} => got'[t] = <<>>
    BY <1>1 DEF ControllerOK, TransfersOK
  <2>3. UNCHANGED req
    BY <1>1 DEF lists
  <2> QED BY <1>1, <1>3, <2>1, <2>2, <2>3, QuietController
<1>6. DiskStep
  BY <1>1 DEF DiskStep, lists
<1> QED BY <1>1, <1>3, <1>4, <1>5, <1>6 DEF StepResult

LEMMA RequestStep ==
    ASSUME KernelOK, ListsOK, ControllerOK, NEW t \in Task, device_request(t)
    PROVE  StepResult
<1>1. /\ t = current /\ t # Idle /\ pc[t] = "user" /\ state[t] = "RUNNING"
      /\ pc' = [pc EXCEPT ![t] = "do_request"] /\ Goes(t, "do_request")
      /\ UNCHANGED <<lock, waiter, hardware, got>>
  BY DEF device_request, Goto, Goes, Label, KernelOK, TaskInv, RunningIsCurrent
<1>2. PICK r \in Request :
         /\ req' = [req EXCEPT ![t] = r]
         /\ IF MustWait(request_list[r.disk])
            THEN /\ reqTask' = [reqTask EXCEPT ![t] = t]
                 /\ schedule(Entering(state, t, "BLOCKED"))
            ELSE /\ reqTask' = [reqTask EXCEPT ![t] = Boot]
                 /\ Stay
  BY DEF device_request
<1>3. req[t] = NoRequest /\ \A u \in Task : u # t => req'[u] = req[u]
  BY <1>1, <1>2 DEF ListsOK, ListsType
<1>4. /\ TaskNext \/ UNCHANGED taskVars
      /\ current' \in Task
      /\ \A u \in Task : state'[u] = "BLOCKED" <=>
            \/ state[u] = "BLOCKED"
            \/ u = t /\ reqTask'[t] = t
  <2>1. reqTask \in [Task -> Task \cup {Boot}] /\ t # Boot /\ current \in Task
    BY TaskAssumption DEF ListsOK, ListsType, KernelOK
  <2>2. CASE /\ reqTask' = [reqTask EXCEPT ![t] = t]
             /\ schedule(Entering(state, t, "BLOCKED"))
    <3>1. /\ TaskNext /\ current' \in Task
          /\ \A u \in Task : state'[u] = "BLOCKED" <=> u = t \/ state[u] = "BLOCKED"
      BY <1>1, <2>2, BlockStates DEF schedule, KernelOK
    <3>2. reqTask'[t] = t
      BY <2>1, <2>2
    <3> QED BY <3>1, <3>2
  <2>3. CASE reqTask' = [reqTask EXCEPT ![t] = Boot] /\ Stay
    <3>1. reqTask'[t] # t
      BY <2>1, <2>3
    <3> QED BY <2>1, <2>3, <3>1 DEF Stay, taskVars
  <2> QED BY <1>2, <2>2, <2>3
<1>5. ListsOK'
  BY <1>1, <1>4, RequestLists
<1>6. \A u \in Task : pc'[u] = IF u = t THEN "do_request" ELSE pc[u]
  BY <1>1 DEF KernelOK
<1>7. SkipStep
  BY <1>6, OthersSkip
<1>8. ControllerOK'
  <2>1. got' \in [Task -> Seq(Disk \X Nat)]
    BY <1>1 DEF ControllerOK, ControllerType
  <2>2. \A u \in Task : pc[u] \in {"user", "do_request"} => got'[u] = <<>>
    BY <1>1 DEF ControllerOK, TransfersOK
  <2> QED BY <1>1, <1>3, <1>4, <1>6, <2>1, <2>2, QuietController
<1>9. DiskStep
  <2>1. DiskService!Submit(t)
    BY <1>1, <1>2, <1>3 DEF DiskService!Submit
  <2> QED BY <2>1 DEF DiskStep, DiskService!DiskNext
<1> QED BY <1>1, <1>4, <1>5, <1>7, <1>8, <1>9 DEF StepResult, Label

LEMMA DoneStep ==
    ASSUME KernelOK, ListsOK, ControllerOK, NEW t \in Task, request_done(t)
    PROVE  StepResult
<1>1. /\ t = current /\ pc[t] = "ide_done" /\ t # Idle
      /\ req' = [req EXCEPT ![t] = NoRequest]
      /\ got' = [got EXCEPT ![t] = <<>>]
      /\ Goes(t, "user")
      /\ UNCHANGED <<current, lock, waiter, hardware>>
  BY NotIdle DEF request_done, Goto, Goes, Label
<1>2. /\ TaskNext \/ UNCHANGED taskVars
      /\ \A u \in Task : pc[u] # "do_request"
                            => (state'[u] = "BLOCKED" <=> state[u] = "BLOCKED")
  <2>1. CASE Alone(t)
    BY <1>1, <2>1 DEF Alone, taskVars
  <2>2. ASSUME NEW u, Hands(t, u)
        PROVE  /\ TaskNext
               /\ \A v \in Task : pc[v] # "do_request"
                     => (state'[v] = "BLOCKED" <=> state[v] = "BLOCKED")
    <3>1. u \in Waiters(state) /\ pc[u] = "do_request"
      BY <2>2 DEF Hands, Queued, Waiters, Sleeping
    <3> QED BY <1>1, <2>2, <3>1, WokenStates DEF Hands, KernelOK
  <2> QED BY <2>1, <2>2, DoneHands
<1>3. ListsOK' /\ SkipStep
  BY DoneLists, DoneSkips
<1>4. \A u \in Task : pc'[u] = IF u = t THEN "user" ELSE pc[u]
  BY <1>1 DEF Goes, KernelOK
<1>5. /\ got' \in [Task -> Seq(Disk \X Nat)] /\ got'[t] = <<>>
      /\ \A u \in Task : u # t => got'[u] = got[u] /\ req'[u] = req[u]
  BY <1>1 DEF ControllerOK, ControllerType, ListsOK, ListsType
<1>6. ControllerOK'
  <2>1. \A u \in Task : pc[u] \in {"user", "do_request"} => got[u] = <<>>
    BY DEF ControllerOK, TransfersOK
  <2> QED BY <1>1, <1>2, <1>4, <1>5, <2>1, QuietController
<1>7. DiskStep
  <2>1. req[t] # NoRequest /\ Len(got[t]) = req[t].count
    BY <1>1 DEF ListsOK, ControllerOK, TransfersOK
  <2>2. DiskService!Return(t)
    BY <1>1, <2>1 DEF DiskService!Return
  <2> QED BY <2>2 DEF DiskStep, DiskService!DiskNext
<1> QED BY <1>1, <1>2, <1>3, <1>6, <1>7 DEF StepResult, KernelOK, Label

LEMMA DeviceStep ==
    ASSUME DeviceInv, [DeviceNext]_vars
    PROVE  DeviceInv' /\ [TaskNext]_taskVars /\ DiskStep /\ (SkipStep \/ UNCHANGED vars)
<1> USE DEF DeviceInv
<1>1. CASE DeviceNext
  <2>1. StepResult
    BY <1>1, PreemptStep, DriveStep, HandlerStep, RequestStep, StartStep, LockStep,
       ReadStep, WriteStep, DoneStep DEF DeviceNext
  <2>2. TaskInv'
    BY <2>1, StepTaskInv DEF StepResult, KernelOK
  <2>3. pc' \in [Task -> Label] /\ pc'[Idle] = "user"
    <3> USE TaskAssumption DEF KernelOK
    <3>1. CASE UNCHANGED pc
      BY <3>1
    <3>2. ASSUME NEW t \in Task, NEW l \in Label, t # Idle, Goes(t, l)
          PROVE  pc' \in [Task -> Label] /\ pc'[Idle] = "user"
      BY <3>2 DEF Goes
    <3>3. UNCHANGED pc \/ \E t \in Task, l \in Label : Goes(t, l)
      BY <2>1 DEF StepResult
    <3>4. ASSUME NEW t \in Task, NEW l \in Label, Goes(t, l) PROVE t # Idle
      BY <3>4 DEF Goes
    <3> HIDE DEF DeviceInv, KernelOK
    <3> QED BY ONLY <3>1, <3>2, <3>3, <3>4
  <2>4. KernelOK'
    BY <2>1, <2>2, <2>3 DEF StepResult, KernelOK
  <2> QED BY <2>1, <2>4 DEF StepResult
<1>2. CASE UNCHANGED vars
  <2>1. /\ UNCHANGED <<state, current, pc, lists, lock, waiter, hardware, got>>
        /\ UNCHANGED <<req, taskVars>>
    BY <1>2 DEF vars, taskVars, deviceVars, lists
  <2>2. KernelOK'
    BY <2>1 DEF KernelOK, TaskInv, TaskTypeOK, RunningIsCurrent, IdleIsRunnable
  <2>3. ListsOK'
    BY <2>1, QuietLists DEF Queued
  <2>4. ControllerOK'
    <3>1. got' \in [Task -> Seq(Disk \X Nat)]
      BY <2>1 DEF ControllerOK, ControllerType
    <3>2. \A t \in Task : pc[t] \in {"user", "do_request"} => got'[t] = <<>>
      BY <2>1 DEF ControllerOK, TransfersOK
    <3> QED BY <2>1, <3>1, <3>2, QuietController
  <2> QED BY <1>2, <2>1, <2>2, <2>3, <2>4 DEF DiskStep
<1> QED BY <1>1, <1>2

LEMMA InitDeviceInv == DeviceInit => DeviceInv
<1> SUFFICES ASSUME DeviceInit PROVE DeviceInv
  OBVIOUS
<1> USE TaskAssumption, DeviceAssumption DEF DeviceInit, KernelInit
<1>1. KernelOK
  <2>1. TaskTypeOK
    BY DEF TaskTypeOK, State
  <2> QED BY <2>1 DEF KernelOK, Label, TaskInv, RunningIsCurrent, IdleIsRunnable
<1>2. \A d \in Disk : request_list[d] = <<>>
  OBVIOUS
<1>3. \A d \in Disk : \A t : ~Linked(request_list[d], t)
  BY <1>2 DEF Linked
<1>4. ListsType
  <2>1. request_list \in [Disk -> Seq(Task)]
    OBVIOUS
  <2> QED BY <2>1 DEF ListsType
<1>5. OneServed
  BY <1>2, <1>3 DEF OneServed, IsInjective
<1>6. ListsOK
  BY <1>2, <1>4, <1>5 DEF ListsOK, Sorted, Queued
<1>7. ControllerType
  <2>1. got \in [Task -> Seq(Disk \X Nat)]
    OBVIOUS
  <2>2. drive \in [disk : Disk, lba : Nat, left : Nat,
                   type : {"REQ_READ", "REQ_WRITE"}, phase : {"idle", "busy", "data"}]
    OBVIOUS
  <2>3. waiters \in Seq(Task)
    OBVIOUS
  <2> QED BY <2>1, <2>2, <2>3 DEF ControllerType
<1>8. LockOK
  BY DEF LockOK, Linked, IsInjective
<1>9. WaiterOK /\ TransfersOK
  BY DEF WaiterOK, TransfersOK
<1> QED BY <1>1, <1>6, <1>7, <1>8, <1>9 DEF DeviceInv, ControllerOK

-----------------------------------------------------------------------------
\* The invariant the theorems rest on.
LEMMA DeviceInvariant == DeviceSpec => []DeviceInv
<1>1. DeviceInv /\ [DeviceNext]_vars => DeviceInv'
  BY DeviceStep
<1> QED BY <1>1, InitDeviceInv, PTL DEF DeviceSpec

\* No step of the elevator or of the driver leaves the types of its fields.
THEOREM DeviceTypes == DeviceSpec => []DeviceTypeOK
<1>1. DeviceInv => DeviceTypeOK
  BY DEF DeviceInv, KernelOK, TaskInv, ListsOK, ListsType, ControllerOK, ControllerType,
     Label, DeviceTypeOK
<1> QED BY <1>1, DeviceInvariant, PTL

(***************************************************************************)
(* For every number of tasks, disks and requests, whatever is linked while *)
(* a request is served: device_request (device.c:171-222) has one of the   *)
(* requests of a disk served at a time, and always one.                    *)
(***************************************************************************)
THEOREM DeviceServesOne == DeviceSpec => []OneServed
<1>1. DeviceInv => OneServed
  BY DEF DeviceInv, ListsOK
<1> QED BY <1>1, DeviceInvariant, PTL

(***************************************************************************)
(* ide_handler finds the waiter it is for, and a task blocked in the       *)
(* driver is always about to be interrupted (ide.c:119-134).               *)
(***************************************************************************)
THEOREM DeviceInterrupts == DeviceSpec => []InterruptComes
<1>1. DeviceInv => InterruptComes
  BY DEF DeviceInv, ControllerOK, ControllerType, LockOK, WaiterOK, InterruptComes
<1> QED BY <1>1, DeviceInvariant, PTL

(***************************************************************************)
(* request_nextreq (device.c:139-168) takes the nearest request in the     *)
(* direction of the sweep: because the list is sorted when the request     *)
(* ends, not only when it was linked.                                      *)
(***************************************************************************)
THEOREM DeviceSkipsNobody == DeviceSpec => SkipsNobody
<1>1. DeviceInv /\ [DeviceNext]_vars => [SkipStep]_vars
  BY DeviceStep
<1> QED BY <1>1, DeviceInvariant, PTL DEF DeviceSpec, SkipsNobody, SkipStep

\* The steps of the elevator and of the driver are steps of the scheduler.
THEOREM DeviceImplementsTasks == DeviceSpec => TaskSpec
<1>1. DeviceInit => TaskInit
  <2> SUFFICES ASSUME DeviceInit PROVE TaskInit
    OBVIOUS
  <2>1. state = [t \in Task |-> IF t = current THEN "RUNNING"
                                ELSE IF t \in Task THEN "READY" ELSE "NONE"]
    BY TaskAssumption DEF DeviceInit, KernelInit
  <2> QED BY <2>1, TaskAssumption DEF DeviceInit, KernelInit, TaskInit
<1>2. DeviceInv /\ [DeviceNext]_vars => [TaskNext]_taskVars
  BY DeviceStep
<1> QED BY <1>1, <1>2, DeviceInvariant, PTL DEF DeviceSpec, TaskSpec

(***************************************************************************)
(* The driver implements AbstractDisk: a request is answered with exactly  *)
(* the sectors it asked for, in order, whatever the other requests are.    *)
(***************************************************************************)
THEOREM DeviceImplementsDisk == DeviceSpec => ImplementsDisk
<1>1. DeviceInit => DiskService!DiskInit
  BY DEF DeviceInit, DiskService!DiskInit
<1>2. DeviceInv /\ [DeviceNext]_vars => [DiskService!DiskNext]_(DiskService!diskVars)
  BY DeviceStep DEF DiskStep, DiskService!diskVars
<1> QED BY <1>1, <1>2, DeviceInvariant, PTL
        DEF DeviceSpec, ImplementsDisk, DiskService!DiskSpec

-----------------------------------------------------------------------------
(***************************************************************************)
(* The console (Console), the driver that waits for nothing, at the real   *)
(* size of the screen and of the display memory.                           *)
(***************************************************************************)

(***************************************************************************)
(* The screen starts with a row of the display memory, which bounds what   *)
(* scroll_up erases behind it.                                             *)
(***************************************************************************)
ConsoleInv ==
    /\ x \in Int /\ y \in Int /\ screen \in Int /\ pos \in Int
    /\ \E k \in Int : screen = ROW_SIZE * k
    /\ CursorOnScreen
    /\ StoresInMemory

LEMMA InitConsoleInv == ConsoleInit => ConsoleInv
<1> SUFFICES ASSUME ConsoleInit PROVE ConsoleInv
  OBVIOUS
<1> USE DEF ConsoleInit, ROW_SIZE, SCR_SIZE, WIDTH, HEIGHT, MEM_SIZE
<1>1. screen = ROW_SIZE * 0
  OBVIOUS
<1>2. CursorOnScreen /\ StoresInMemory
  BY DEF CursorOnScreen, StoresInMemory, Cleared, Overrun
<1> QED BY <1>1, <1>2 DEF ConsoleInv

(***************************************************************************)
(* command_lf keeps the screen in the memory and on its rows, and the      *)
(* cursor in its column: where LineFeed says.                              *)
(***************************************************************************)
LEMMA LineFeedStep ==
    ASSUME ConsoleInv, NEW cell, command_lf(cell), NEW p \in Int, NEW c \in Int,
           p = screen + y * ROW_SIZE + c
    PROVE  /\ y' \in 0..(HEIGHT - 1)
           /\ screen' \in Int /\ screen' >= 0 /\ screen' + SCR_SIZE <= MEM_SIZE
           /\ \E k \in Int : screen' = ROW_SIZE * k
           /\ LineFeed(p) = screen' + y' * ROW_SIZE + c
           /\ stored' = cell \/ StoresInMemory'
<1> USE DEF ROW_SIZE, SCR_SIZE, WIDTH, HEIGHT, MEM_SIZE, ConsoleInv, CursorOnScreen, OnLastRow
<1>1. CASE ~OnLastRow
  BY <1>1 DEF command_lf, LineFeed
<1>2. CASE OnLastRow
  <2>1. scroll_up /\ y' = y /\ y = 24
    BY <1>2 DEF command_lf
  <2>2. PICK k \in Int : screen = 160 * k
    OBVIOUS
  <2>3. CASE AtTheEnd
    <3>1. Base = 0 /\ screen' = 160 * 1 /\ stored' = <<0, 4320>>
      BY <2>1, <2>3 DEF scroll_up, Base, ErasedTo
    <3>2. StoresInMemory'
      BY <3>1 DEF StoresInMemory, Overrun
    <3>3. LineFeed(p) = screen' + y' * ROW_SIZE + c
      BY <1>2, <2>1, <3>1 DEF LineFeed
    <3> QED BY <2>1, <3>1, <3>2, <3>3
  <2>4. CASE ~AtTheEnd
    <3>1. k < 77
      BY <2>2, <2>4 DEF AtTheEnd
    <3>2. /\ Base = screen /\ screen' = 160 * (k + 1)
          /\ stored' = <<screen + 4000, screen + 4320>>
      BY <2>1, <2>2, <2>4 DEF scroll_up, Base, ErasedTo
    <3>3. StoresInMemory'
      BY <2>2, <3>1, <3>2 DEF StoresInMemory, Overrun
    <3>4. LineFeed(p) = screen' + y' * ROW_SIZE + c
      BY <1>2, <2>1, <2>2, <3>2 DEF LineFeed
    <3>5. screen' \in Int /\ screen' >= 0 /\ screen' + SCR_SIZE <= MEM_SIZE /\ k + 1 \in Int
      BY <2>2, <3>1, <3>2
    <3> QED BY <2>1, <3>2, <3>3, <3>4, <3>5
  <2> QED BY <2>3, <2>4
<1> QED BY <1>1, <1>2

LEMMA StepConsoleInv == ConsoleInv /\ [ConsoleNext]_consoleVars => ConsoleInv'
<1> SUFFICES ASSUME ConsoleInv, [ConsoleNext]_consoleVars PROVE ConsoleInv'
  OBVIOUS
<1>1. CASE console_clear
  <2>1. screen' = ROW_SIZE * 0
    BY <1>1 DEF console_clear, ROW_SIZE, WIDTH
  <2> QED BY <1>1, <2>1 DEF console_clear, Cleared, ConsoleInv, CursorOnScreen, StoresInMemory,
                         Overrun, ROW_SIZE, SCR_SIZE, WIDTH, HEIGHT, MEM_SIZE
<1>2. CASE form_feed
  <2>1. pos \in Int /\ 2 * x \in Int /\ pos = screen + y * ROW_SIZE + 2 * x
    BY DEF ConsoleInv, CursorOnScreen
  <2>2. command_lf(Nothing) /\ pos' = LineFeed(pos) /\ x' = x
    BY <1>2 DEF form_feed
  <2>3. stored' = Nothing => StoresInMemory'
    BY DEF Nothing, StoresInMemory, Overrun, MEM_SIZE
  <2>4. /\ y' \in 0..(HEIGHT - 1)
        /\ screen' \in Int /\ screen' >= 0 /\ screen' + SCR_SIZE <= MEM_SIZE
        /\ \E k \in Int : screen' = ROW_SIZE * k
        /\ LineFeed(pos) = screen' + y' * ROW_SIZE + 2 * x
        /\ stored' = Nothing \/ StoresInMemory'
    BY <2>1, <2>2, LineFeedStep
  <2> QED BY <2>2, <2>3, <2>4 DEF ConsoleInv, CursorOnScreen, ROW_SIZE, HEIGHT, WIDTH
<1>3. CASE line_feed
  <2>1. pos \in Int /\ 2 * x \in Int /\ pos = screen + y * ROW_SIZE + 2 * x
    BY DEF ConsoleInv, CursorOnScreen
  <2>2. command_lf(Nothing) /\ pos' = LineFeed(pos) - 2 * x /\ x' = 0
    BY <1>3 DEF line_feed
  <2>3. stored' = Nothing => StoresInMemory'
    BY DEF Nothing, StoresInMemory, Overrun, MEM_SIZE
  <2>4. /\ y' \in 0..(HEIGHT - 1)
        /\ screen' \in Int /\ screen' >= 0 /\ screen' + SCR_SIZE <= MEM_SIZE
        /\ \E k \in Int : screen' = ROW_SIZE * k
        /\ LineFeed(pos) = screen' + y' * ROW_SIZE + 2 * x
        /\ stored' = Nothing \/ StoresInMemory'
    BY <2>1, <2>2, LineFeedStep
  <2> QED BY <2>2, <2>3, <2>4 DEF ConsoleInv, CursorOnScreen, ROW_SIZE, HEIGHT, WIDTH
<1>4. CASE command_cr \/ command_bs \/ command_del \/ put
  <2>1. screen' = screen /\ y' = y
    BY <1>4 DEF command_cr, command_bs, command_del, put
  <2>2. x' \in Int /\ pos' \in Int /\ CursorOnScreen'
    BY <1>4, <2>1 DEF command_cr, command_bs, command_del, put, ConsoleInv, CursorOnScreen,
                      ROW_SIZE, SCR_SIZE, WIDTH, HEIGHT, MEM_SIZE
  <2>3. StoresInMemory'
    BY <1>4 DEF command_cr, command_bs, command_del, put, ConsoleInv, CursorOnScreen, Cell, Nothing,
                StoresInMemory, Overrun, ROW_SIZE, SCR_SIZE, WIDTH, HEIGHT, MEM_SIZE
  <2> QED BY <2>1, <2>2, <2>3 DEF ConsoleInv
<1>5. CASE put_wrapped
  <2> DEFINE before == pos - ROW_SIZE
             p == LineFeed(before)
  <2>1. before \in Int /\ before = screen + y * ROW_SIZE + 0 /\ x = WIDTH
    BY <1>5 DEF put_wrapped, ConsoleInv, CursorOnScreen, ROW_SIZE, WIDTH
  <2>2. command_lf(Cell(p)) /\ pos' = p + 2 /\ x' = 1
    BY <1>5, <2>1 DEF put_wrapped, WIDTH
  <2>3. /\ y' \in 0..(HEIGHT - 1)
        /\ screen' \in Int /\ screen' >= 0 /\ screen' + SCR_SIZE <= MEM_SIZE
        /\ \E k \in Int : screen' = ROW_SIZE * k
        /\ p = screen' + y' * ROW_SIZE + 0
        /\ stored' = Cell(p) \/ StoresInMemory'
    BY <2>1, <2>2, LineFeedStep
  <2>4. stored' = Cell(p) => StoresInMemory'
    BY <2>3 DEF Cell, StoresInMemory, Overrun, ROW_SIZE, SCR_SIZE, WIDTH, HEIGHT, MEM_SIZE
  <2> QED BY <2>2, <2>3, <2>4 DEF ConsoleInv, CursorOnScreen, ROW_SIZE, HEIGHT, WIDTH
<1>6. CASE UNCHANGED consoleVars
  BY <1>6 DEF consoleVars, ConsoleInv, CursorOnScreen, StoresInMemory
<1> QED BY <1>1, <1>2, <1>3, <1>4, <1>5, <1>6 DEF ConsoleNext

\* Cursor and screen stay together and in the display memory.
THEOREM ConsoleCursor == ConsoleSpec => []CursorOnScreen
<1>1. ConsoleInv => CursorOnScreen
  BY DEF ConsoleInv
<1> QED BY <1>1, InitConsoleInv, StepConsoleInv, PTL DEF ConsoleSpec

\* Stores go at most 96 bytes over the end of the display memory.
THEOREM ConsoleStores == ConsoleSpec => []StoresInMemory
<1>1. ConsoleInv => StoresInMemory
  BY DEF ConsoleInv
<1> QED BY <1>1, InitConsoleInv, StepConsoleInv, PTL DEF ConsoleSpec
=============================================================================
