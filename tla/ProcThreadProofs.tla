--------------------------- MODULE ProcThreadProofs ---------------------------
(***************************************************************************)
(* Proofs about ProcThread for any threads, any callbacks and any number   *)
(* of priorities. The invariant that is inductive is IInv: the load        *)
(* counter counts the queued items, so a loop that found the counter or    *)
(* the lists empty found both empty, and that is what makes it safe to     *)
(* sleep.                                                                  *)
(*                                                                         *)
(* Conserved adds where each callback is: in one place of one list, in the *)
(* hands of one loop, or neither. From it follows that none is lost or run *)
(* by two loops.                                                           *)
(***************************************************************************)
EXTENDS ProcThread, FiniteSetTheorems, TLAPS

\* Leaves go to Zenon, with time to spare, unless they name the SMT solver.
USE ZenonT(30)

FinitePlaces == \A t \in Threads : IsFiniteSet(Places(queue[t]))

IInv ==
  /\ TypeOK
  /\ FinitePlaces
  /\ CounterExact
  /\ CalledItemHeld
  /\ NoSleepWithWork

(* DL_APPEND adds exactly one place. *)
LEMMA AppendAddsOne ==
  ASSUME NEW q \in [Priorities -> Seq(Items)], NEW p \in Priorities, NEW i \in Items
  PROVE  /\ Places([q EXCEPT ![p] = Append(@, i)])
              = Places(q) \cup {<<p, Len(q[p]) + 1>>}
         /\ <<p, Len(q[p]) + 1>> \notin Places(q)
<1> DEFINE r == [q EXCEPT ![p] = Append(@, i)]
<1>1. DOMAIN r[p] = DOMAIN q[p] \cup {Len(q[p]) + 1}
  BY SMTT(30)
<1>2. \A s \in Priorities : s # p => DOMAIN r[s] = DOMAIN q[s]
  OBVIOUS
<1>3. Len(q[p]) + 1 \notin DOMAIN q[p]
  BY SMTT(30)
<1> HIDE DEF r
<1>4. Places(r) = Places(q) \cup {<<p, Len(q[p]) + 1>>}
  BY <1>1, <1>2, SMTT(30) DEF Places
<1>5. <<p, Len(q[p]) + 1>> \notin Places(q)
  BY <1>3, SMTT(30) DEF Places
<1> QED BY <1>4, <1>5 DEF r

(* DL_DELETE of the first item of a non-empty level frees exactly one. *)
LEMMA TailRemovesOne ==
  ASSUME NEW q \in [Priorities -> Seq(Items)], NEW p \in Priorities, q[p] # <<>>
  PROVE  /\ Places([q EXCEPT ![p] = Tail(@)])
              = Places(q) \ {<<p, Len(q[p])>>}
         /\ <<p, Len(q[p])>> \in Places(q)
<1> DEFINE r == [q EXCEPT ![p] = Tail(@)]
<1>0. Len(q[p]) \in Nat \ {0}
  BY SMTT(30)
<1>1. DOMAIN r[p] = DOMAIN q[p] \ {Len(q[p])}
  BY <1>0, SMTT(30)
<1>2. \A s \in Priorities : s # p => DOMAIN r[s] = DOMAIN q[s]
  OBVIOUS
<1>3. Len(q[p]) \in DOMAIN q[p]
  BY <1>0, SMTT(30)
<1> HIDE DEF r
<1>4. Places(r) = Places(q) \ {<<p, Len(q[p])>>}
  BY <1>1, <1>2, SMTT(30) DEF Places
<1>5. <<p, Len(q[p])>> \in Places(q)
  BY <1>3, SMTT(30) DEF Places
<1> QED BY <1>4, <1>5 DEF r

(* Empty lists have a counter of 0. *)
LEMMA EmptyPlaces ==
  ASSUME IInv, NEW t \in Threads
  PROVE  NonEmpty(t) = {} => proc_queue_size[t] = 0
<1>1. queue[t] \in [Priorities -> Seq(Items)]
  BY DEF IInv, TypeOK
<1>2. SUFFICES ASSUME NonEmpty(t) = {} PROVE Places(queue[t]) = {}
  BY FS_EmptySet DEF IInv, CounterExact
<1>3. \A p \in Priorities : DOMAIN queue[t][p] = {}
  BY <1>1, <1>2, SMTT(30) DEF NonEmpty
<1> QED BY <1>3 DEF Places

(* The critical section of dap_proc_thread_callback_add_pri keeps the      *)
(* counter exact.                                                          *)
LEMMA EnqueueCounts ==
  ASSUME IInv, NEW t \in Threads, NEW i \in Items, NEW p \in Priorities, Enqueue(t, i, p)
  PROVE  /\ queue' \in [Threads -> [Priorities -> Seq(Items)]]
         /\ proc_queue_size' \in [Threads -> Nat]
         /\ fate' \in [Items -> Fates]
         /\ FinitePlaces'
         /\ CounterExact'
         /\ \A s \in Threads : s # t => proc_queue_size'[s] = proc_queue_size[s]
<1> USE DEF IInv, TypeOK, Enqueue
<1>1. /\ queue' \in [Threads -> [Priorities -> Seq(Items)]]
      /\ proc_queue_size' \in [Threads -> Nat]
      /\ \A s \in Threads : s # t => proc_queue_size'[s] = proc_queue_size[s]
  BY SMTT(30)
<1>2. fate' \in [Items -> Fates]
  BY DEF Fates
<1>3. \A s \in Threads : s # t => queue'[s] = queue[s]
  OBVIOUS
<1>4. queue'[t] = [queue[t] EXCEPT ![p] = Append(@, i)]
  OBVIOUS
<1>5. /\ Places(queue'[t]) = Places(queue[t]) \cup {<<p, Len(queue[t][p]) + 1>>}
      /\ <<p, Len(queue[t][p]) + 1>> \notin Places(queue[t])
  BY <1>4, AppendAddsOne
<1>6. /\ IsFiniteSet(Places(queue'[t]))
      /\ Cardinality(Places(queue'[t])) = Cardinality(Places(queue[t])) + 1
  <2> DEFINE S == Places(queue[t])
             x == <<p, Len(queue[t][p]) + 1>>
             R == Places(queue'[t])
  <2>1. IsFiniteSet(S)
    BY DEF FinitePlaces
  <2>2. R = S \cup {x} /\ x \notin S
    BY <1>5
  <2> HIDE DEF S, x, R
  <2>3. IsFiniteSet(R) /\ Cardinality(R) = Cardinality(S) + 1
    BY ONLY <2>1, <2>2, FS_AddElement
  <2> QED BY <2>3 DEF S, R
<1>7. FinitePlaces'
  BY <1>3, <1>6 DEF FinitePlaces
<1>8. CounterExact'
  BY <1>3, <1>6 DEF CounterExact
<1> QED BY <1>1, <1>2, <1>7, <1>8

(* s_proc_queue_pull keeps the counter exact and returns a real item. *)
LEMMA TakeCounts ==
  ASSUME IInv, NEW t \in Threads, NEW p \in Priorities, Take(t, p), UNCHANGED signal_exit
  PROVE  TypeOK' /\ FinitePlaces' /\ CounterExact' /\ item'[t] \in Items
<1> USE DEF IInv, TypeOK, Take
<1>0. queue[t][p] # <<>> /\ Head(queue[t][p]) \in Items
  BY SMTT(30) DEF Highest, NonEmpty
<1>1. /\ queue' \in [Threads -> [Priorities -> Seq(Items)]]
      /\ proc_queue_size' \in [Threads -> Nat]
      /\ item' \in [Threads -> Items \cup {NoItem}]
      /\ item_priority' \in [Threads -> Priorities]
      /\ item'[t] \in Items
  BY <1>0, SMTT(30)
<1>2. fate' \in [Items -> Fates] /\ pc' \in [Threads -> PCs]
  BY DEF Fates, PCs
<1>3. \A s \in Threads : s # t => queue'[s] = queue[s]
  OBVIOUS
<1>4. queue'[t] = [queue[t] EXCEPT ![p] = Tail(@)]
  OBVIOUS
<1>5. /\ Places(queue'[t]) = Places(queue[t]) \ {<<p, Len(queue[t][p])>>}
      /\ <<p, Len(queue[t][p])>> \in Places(queue[t])
  BY <1>0, <1>4, TailRemovesOne
<1>6. /\ IsFiniteSet(Places(queue'[t]))
      /\ Cardinality(Places(queue'[t])) = Cardinality(Places(queue[t])) - 1
  <2> DEFINE S == Places(queue[t])
             x == <<p, Len(queue[t][p])>>
             R == Places(queue'[t])
  <2>1. IsFiniteSet(S)
    BY DEF FinitePlaces
  <2>2. R = S \ {x} /\ x \in S
    BY <1>5
  <2> HIDE DEF S, x, R
  <2>3. IsFiniteSet(R) /\ Cardinality(R) = Cardinality(S) - 1
    BY ONLY <2>1, <2>2, FS_RemoveElement
  <2> QED BY <2>3 DEF S, R
<1>7. FinitePlaces'
  BY <1>3, <1>6 DEF FinitePlaces
<1>8. CounterExact'
  BY <1>3, <1>6 DEF CounterExact
<1> QED BY <1>1, <1>2, <1>7, <1>8

(* Every step of a thread or of a client keeps IInv. *)
LEMMA InductiveStep == IInv /\ [Next]_vars => IInv'
<1> SUFFICES ASSUME IInv, [Next]_vars PROVE IInv'
  OBVIOUS
<1> USE DEF IInv
<1>1. CASE UNCHANGED vars
  BY <1>1 DEF vars, TypeOK, FinitePlaces, CounterExact, CalledItemHeld, NoSleepWithWork
<1>2. ASSUME NEW t \in Threads, NEW i \in Items, NEW p \in Priorities, CallbackAdd(t, i, p)
      PROVE  IInv'
  <2>1. TypeOK' /\ FinitePlaces' /\ CounterExact'
    BY <1>2, EnqueueCounts DEF CallbackAdd, Signal, TypeOK, PCs
  <2>2. CalledItemHeld'
    BY <1>2 DEF CallbackAdd, Signal, TypeOK, CalledItemHeld
  <2>3. NoSleepWithWork'
    BY <1>2, EnqueueCounts DEF CallbackAdd, Signal, TypeOK, NoSleepWithWork
  <2> QED BY <2>1, <2>2, <2>3
<1>3. ASSUME NEW t \in Threads, Pull(t)
      PROVE  IInv'
  <2>1. CASE signal_exit[t] /\ pc' = [pc EXCEPT ![t] = "pulled"]
             /\ UNCHANGED <<queue, proc_queue_size, item, item_priority, fate, signal_exit>>
    <3>1. TypeOK' /\ CalledItemHeld' /\ NoSleepWithWork'
      BY <2>1 DEF TypeOK, PCs, CalledItemHeld, NoSleepWithWork
    <3>2. FinitePlaces' /\ CounterExact'
      BY <2>1 DEF FinitePlaces, CounterExact
    <3> QED BY <3>1, <3>2
  <2>2. ASSUME NEW p \in Priorities, Take(t, p), UNCHANGED signal_exit
        PROVE  IInv'
    <3>1. TypeOK' /\ FinitePlaces' /\ CounterExact' /\ item'[t] \in Items
      BY <2>2, TakeCounts
    <3>2. CalledItemHeld' /\ NoSleepWithWork'
      BY <2>2, <3>1, NoItemAssumption DEF Take, TypeOK, CalledItemHeld, NoSleepWithWork
    <3> QED BY <3>1, <3>2
  <2>3. CASE /\ ~signal_exit[t]
             /\ proc_queue_size[t] = 0 \/ NonEmpty(t) = {}
             /\ pc' = [pc EXCEPT ![t] = "wait"]
             /\ UNCHANGED <<queue, proc_queue_size, item, item_priority, fate, signal_exit>>
    <3>1. proc_queue_size[t] = 0
      BY <2>3, EmptyPlaces
    <3>2. TypeOK' /\ CalledItemHeld' /\ NoSleepWithWork'
      BY <2>3, <3>1 DEF TypeOK, PCs, CalledItemHeld, NoSleepWithWork
    <3>3. FinitePlaces' /\ CounterExact'
      BY <2>3 DEF FinitePlaces, CounterExact
    <3> QED BY <3>2, <3>3
  <2> QED BY <1>3, <2>1, <2>2, <2>3 DEF Pull
<1>4. ASSUME NEW t \in Threads, Call(t)
      PROVE  IInv'
  <2>1. fate' \in [Items -> Fates]
    BY <1>4 DEF Call, TypeOK, Fates
  <2>2. TypeOK'
    BY <1>4, <2>1 DEF Call, TypeOK, PCs
  <2>3. CalledItemHeld' /\ NoSleepWithWork'
    BY <1>4 DEF Call, TypeOK, CalledItemHeld, NoSleepWithWork
  <2>4. FinitePlaces' /\ CounterExact'
    BY <1>4 DEF Call, FinitePlaces, CounterExact
  <2> QED BY <2>2, <2>3, <2>4
<1>5. ASSUME NEW t \in Threads, ReturnTrue(t)
      PROVE  IInv'
  <2>1. item[t] \in Items /\ item_priority[t] \in Priorities
    BY <1>5 DEF ReturnTrue, TypeOK, CalledItemHeld
  <2>2. Enqueue(t, item[t], item_priority[t])
    BY <1>5 DEF ReturnTrue
  <2>3. TypeOK' /\ FinitePlaces' /\ CounterExact'
    BY <1>5, <2>1, <2>2, EnqueueCounts DEF ReturnTrue, TypeOK, PCs
  <2>4. CalledItemHeld' /\ NoSleepWithWork'
    BY <1>5, <2>1, <2>2, EnqueueCounts
       DEF ReturnTrue, TypeOK, CalledItemHeld, NoSleepWithWork
  <2> QED BY <2>3, <2>4
<1>6. ASSUME NEW t \in Threads, ReturnFalse(t) \/ Again(t) \/ SpuriousWakeup(t)
      PROVE  IInv'
  <2> USE <1>6 DEF ReturnFalse, Again, SpuriousWakeup
  <2>1. TypeOK'
    BY DEF TypeOK, PCs, Fates
  <2>2. CalledItemHeld' /\ NoSleepWithWork'
    BY DEF TypeOK, CalledItemHeld, NoSleepWithWork
  <2>3. FinitePlaces' /\ CounterExact'
    BY DEF FinitePlaces, CounterExact
  <2> QED BY <2>1, <2>2, <2>3
<1>7. ASSUME NEW t \in Threads, StopAndKill(t)
      PROVE  IInv'
  <2>1. TypeOK' /\ CalledItemHeld' /\ NoSleepWithWork'
    BY <1>7 DEF StopAndKill, Signal, TypeOK, PCs, CalledItemHeld, NoSleepWithWork
  <2>2. FinitePlaces' /\ CounterExact'
    BY <1>7 DEF StopAndKill, FinitePlaces, CounterExact
  <2> QED BY <2>1, <2>2
<1>8. ASSUME NEW t \in Threads, Stopped(t)
      PROVE  IInv'
  <2>1. TypeOK'
    BY <1>8, SMTT(30) DEF Stopped, TypeOK, PCs, Fates
  <2>2. CalledItemHeld' /\ NoSleepWithWork'
    BY <1>8 DEF Stopped, TypeOK, CalledItemHeld, NoSleepWithWork
  <2>3. queue'[t] = [p \in Priorities |-> <<>>] /\ proc_queue_size'[t] = 0
    BY <1>8 DEF Stopped, TypeOK
  <2>4. Places(queue'[t]) = {}
    BY <2>3, SMTT(30) DEF Places
  <2>5. \A s \in Threads : s # t => queue'[s] = queue[s] /\ proc_queue_size'[s] = proc_queue_size[s]
    BY <1>8 DEF Stopped, TypeOK
  <2>6. FinitePlaces' /\ CounterExact'
    BY <2>3, <2>4, <2>5, FS_EmptySet DEF FinitePlaces, CounterExact
  <2> QED BY <2>1, <2>2, <2>6
<1> QED BY <1>1, <1>2, <1>3, <1>4, <1>5, <1>6, <1>7, <1>8 DEF Next, Add, Loop

(* The initial state satisfies IInv. *)
LEMMA InitIInv == Init => IInv
<1> SUFFICES ASSUME Init PROVE IInv
  OBVIOUS
<1> USE DEF Init
<1>1. TypeOK /\ CalledItemHeld /\ NoSleepWithWork
  BY PriorityAssumption, SMTT(30)
     DEF TypeOK, Priorities, PCs, Fates, CalledItemHeld, NoSleepWithWork
<1>2. \A t \in Threads : Places(queue[t]) = {}
  BY SMTT(30) DEF Places
<1>3. FinitePlaces /\ CounterExact
  BY <1>2, FS_EmptySet DEF FinitePlaces, CounterExact
<1> QED BY <1>1, <1>3 DEF IInv

(* In every run of the processing threads, with any number of threads,     *)
(* callbacks and priorities: the state is well typed, proc_queue_size is   *)
(* the number of queued callbacks, no callback is called through a NULL    *)
(* item, and no loop sleeps in pthread_cond_wait while it has work or an   *)
(* exit request.                                                           *)
THEOREM ProcThreadSafety ==
  Spec => [](TypeOK /\ CounterExact /\ CalledItemHeld /\ NoSleepWithWork)
<1>1. IInv => TypeOK /\ CounterExact /\ CalledItemHeld /\ NoSleepWithWork
  BY DEF IInv
<1> QED BY <1>1, InitIInv, InductiveStep, PTL DEF Spec

-------------------------------------------------------------------------------
(* Where every callback is.                                                *)

Within(s, i) == \E n \in DOMAIN s : s[n] = i

Simple(s) == \A n, m \in DOMAIN s : s[n] = s[m] => n = m

(* A callback is in at most one list, once, and exactly while it is queued. *)
OneList ==
  \A i \in Items, t, u \in Threads, p, q \in Priorities :
     Within(queue[t][p], i) /\ Within(queue[u][q], i) => t = u /\ p = q

Listed ==
  /\ \A t \in Threads, p \in Priorities : Simple(queue[t][p])
  /\ OneList
  /\ \A i \in Items :
        fate[i] = "queued" <=> \E t \in Threads, p \in Priorities : Within(queue[t][p], i)

(* A loop that is not at work on a callback holds none; a held callback is *)
(* held by one loop.                                                       *)
Holding ==
  /\ \A t \in Threads : pc[t] \notin {"pulled", "called"} => item[t] = NoItem
  /\ \A t \in Threads : item[t] # NoItem => fate[item[t]] = "held"
  /\ \A t, u \in Threads : item[t] = item[u] /\ item[t] # NoItem => t = u
  /\ \A i \in Items : fate[i] = "held" => \E t \in Threads : item[t] = i

Conserved == Listed /\ Holding

(* DL_APPEND of a callback that is not in the list. *)
LEMMA AppendWithin ==
  ASSUME NEW s \in Seq(Items), NEW i \in Items
  PROVE  /\ \A j : Within(Append(s, i), j) <=> Within(s, j) \/ j = i
         /\ Simple(s) /\ ~Within(s, i) => Simple(Append(s, i))
<1> DEFINE r == Append(s, i)
<1>1. /\ Len(s) \in Nat /\ DOMAIN s = 1..Len(s) /\ DOMAIN r = 1..(Len(s) + 1)
      /\ \A n \in 1..Len(s) : r[n] = s[n]
      /\ r[Len(s) + 1] = i
  BY SMTT(30)
<1> HIDE DEF r
<1>2. \A j : Within(r, j) <=> Within(s, j) \/ j = i
  <2> TAKE j
  <2>1. Within(r, j) => Within(s, j) \/ j = i
    BY <1>1, SMTT(30) DEF Within
  <2>2. Within(s, j) => Within(r, j)
    BY <1>1, SMTT(30) DEF Within
  <2>3. Within(r, i)
    <3>1. Len(s) + 1 \in DOMAIN r BY <1>1, SMTT(30)
    <3> QED BY <1>1, <3>1 DEF Within
  <2> QED BY <2>1, <2>2, <2>3
<1>3. Simple(s) /\ ~Within(s, i) => Simple(r)
  BY <1>1, SMTT(30) DEF Simple, Within
<1> QED BY <1>2, <1>3 DEF r

(* DL_DELETE of the first callback of a list without repetition. *)
LEMMA TailWithin ==
  ASSUME NEW s \in Seq(Items), s # <<>>, Simple(s)
  PROVE  /\ \A j : Within(Tail(s), j) <=> Within(s, j) /\ j # Head(s)
         /\ Simple(Tail(s))
         /\ Within(s, Head(s))
<1> DEFINE r == Tail(s)
<1>1. /\ Len(s) \in Nat \ {0} /\ DOMAIN s = 1..Len(s) /\ DOMAIN r = 1..(Len(s) - 1)
      /\ \A n \in 1..(Len(s) - 1) : r[n] = s[n + 1]
      /\ Head(s) = s[1]
  BY SMTT(30)
<1> HIDE DEF r
<1>2. ASSUME NEW j, Within(r, j) PROVE Within(s, j) /\ j # Head(s)
  <2>1. PICK n \in 1..(Len(s) - 1) : s[n + 1] = j
    BY <1>1, <1>2 DEF Within
  <2>2. n + 1 \in DOMAIN s /\ 1 \in DOMAIN s /\ n + 1 # 1
    BY <1>1, SMTT(30)
  <2> QED BY <1>1, <2>1, <2>2 DEF Within, Simple
<1>3. ASSUME NEW j, Within(s, j), j # Head(s) PROVE Within(r, j)
  <2>1. PICK n \in DOMAIN s : s[n] = j
    BY <1>3 DEF Within
  <2>2. n - 1 \in DOMAIN r /\ r[n - 1] = s[n]
    BY <1>1, <1>3, <2>1, SMTT(30)
  <2> QED BY <2>1, <2>2 DEF Within
<1>4. Simple(r)
  <2> SUFFICES ASSUME NEW n \in DOMAIN r, NEW m \in DOMAIN r, r[n] = r[m] PROVE n = m
    BY DEF Simple
  <2>1. n \in Nat /\ m \in Nat /\ n + 1 \in DOMAIN s /\ m + 1 \in DOMAIN s
        /\ s[n + 1] = s[m + 1]
    BY <1>1, SMTT(30)
  <2>2. n + 1 = m + 1
    BY <2>1 DEF Simple
  <2> QED BY <2>1, <2>2, SMTT(30)
<1>5. Within(s, Head(s))
  <2>1. 1 \in DOMAIN s BY <1>1, SMTT(30)
  <2> QED BY <1>1, <2>1 DEF Within
<1> QED BY <1>2, <1>3, <1>4, <1>5 DEF r

(* The critical section of dap_proc_thread_callback_add_pri, for a callback *)
(* that is in no list.                                                      *)
LEMMA EnqueueListed ==
  ASSUME TypeOK, Listed, NEW t \in Threads, NEW i \in Items, NEW p \in Priorities,
         Enqueue(t, i, p), fate[i] # "queued"
  PROVE  Listed' /\ fate' = [fate EXCEPT ![i] = "queued"]
<1> USE DEF TypeOK
<1>1. queue[t][p] \in Seq(Items) /\ ~Within(queue[t][p], i) /\ Simple(queue[t][p])
  BY DEF Listed
<1>2. /\ queue'[t][p] = Append(queue[t][p], i)
      /\ \A u \in Threads, q \in Priorities : u # t \/ q # p => queue'[u][q] = queue[u][q]
      /\ fate' = [fate EXCEPT ![i] = "queued"]
  BY DEF Enqueue
<1>3. ASSUME NEW u \in Threads, NEW q \in Priorities
      PROVE  /\ Simple(queue'[u][q])
             /\ \A j : Within(queue'[u][q], j) <=> Within(queue[u][q], j) \/ (j = i /\ u = t /\ q = p)
  <2>1. CASE u = t /\ q = p
    <3>1. /\ \A j : Within(queue'[t][p], j) <=> Within(queue[t][p], j) \/ j = i
          /\ Simple(queue'[t][p])
      BY <1>1, <1>2, AppendWithin, SMTT(30)
    <3> QED BY <2>1, <3>1
  <2>2. CASE u # t \/ q # p
    <3>1. queue'[u][q] = queue[u][q] /\ ~(u = t /\ q = p) BY <1>2, <2>2
    <3>2. Simple(queue[u][q]) BY DEF Listed
    <3> QED BY <3>1, <3>2
  <2> QED BY <2>1, <2>2
<1>4. \A u \in Threads, q \in Priorities : ~Within(queue[u][q], i)
  BY DEF Listed
<1>5. \A j \in Items : fate'[j] = "queued" <=> fate[j] = "queued" \/ j = i
  BY <1>2
<1>6. OneList'
  <2> SUFFICES ASSUME NEW j \in Items, NEW v \in Threads, NEW u \in Threads,
                      NEW r \in Priorities, NEW q \in Priorities,
                      Within(queue'[v][r], j), Within(queue'[u][q], j)
               PROVE  v = u /\ r = q
    BY DEF OneList
  <2>1. CASE j = i
    <3>1. v = t /\ r = p BY <1>3, <1>4, <2>1
    <3>2. u = t /\ q = p BY <1>3, <1>4, <2>1
    <3> QED BY <3>1, <3>2
  <2>2. CASE j # i
    <3>1. Within(queue[v][r], j) BY <1>3, <2>2
    <3>2. Within(queue[u][q], j) BY <1>3, <2>2
    <3>3. OneList BY DEF Listed
    <3> QED BY <3>1, <3>2, <3>3 DEF OneList
  <2> QED BY <2>1, <2>2
<1>7. \A j \in Items :
        fate'[j] = "queued" <=> \E u \in Threads, q \in Priorities : Within(queue'[u][q], j)
  BY <1>3, <1>5 DEF Listed
<1> QED BY <1>2, <1>3, <1>6, <1>7 DEF Listed

(* s_proc_queue_pull takes its callback out of the only list it is in. *)
LEMMA TakeListed ==
  ASSUME TypeOK, Listed, NEW t \in Threads, NEW p \in Priorities, Take(t, p)
  PROVE  \E i \in Items :
            /\ fate[i] = "queued" /\ fate' = [fate EXCEPT ![i] = "held"]
            /\ item' = [item EXCEPT ![t] = i]
            /\ Listed'
<1> USE DEF TypeOK
<1> DEFINE s == queue[t][p]
           i == Head(s)
<1>1. s \in Seq(Items) /\ s # <<>> /\ Simple(s)
  BY DEF Take, Highest, NonEmpty, Listed
<1>2. i \in Items
  BY <1>1, SMTT(30)
<1>3. /\ queue'[t][p] = Tail(s)
      /\ \A u \in Threads, q \in Priorities : u # t \/ q # p => queue'[u][q] = queue[u][q]
      /\ fate' = [fate EXCEPT ![i] = "held"]
      /\ item' = [item EXCEPT ![t] = i]
  BY DEF Take
<1>4. Within(s, i) /\ Simple(Tail(s)) /\ \A j : Within(Tail(s), j) <=> Within(s, j) /\ j # i
  BY <1>1, TailWithin
<1> HIDE DEF i
<1>5. ASSUME NEW u \in Threads, NEW q \in Priorities
      PROVE  /\ Simple(queue'[u][q])
             /\ \A j \in Items : Within(queue'[u][q], j) <=> Within(queue[u][q], j) /\ j # i
  <2>1. CASE u = t /\ q = p
    BY <1>3, <1>4, <2>1
  <2>2. CASE u # t \/ q # p
    <3>1. ~Within(queue[u][q], i)
      BY <1>2, <1>4, <2>2 DEF Listed, OneList
    <3> QED BY <1>3, <2>2, <3>1 DEF Listed
  <2> QED BY <2>1, <2>2
<1>6. fate[i] = "queued"
  BY <1>2, <1>4 DEF Listed
<1>7. \A j \in Items : fate'[j] = "queued" <=> fate[j] = "queued" /\ j # i
  BY <1>2, <1>3
<1>8. OneList'
  <2> SUFFICES ASSUME NEW j \in Items, NEW v \in Threads, NEW u \in Threads,
                      NEW r \in Priorities, NEW q \in Priorities,
                      Within(queue'[v][r], j), Within(queue'[u][q], j)
               PROVE  v = u /\ r = q
    BY DEF OneList
  <2>1. Within(queue[v][r], j) BY <1>5
  <2>2. Within(queue[u][q], j) BY <1>5
  <2>3. OneList BY DEF Listed
  <2> QED BY <2>1, <2>2, <2>3 DEF OneList
<1>9. \A j \in Items :
        fate'[j] = "queued" <=> \E u \in Threads, q \in Priorities : Within(queue'[u][q], j)
  BY <1>5, <1>7 DEF Listed
<1>10. Listed'
  BY <1>5, <1>8, <1>9 DEF Listed
<1> QED BY <1>2, <1>3, <1>6, <1>10

(* s_context_callback_stopped drops what the lists of the thread hold. *)
LEMMA StoppedListed ==
  ASSUME TypeOK, Listed, NEW t \in Threads, Stopped(t)
  PROVE  /\ Listed'
         /\ \A i \in Items : fate'[i] = fate[i] \/ (fate[i] = "queued" /\ fate'[i] = "dropped")
<1> USE DEF TypeOK
<1>1. ASSUME NEW i \in Items
      PROVE  (\E p \in Priorities : \E n \in 1..Len(queue[t][p]) : queue[t][p][n] = i)
               <=> \E p \in Priorities : Within(queue[t][p], i)
  <2>1. \A p \in Priorities : DOMAIN queue[t][p] = 1..Len(queue[t][p])
    BY SMTT(30)
  <2> QED BY <2>1 DEF Within
<1>2. \A i \in Items :
        fate'[i] = IF \E p \in Priorities : Within(queue[t][p], i) THEN "dropped" ELSE fate[i]
  BY <1>1 DEF Stopped
<1>3. ASSUME NEW u \in Threads, NEW q \in Priorities
      PROVE  /\ Simple(queue'[u][q])
             /\ \A j : Within(queue'[u][q], j) <=> Within(queue[u][q], j) /\ u # t
  <2>1. CASE u = t
    <3>1. queue'[t][q] = <<>> BY DEF Stopped
    <3> QED BY <2>1, <3>1, SMTT(30) DEF Within, Simple
  <2>2. CASE u # t
    <3>1. queue'[u] = queue[u] BY <2>2 DEF Stopped
    <3> QED BY <2>2, <3>1 DEF Listed
  <2> QED BY <2>1, <2>2
<1>4. OneList'
  <2> SUFFICES ASSUME NEW j \in Items, NEW v \in Threads, NEW u \in Threads,
                      NEW r \in Priorities, NEW q \in Priorities,
                      Within(queue'[v][r], j), Within(queue'[u][q], j)
               PROVE  v = u /\ r = q
    BY DEF OneList
  <2>1. Within(queue[v][r], j) BY <1>3
  <2>2. Within(queue[u][q], j) BY <1>3
  <2>3. OneList BY DEF Listed
  <2> QED BY <2>1, <2>2, <2>3 DEF OneList
<1>5. ASSUME NEW j \in Items
      PROVE  fate'[j] = "queued" <=> \E u \in Threads, q \in Priorities : Within(queue'[u][q], j)
  <2>1. CASE \E p \in Priorities : Within(queue[t][p], j)
    <3>1. \A u \in Threads, q \in Priorities : Within(queue[u][q], j) => u = t
      BY <2>1 DEF Listed, OneList
    <3> QED BY <1>2, <1>3, <2>1, <3>1
  <2>2. CASE ~\E p \in Priorities : Within(queue[t][p], j)
    BY <1>2, <1>3, <2>2 DEF Listed
  <2> QED BY <2>1, <2>2
<1>6. Listed'
  BY <1>3, <1>4, <1>5 DEF Listed
<1>7. \A i \in Items : fate'[i] = fate[i] \/ (fate[i] = "queued" /\ fate'[i] = "dropped")
  BY <1>2 DEF Listed
<1> QED BY <1>6, <1>7

(* Every step of a thread or of a client keeps every callback in its place. *)
LEMMA ConservedStep == IInv /\ Conserved /\ [Next]_vars => Conserved'
<1> SUFFICES ASSUME IInv, Conserved, [Next]_vars PROVE Conserved'
  OBVIOUS
<1> USE DEF Conserved
<1>0. /\ TypeOK /\ CalledItemHeld /\ pc \in [Threads -> PCs]
      /\ item \in [Threads -> Items \cup {NoItem}] /\ fate \in [Items -> Fates]
  BY DEF IInv, TypeOK
<1>a. \A t \in Threads : pc[t] \notin {"pulled", "called"} => item[t] = NoItem
  BY DEF Holding
<1>b. \A t \in Threads : item[t] # NoItem => fate[item[t]] = "held" /\ item[t] \in Items
  BY <1>0 DEF Holding
<1>c. \A t, u \in Threads : item[t] = item[u] /\ item[t] # NoItem => t = u
  BY DEF Holding
<1>d. \A i \in Items : fate[i] = "held" => \E t \in Threads : item[t] = i
  BY DEF Holding
\* Steps that leave the lists and the held callbacks alone.
<1>1. ASSUME UNCHANGED <<queue, item, fate>>,
             \A t \in Threads : pc'[t] \notin {"pulled", "called"} => item[t] = NoItem
      PROVE  Conserved'
  <2>1. Listed'
    BY <1>1, SMTT(30) DEF Listed, OneList
  <2>2. Holding'
    BY <1>1 DEF Holding
  <2> QED BY <2>1, <2>2
<1>2. CASE UNCHANGED vars
  BY <1>1, <1>2, <1>a DEF vars
<1>3. ASSUME NEW t \in Threads, NEW i \in Items, NEW p \in Priorities, CallbackAdd(t, i, p)
      PROVE  Conserved'
  <2>1. Listed' /\ fate' = [fate EXCEPT ![i] = "queued"] /\ fate[i] = "new" /\ item' = item
    BY <1>0, <1>3, EnqueueListed DEF CallbackAdd
  <2>2. \A u \in Threads : pc'[u] = pc[u] \/ (pc[u] = "wait" /\ pc'[u] = "pull")
    BY <1>0, <1>3 DEF CallbackAdd, Signal
  <2>3. \A j \in Items : fate'[j] = fate[j] \/ (j = i /\ fate'[j] = "queued")
    BY <1>0, <2>1
  <2>4. \A u \in Threads : pc'[u] \notin {"pulled", "called"} => item'[u] = NoItem
    BY <1>a, <2>1, <2>2
  <2>5. \A u \in Threads : item'[u] # NoItem => fate'[item'[u]] = "held"
    BY <1>b, <2>1, <2>3
  <2>6. \A j \in Items : fate'[j] = "held" => \E u \in Threads : item'[u] = j
    BY <1>d, <2>1, <2>3
  <2>7. Holding'
    BY <1>c, <2>1, <2>4, <2>5, <2>6 DEF Holding
  <2> QED BY <2>1, <2>7
<1>4. ASSUME NEW t \in Threads, Pull(t)
      PROVE  Conserved'
  <2>1. item[t] = NoItem /\ pc[t] = "pull"
    BY <1>4, <1>a DEF Pull
  <2>2. CASE UNCHANGED <<queue, item, fate>>
    <3>1. \A u \in Threads : u # t => pc'[u] = pc[u]
      BY <1>0, <1>4 DEF Pull, Take
    <3> QED BY <1>1, <1>a, <2>1, <2>2, <3>1
  <2>3. ASSUME NEW p \in Priorities, Take(t, p)
        PROVE  Conserved'
    <3>1. PICK i \in Items :
            /\ fate[i] = "queued" /\ fate' = [fate EXCEPT ![i] = "held"]
            /\ item' = [item EXCEPT ![t] = i]
            /\ Listed'
      BY <1>0, <2>3, TakeListed
    <3>2. /\ item'[t] = i /\ \A u \in Threads : u # t => item'[u] = item[u] /\ pc'[u] = pc[u]
          /\ fate'[i] = "held" /\ \A j \in Items : j # i => fate'[j] = fate[j]
          /\ pc'[t] = "pulled"
      BY <1>0, <2>3, <3>1 DEF Take
    <3>3. \A u \in Threads : item[u] # i
      BY <1>b, <3>1, NoItemAssumption
    <3>4. Holding'
      <4>1. \A u \in Threads : pc'[u] \notin {"pulled", "called"} => item'[u] = NoItem
        BY <1>a, <3>2
      <4>2. \A u \in Threads : item'[u] # NoItem => fate'[item'[u]] = "held"
        BY <1>b, <3>2, <3>3, SMTT(30)
      <4>3. \A u, v \in Threads : item'[u] = item'[v] /\ item'[u] # NoItem => u = v
        BY <1>c, <3>2, <3>3, SMTT(30)
      <4>4. \A j \in Items : fate'[j] = "held" => \E u \in Threads : item'[u] = j
        BY <1>d, <2>1, <3>2, NoItemAssumption, SMTT(30)
      <4> QED BY <4>1, <4>2, <4>3, <4>4 DEF Holding
    <3> QED BY <3>1, <3>4
  <2> QED BY <1>4, <2>2, <2>3 DEF Pull
\* A loop that gives its callback up: f is what becomes of the callback.
<1>5. ASSUME NEW t \in Threads, NEW f, f # "held", Listed',
             item' = [item EXCEPT ![t] = NoItem],
             \A u \in Threads : u # t => pc'[u] = pc[u],
             fate' = IF item[t] # NoItem THEN [fate EXCEPT ![item[t]] = f] ELSE fate
      PROVE  Conserved'
  <2>1. item'[t] = NoItem /\ \A u \in Threads : u # t => item'[u] = item[u]
    BY <1>0, <1>5
  <2>2. \A j \in Items : fate'[j] = IF j = item[t] THEN f ELSE fate[j]
    BY <1>0, <1>5, NoItemAssumption
  <2>3. \A u \in Threads : pc'[u] \notin {"pulled", "called"} => item'[u] = NoItem
    BY <1>5, <1>a, <2>1
  <2>4. \A u \in Threads : item'[u] # NoItem => fate'[item'[u]] = "held"
    BY <1>b, <1>c, <2>1, <2>2
  <2>5. \A u, v \in Threads : item'[u] = item'[v] /\ item'[u] # NoItem => u = v
    BY <1>c, <2>1
  <2>6. \A j \in Items : fate'[j] = "held" => \E u \in Threads : item'[u] = j
    BY <1>5, <1>d, <2>1, <2>2, SMTT(30)
  <2>7. Holding'
    BY <2>3, <2>4, <2>5, <2>6 DEF Holding
  <2> QED BY <1>5, <2>7
\* Its lists stay as they are.
<1>6. ASSUME NEW t \in Threads, NEW f, f \notin {"held", "queued"},
             queue' = queue,
             fate' = IF item[t] # NoItem THEN [fate EXCEPT ![item[t]] = f] ELSE fate
      PROVE  Listed'
  <2>1. \A j \in Items : fate'[j] = "queued" <=> fate[j] = "queued"
    BY <1>0, <1>6, <1>b
  <2> QED BY <1>6, <2>1, SMTT(30) DEF Listed, OneList
<1>7. ASSUME NEW t \in Threads, Call(t)
      PROVE  Conserved'
  <2>1. CASE signal_exit[t]
    <3>1. /\ item' = [item EXCEPT ![t] = NoItem] /\ queue' = queue
          /\ \A u \in Threads : u # t => pc'[u] = pc[u]
          /\ fate' = IF item[t] # NoItem THEN [fate EXCEPT ![item[t]] = "dropped"] ELSE fate
      BY <1>0, <1>7, <2>1 DEF Call
    <3>2. Listed' BY <1>6, <3>1, SMTT(30)
    <3> QED BY <1>5, <3>1, <3>2
  <2>2. CASE ~signal_exit[t]
    <3>1. /\ UNCHANGED <<queue, item, fate>>
          /\ \A u \in Threads : u # t => pc'[u] = pc[u]
          /\ pc'[t] = "called"
      BY <1>0, <1>7, <2>2 DEF Call
    <3> QED BY <1>1, <1>a, <3>1
  <2> QED BY <2>1, <2>2
<1>8. ASSUME NEW t \in Threads, ReturnTrue(t)
      PROVE  Conserved'
  <2>1. item[t] \in Items /\ item_priority[t] \in Priorities /\ fate[item[t]] = "held"
    BY <1>0, <1>8, <1>b DEF ReturnTrue, CalledItemHeld, TypeOK
  <2>2. Listed' /\ fate' = [fate EXCEPT ![item[t]] = "queued"]
    BY <1>0, <1>8, <2>1, EnqueueListed DEF ReturnTrue
  <2>3. item' = [item EXCEPT ![t] = NoItem] /\ \A u \in Threads : u # t => pc'[u] = pc[u]
    BY <1>0, <1>8 DEF ReturnTrue
  <2>4. item[t] # NoItem BY <2>1, NoItemAssumption
  <2> QED BY <1>5, <2>2, <2>3, <2>4
<1>9. ASSUME NEW t \in Threads, ReturnFalse(t)
      PROVE  Conserved'
  <2>1. /\ item' = [item EXCEPT ![t] = NoItem] /\ queue' = queue
        /\ \A u \in Threads : u # t => pc'[u] = pc[u]
        /\ fate' = IF item[t] # NoItem THEN [fate EXCEPT ![item[t]] = "done"] ELSE fate
    BY <1>0, <1>9 DEF ReturnFalse, CalledItemHeld
  <2>2. Listed' BY <1>6, <2>1, SMTT(30)
  <2> QED BY <1>5, <2>1, <2>2
<1>10. ASSUME NEW t \in Threads, Again(t) \/ StopAndKill(t) \/ SpuriousWakeup(t)
       PROVE  Conserved'
  <2>1. /\ UNCHANGED <<queue, item, fate>>
        /\ \A u \in Threads : pc'[u] = pc[u] \/ pc[u] \notin {"pulled", "called"}
    BY <1>0, <1>10 DEF Again, StopAndKill, SpuriousWakeup, Signal
  <2> QED BY <1>1, <1>a, <2>1
<1>11. ASSUME NEW t \in Threads, Stopped(t)
       PROVE  Conserved'
  <2>1. /\ Listed'
        /\ \A i \in Items : fate'[i] = fate[i] \/ (fate[i] = "queued" /\ fate'[i] = "dropped")
    BY <1>0, <1>11, StoppedListed
  <2>2. item' = item /\ \A u \in Threads : pc'[u] = pc[u] \/ pc[u] = "stopping"
    BY <1>0, <1>11 DEF Stopped
  <2>3. \A u \in Threads : pc'[u] \notin {"pulled", "called"} => item'[u] = NoItem
    BY <1>a, <2>2
  <2>4. \A u \in Threads : item'[u] # NoItem => fate'[item'[u]] = "held"
    BY <1>b, <2>1, <2>2, SMTT(30)
  <2>5. \A j \in Items : fate'[j] = "held" => \E u \in Threads : item'[u] = j
    BY <1>d, <2>1, <2>2
  <2>6. Holding'
    BY <1>c, <2>2, <2>3, <2>4, <2>5 DEF Holding
  <2> QED BY <2>1, <2>6
<1> QED
  BY <1>2, <1>3, <1>4, <1>7, <1>8, <1>9, <1>10, <1>11 DEF Next, Add, Loop

(* One place in one list is what the three counts of Conservation say. *)
LEMMA ConservedCounts == TypeOK /\ Conserved => Conservation
<1> SUFFICES ASSUME TypeOK, Conserved, NEW i \in Items
             PROVE  LET places == {t \in Threads : Occurrences(t, i) # {}}
                        holders == {t \in Threads : item[t] = i}
                    IN /\ Cardinality(places) = (IF fate[i] = "queued" THEN 1 ELSE 0)
                       /\ Cardinality(holders) = (IF fate[i] = "held" THEN 1 ELSE 0)
                       /\ \A t \in places : Cardinality(Occurrences(t, i)) = 1
  BY DEF Conservation
<1> DEFINE places == {t \in Threads : Occurrences(t, i) # {}}
           holders == {t \in Threads : item[t] = i}
<1>1. ASSUME NEW t \in Threads, NEW x \in Occurrences(t, i)
      PROVE  /\ x[1] \in Priorities /\ x[2] \in DOMAIN queue[t][x[1]]
             /\ x = <<x[1], x[2]>> /\ queue[t][x[1]][x[2]] = i
  BY SMTT(30) DEF Occurrences, Places
<1>2. ASSUME NEW t \in Threads, NEW p \in Priorities, NEW n \in DOMAIN queue[t][p],
             queue[t][p][n] = i
      PROVE  <<p, n>> \in Occurrences(t, i)
  BY <1>2, SMTT(30) DEF Occurrences, Places
<1>3. ASSUME NEW t \in places PROVE Cardinality(Occurrences(t, i)) = 1
  <2>1. PICK x \in Occurrences(t, i) : TRUE
    OBVIOUS
  <2>2. ASSUME NEW y \in Occurrences(t, i) PROVE y = x
    <3>1. /\ Within(queue[t][x[1]], i) /\ Within(queue[t][y[1]], i)
      BY <1>1 DEF Within
    <3>2. x[1] = y[1]
      BY <1>1, <3>1, SMTT(30) DEF Conserved, Listed, OneList
    <3>3. x[2] = y[2]
      BY <1>1, <3>2, SMTT(30) DEF Conserved, Listed, Simple
    <3> QED BY <1>1, <3>2, <3>3
  <2>3. Occurrences(t, i) = {x} BY <2>1, <2>2
  <2> QED BY <2>3, FS_Singleton
<1>4. Cardinality(places) = (IF fate[i] = "queued" THEN 1 ELSE 0)
  <2>1. CASE fate[i] = "queued"
    <3>1. PICK t \in Threads, p \in Priorities : Within(queue[t][p], i)
      BY <2>1 DEF Conserved, Listed
    <3>2. t \in places
      BY <1>2, <3>1 DEF Within
    <3>3. ASSUME NEW u \in places PROVE u = t
      <4>1. PICK x \in Occurrences(u, i) : TRUE
        OBVIOUS
      <4>2. x[1] \in Priorities /\ Within(queue[u][x[1]], i)
        BY <1>1 DEF Within
      <4> QED BY <3>1, <4>2 DEF Conserved, Listed, OneList
    <3>4. places = {t} BY <3>2, <3>3
    <3> HIDE DEF places
    <3> QED BY <2>1, <3>4, FS_Singleton
  <2>2. CASE fate[i] # "queued"
    <3>1. places = {}
      BY <1>1, <2>2, SMTT(30) DEF Within, Conserved, Listed
    <3> HIDE DEF places
    <3> QED BY <2>2, <3>1, FS_EmptySet
  <2> QED BY <2>1, <2>2
<1>5. Cardinality(holders) = (IF fate[i] = "held" THEN 1 ELSE 0)
  <2>1. CASE fate[i] = "held"
    <3>1. PICK t \in Threads : item[t] = i
      BY <2>1 DEF Conserved, Holding
    <3>2. holders = {t}
      BY <3>1, NoItemAssumption DEF Conserved, Holding
    <3> HIDE DEF holders
    <3> QED BY <2>1, <3>2, FS_Singleton
  <2>2. CASE fate[i] # "held"
    <3>1. holders = {}
      BY <2>2, NoItemAssumption, SMTT(30) DEF Conserved, Holding
    <3> HIDE DEF holders
    <3> QED BY <2>2, <3>1, FS_EmptySet
  <2> QED BY <2>1, <2>2
<1> QED BY <1>3, <1>4, <1>5

(* In every run, with any number of threads, callbacks and priorities: no  *)
(* callback is lost, doubled or held by two loops, whatever adds, repeats  *)
(* and stop requests interleave.                                           *)
THEOREM CallbacksConserved == Spec => []Conservation
<1>1. Init => Conserved
  <2> SUFFICES ASSUME Init PROVE Conserved
    OBVIOUS
  <2>1. \A t \in Threads, p \in Priorities : queue[t][p] = <<>> BY DEF Init
  <2>2. \A t \in Threads, p \in Priorities : Simple(queue[t][p]) /\ \A i : ~Within(queue[t][p], i)
    BY <2>1, SMTT(30) DEF Simple, Within
  <2>3. \A i \in Items : fate[i] = "new" BY DEF Init
  <2>4. Listed BY <2>2, <2>3 DEF Listed, OneList
  <2>5. Holding BY <2>3 DEF Init, Holding
  <2> QED BY <2>4, <2>5 DEF Conserved
<1>2. IInv /\ Conserved => Conservation
  BY ConservedCounts DEF IInv
<1> QED BY <1>1, <1>2, InitIInv, InductiveStep, ConservedStep, PTL DEF Spec

===============================================================================
