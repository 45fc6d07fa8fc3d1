------------------------------ MODULE ProcThread ------------------------------
(***************************************************************************)
(* The processing threads of io/dap_proc_thread.c.  Each thread owns one   *)
(* callback queue per priority, a counter proc_queue_size, a mutex and a   *)
(* condition variable.  Any thread may add a callback; the owner pulls the *)
(* oldest callback of the highest non-empty priority, runs it with the     *)
(* mutex released and adds it again when it returns true.                  *)
(*                                                                         *)
(* A critical section of queue_lock is one action.  What happens between   *)
(* two critical sections (the test of signal_exit, the callback itself) is *)
(* an action of its own, so adds and the stop request interleave there.    *)
(***************************************************************************)
EXTENDS Naturals, Sequences, FiniteSets

CONSTANTS Threads,      \* the threads of s_threads
          Items,        \* callback/argument pairs; each is added once
          MaxPriority,  \* DAP_QUEUE_MSG_PRIORITY_MAX
          NoItem        \* NULL

ASSUME PriorityAssumption == MaxPriority \in Nat

ASSUME NoItemAssumption == NoItem \notin Items

VARIABLES queue,            \* queue[t][p]: list of items of priority p
          proc_queue_size,  \* the load counter kept beside the lists
          pc,               \* where the loop of t is
          item,             \* l_item of the loop of t
          item_priority,    \* l_item_priority of the loop of t
          signal_exit,      \* the exit request of t's context
          fate              \* what became of every item

vars == <<queue, proc_queue_size, pc, item, item_priority, signal_exit, fate>>

Priorities == 0..MaxPriority

PCs == {"pull", "wait", "pulled", "called", "again", "stopping", "stopped"}

Fates == {"new", "queued", "held", "done", "dropped"}

TypeOK ==
  /\ queue \in [Threads -> [Priorities -> Seq(Items)]]
  /\ proc_queue_size \in [Threads -> Nat]
  /\ pc \in [Threads -> PCs]
  /\ item \in [Threads -> Items \cup {NoItem}]
  /\ item_priority \in [Threads -> Priorities]
  /\ signal_exit \in [Threads -> BOOLEAN]
  /\ fate \in [Items -> Fates]

Init ==
  /\ queue = [t \in Threads |-> [p \in Priorities |-> <<>>]]
  /\ proc_queue_size = [t \in Threads |-> 0]
  /\ pc = [t \in Threads |-> "pull"]
  /\ item = [t \in Threads |-> NoItem]
  /\ item_priority = [t \in Threads |-> 0]
  /\ signal_exit = [t \in Threads |-> FALSE]
  /\ fate = [i \in Items |-> "new"]

(* Mutant: pthread_cond_signal is forgotten. *)
SignalForgotten(t) == UNCHANGED pc

(* pthread_cond_signal on queue_event: only t itself ever waits on it. *)
Signal(t) ==
  pc' = [pc EXCEPT ![t] = IF @ = "wait" THEN "pull" ELSE @]

(* Mutant: the item is appended but not counted. *)
EnqueueUncounted(t, i, p) ==
  /\ queue' = [queue EXCEPT ![t][p] = Append(@, i)]
  /\ proc_queue_size' = proc_queue_size
  /\ fate' = [fate EXCEPT ![i] = "queued"]

(* Mutant: DL_PREPEND for DL_APPEND. *)
EnqueueFirst(t, i, p) ==
  /\ queue' = [queue EXCEPT ![t][p] = <<i>> \o @]
  /\ proc_queue_size' = [proc_queue_size EXCEPT ![t] = @ + 1]
  /\ fate' = [fate EXCEPT ![i] = "queued"]

(* The critical section of dap_proc_thread_callback_add_pri. *)
Enqueue(t, i, p) ==
  /\ queue' = [queue EXCEPT ![t][p] = Append(@, i)]
  /\ proc_queue_size' = [proc_queue_size EXCEPT ![t] = @ + 1]
  /\ fate' = [fate EXCEPT ![i] = "queued"]

(* Another thread adds a callback to t.  A thread that has stopped has     *)
(* destroyed its mutex; the failure of the lock is not looked at, and the  *)
(* item joins a list nobody reads any more.                                *)
CallbackAdd(t, i, p) ==
  /\ fate[i] = "new"
  /\ Enqueue(t, i, p)
  /\ Signal(t)
  /\ UNCHANGED <<item, item_priority, signal_exit>>

(* dap_proc_thread_get_auto: a thread whose load is minimal. The counters  *)
(* are read without their locks, so the scan sees each at its own moment;  *)
(* any thread can be the answer.                                           *)
Add == \E t \in Threads, i \in Items, p \in Priorities : CallbackAdd(t, i, p)

NonEmpty(t) == {p \in Priorities : queue[t][p] # <<>>}

(* The scan from DAP_QUEUE_MSG_PRIORITY_MAX downwards stops at p. *)
Highest(t, p) == p \in NonEmpty(t) /\ \A q \in NonEmpty(t) : q <= p

(* Mutant: the pulled item stays in its list (no DL_DELETE). *)
TakeNoDelete(t, p) ==
  /\ proc_queue_size[t] > 0
  /\ Highest(t, p)
  /\ item' = [item EXCEPT ![t] = Head(queue[t][p])]
  /\ item_priority' = [item_priority EXCEPT ![t] = p]
  /\ proc_queue_size' = [proc_queue_size EXCEPT ![t] = @ - 1]
  /\ fate' = [fate EXCEPT ![Head(queue[t][p])] = "held"]
  /\ pc' = [pc EXCEPT ![t] = "pulled"]
  /\ UNCHANGED queue

(* s_proc_queue_pull finds an item, the first of the highest level. *)
Take(t, p) ==
  /\ proc_queue_size[t] > 0
  /\ Highest(t, p)
  /\ item' = [item EXCEPT ![t] = Head(queue[t][p])]
  /\ item_priority' = [item_priority EXCEPT ![t] = p]
  /\ queue' = [queue EXCEPT ![t][p] = Tail(@)]
  /\ proc_queue_size' = [proc_queue_size EXCEPT ![t] = @ - 1]
  /\ fate' = [fate EXCEPT ![Head(queue[t][p])] = "held"]
  /\ pc' = [pc EXCEPT ![t] = "pulled"]

(* The critical section of dap_proc_thread_loop: leave on exit, pull an    *)
(* item, or release the mutex in pthread_cond_wait.                        *)
Pull(t) ==
  /\ pc[t] = "pull"
  /\ \/ /\ signal_exit[t]
        /\ pc' = [pc EXCEPT ![t] = "pulled"]
        /\ UNCHANGED <<queue, proc_queue_size, item, item_priority, fate>>
     \/ ~signal_exit[t] /\ \E p \in Priorities : Take(t, p)
     \/ /\ ~signal_exit[t]
        /\ proc_queue_size[t] = 0 \/ NonEmpty(t) = {}
        /\ pc' = [pc EXCEPT ![t] = "wait"]
        /\ UNCHANGED <<queue, proc_queue_size, item, item_priority, fate>>
  /\ UNCHANGED signal_exit

(* pthread_cond_wait may return without a signal. *)
SpuriousWakeup(t) ==
  /\ pc[t] = "wait"
  /\ pc' = [pc EXCEPT ![t] = "pull"]
  /\ UNCHANGED <<queue, proc_queue_size, item, item_priority, signal_exit, fate>>

(* The mutex is released. signal_exit is tested again before the callback: *)
(* an item pulled before the exit request is freed without being called.   *)
Call(t) ==
  /\ pc[t] = "pulled"
  /\ pc' = [pc EXCEPT ![t] = IF signal_exit[t] THEN "again" ELSE "called"]
  /\ fate' = IF signal_exit[t] /\ item[t] # NoItem
             THEN [fate EXCEPT ![item[t]] = "dropped"] ELSE fate
  /\ item' = [item EXCEPT ![t] = IF signal_exit[t] THEN NoItem ELSE @]
  /\ UNCHANGED <<queue, proc_queue_size, item_priority, signal_exit>>

(* The callback returned true: it is added again at its own priority. *)
ReturnTrue(t) ==
  /\ pc[t] = "called"
  /\ Enqueue(t, item[t], item_priority[t])
  /\ item' = [item EXCEPT ![t] = NoItem]
  /\ pc' = [pc EXCEPT ![t] = "again"]
  /\ UNCHANGED <<item_priority, signal_exit>>

(* The callback returned false: the item is freed. *)
ReturnFalse(t) ==
  /\ pc[t] = "called"
  /\ fate' = [fate EXCEPT ![item[t]] = "done"]
  /\ item' = [item EXCEPT ![t] = NoItem]
  /\ pc' = [pc EXCEPT ![t] = "again"]
  /\ UNCHANGED <<queue, proc_queue_size, item_priority, signal_exit>>

(* Mutant: the loop condition ignores signal_exit. *)
AgainForEver(t) ==
  /\ pc[t] = "again"
  /\ pc' = [pc EXCEPT ![t] = "pull"]
  /\ UNCHANGED <<queue, proc_queue_size, item, item_priority, signal_exit, fate>>

(* while (!a_context->signal_exit) *)
Again(t) ==
  /\ pc[t] = "again"
  /\ pc' = [pc EXCEPT ![t] = IF signal_exit[t] THEN "stopping" ELSE "pull"]
  /\ UNCHANGED <<queue, proc_queue_size, item, item_priority, signal_exit, fate>>

(* dap_context_stop_n_kill: the flag is set and signalled under the mutex. *)
StopAndKill(t) ==
  /\ pc[t] # "stopped"
  /\ ~signal_exit[t]
  /\ signal_exit' = [signal_exit EXCEPT ![t] = TRUE]
  /\ Signal(t)
  /\ UNCHANGED <<queue, proc_queue_size, item, item_priority, fate>>

(* s_context_callback_stopped: what is still queued is dropped. *)
Stopped(t) ==
  /\ pc[t] = "stopping"
  /\ fate' = [i \in Items |->
                IF \E p \in Priorities : \E n \in 1..Len(queue[t][p]) : queue[t][p][n] = i
                THEN "dropped" ELSE fate[i]]
  /\ queue' = [queue EXCEPT ![t] = [p \in Priorities |-> <<>>]]
  /\ proc_queue_size' = [proc_queue_size EXCEPT ![t] = 0]
  /\ pc' = [pc EXCEPT ![t] = "stopped"]
  /\ UNCHANGED <<item, item_priority, signal_exit>>

Loop(t) == Pull(t) \/ Call(t) \/ ReturnTrue(t) \/ ReturnFalse(t) \/ Again(t) \/ Stopped(t)

Next == Add \/ \E t \in Threads : Loop(t) \/ StopAndKill(t) \/ SpuriousWakeup(t)

Spec == Init /\ [][Next]_vars

(* The scheduler runs every thread, and every callback returns. *)
FairSpec == Spec /\ \A t \in Threads : WF_vars(Loop(t))

-------------------------------------------------------------------------------

(* The places of the lists q of a thread that hold an item. *)
Places(q) == UNION {{p} \X DOMAIN q[p] : p \in Priorities}

Occurrences(t, i) == {pn \in Places(queue[t]) : queue[t][pn[1]][pn[2]] = i}

(* No callback is lost or duplicated: a queued item is in exactly one list *)
(* once, an item pulled by a loop is in no list and held by one loop only, *)
(* whatever adds, repeats and stop requests interleave.                    *)
Conservation ==
  \A i \in Items :
    LET places == {t \in Threads : Occurrences(t, i) # {}}
        holders == {t \in Threads : item[t] = i}
    IN /\ Cardinality(places) = (IF fate[i] = "queued" THEN 1 ELSE 0)
       /\ Cardinality(holders) = (IF fate[i] = "held" THEN 1 ELSE 0)
       /\ \A t \in places : Cardinality(Occurrences(t, i)) = 1

(* The load counter read by dap_proc_thread_get_auto and tested first by   *)
(* s_proc_queue_pull is the number of queued items, so the error branch    *)
(* "No item found in all piority levels" is never taken.                   *)
CounterExact ==
  \A t \in Threads : proc_queue_size[t] = Cardinality(Places(queue[t]))

(* The callback is never reached through a NULL item: a loop that left the *)
(* pull because of signal_exit still sees the flag when it tests it again. *)
CalledItemHeld ==
  \A t \in Threads :
    /\ pc[t] = "pulled" => item[t] # NoItem \/ signal_exit[t]
    /\ pc[t] = "called" => item[t] # NoItem

(* No lost wakeup: a loop blocked in pthread_cond_wait has nothing queued  *)
(* and has not been asked to exit.                                         *)
NoSleepWithWork ==
  \A t \in Threads : pc[t] = "wait" => proc_queue_size[t] = 0 /\ ~signal_exit[t]

(* dap_context_stop_n_kill joins the thread: once exit is requested the    *)
(* loop reaches s_context_callback_stopped, even when every callback asks  *)
(* to be repeated for ever.                                                *)
StopTerminates ==
  \A t \in Threads : signal_exit[t] ~> pc[t] = "stopped"

(* An item of the highest priority is pulled (or dropped by a stop) even   *)
(* when the callbacks ahead of it keep repeating: repeats go to the tail.  *)
(* Only an item added to a thread that has stopped already stays.          *)
HighestServed ==
  \A i \in Items, t \in Threads :
    (/\ pc[t] # "stopped"
     /\ \E n \in 1..Len(queue[t][MaxPriority]) : queue[t][MaxPriority][n] = i)
      ~> fate[i] # "queued"
===============================================================================
