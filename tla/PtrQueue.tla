------------------------------ MODULE PtrQueue ------------------------------
(***************************************************************************)
(* The pointer queue every worker is addressed through                     *)
(* (dap_events_socket_queue_ptr_send, build DAP_EVENTS_CAPS_QUEUE_PIPE2).  *)
(* A sender writes the pointer into a packet pipe; when the pipe is full   *)
(* it leaves the pointer in buf_out and starts a detached thread that      *)
(* moves buf_out into the pipe and ends as soon as buf_out is empty.       *)
(* The owner of the queue reads one packet at a time and calls the         *)
(* queue callback for every pointer of it.                                 *)
(*                                                                         *)
(* Pointers are numbered in the order of their sends: `sent' is the number *)
(* of dap_events_socket_queue_ptr_send calls so far.  The body of          *)
(* s_add_ptr_to_buf and one turn of the thread's loop run under            *)
(* buf_out_lock, so each is one step; the wait in select() is outside it.  *)
(***************************************************************************)
EXTENDS Integers, Sequences, Functions

CONSTANTS
    BufThreads,     \* names for s_dap_events_socket_buf_thread instances
    PipeSlots,      \* packets the pipe holds (F_SETPIPE_SZ / page)
    ChunkPtrs,      \* pointers in one write: PIPE_BUF / sizeof(void *)
    BasicMsgs,      \* l_basic_buf_size / sizeof(void *): DAP_QUEUE_MAX_MSGS
    MaxSent         \* bound: sends considered

ASSUME SizesAssumption ==
    /\ PipeSlots \in Nat \ {0}
    /\ ChunkPtrs \in Nat \ {0}
    /\ BasicMsgs \in Nat \ {0}
    /\ MaxSent \in Nat

VARIABLES
    sent,               \* pointers given to dap_events_socket_queue_ptr_send
    pipe,               \* packets in the pipe, each a sequence of pointers
    buf_out,            \* pointers waiting for room in the pipe
    buf_out_size_max,   \* capacity of buf_out, in pointers
    thread,             \* where each buf thread is
    body,               \* l_body of the reader: read, callback still to come
    received,           \* pointers queue_ptr_callback was called with
    lost                \* pointers dropped

vars == <<sent, pipe, buf_out, buf_out_size_max, thread, body, received, lost>>

Ptrs == 1..MaxSent

TypeOK ==
    /\ sent \in 0..MaxSent
    /\ pipe \in Seq(Seq(Ptrs))
    /\ Len(pipe) <= PipeSlots
    /\ \A k \in 1..Len(pipe) : Len(pipe[k]) \in 1..ChunkPtrs
    /\ buf_out \in Seq(Ptrs)
    /\ buf_out_size_max \in Nat
    /\ thread \in [BufThreads -> {"none", "write", "select"}]
    /\ body \in Seq(Ptrs)
    /\ received \in Seq(Ptrs)
    /\ lost \in SUBSET Ptrs

Init ==
    /\ sent = 0
    /\ pipe = <<>>
    /\ buf_out = <<>>
    /\ buf_out_size_max = BasicMsgs
    /\ thread = [t \in BufThreads |-> "none"]
    /\ body = <<>>
    /\ received = <<>>
    /\ lost = {}

PipeHasRoom == Len(pipe) < PipeSlots

----------------------------------------------------------------------------
(* s_add_ptr_to_buf, with the new pointer sent + 1 *)

\* buf_out is empty and write() took the pointer
SendDirect ==
    /\ buf_out = <<>>
    /\ PipeHasRoom
    /\ pipe' = Append(pipe, <<sent + 1>>)
    /\ UNCHANGED <<buf_out, buf_out_size_max, thread, lost>>

\* buf_out is empty, write() failed (the pipe is full, or any other error)
\* and a thread is started
SendStartingThread ==
    /\ buf_out = <<>>
    /\ \E t \in BufThreads :
          /\ thread[t] = "none"
          /\ thread' = [thread EXCEPT ![t] = "write"]
    /\ buf_out' = <<sent + 1>>
    /\ UNCHANGED <<pipe, buf_out_size_max, lost>>

\* pthread_create() failed: the pointer is dropped, the sender is told 0
SendWithoutThread ==
    /\ buf_out = <<>>
    /\ lost' = lost \cup {sent + 1}
    /\ UNCHANGED <<pipe, buf_out, buf_out_size_max, thread>>

\* Mutant: a capacity that holds the present content is taken for enough
ResizedLate(size, max) ==
    IF max < size THEN max + BasicMsgs ELSE max

\* the capacity buf_out has when one more pointer is about to be stored
Resized(size, max) ==
    IF max < size + 1 THEN max + BasicMsgs
    ELSE IF size + 1 <= BasicMsgs \div 2 /\ max > BasicMsgs THEN BasicMsgs
    ELSE max

\* Mutant: write() is tried first even when older pointers wait in buf_out
SendOvertaking ==
    /\ buf_out # <<>>
    /\ PipeHasRoom
    /\ pipe' = Append(pipe, <<sent + 1>>)
    /\ UNCHANGED <<buf_out, buf_out_size_max, thread, lost>>

\* Mutant: every buffered send starts a thread
SendStartingAnother ==
    /\ buf_out # <<>>
    /\ buf_out_size_max' = Resized(Len(buf_out), buf_out_size_max)
    /\ buf_out' = Append(buf_out, sent + 1)
    /\ \E t \in BufThreads :
          /\ thread[t] = "none"
          /\ thread' = [thread EXCEPT ![t] = "write"]
    /\ UNCHANGED <<pipe, lost>>

\* Mutant: a full buffer drops its oldest pointer instead of growing
SendEvicting ==
    /\ buf_out # <<>>
    /\ IF Len(buf_out) = BasicMsgs
       THEN buf_out' = Append(Tail(buf_out), sent + 1) /\ lost' = lost \cup {Head(buf_out)}
       ELSE buf_out' = Append(buf_out, sent + 1) /\ lost' = lost
    /\ UNCHANGED <<pipe, buf_out_size_max, thread>>

\* a thread is already moving buf_out: store the pointer behind the others
SendBuffered ==
    /\ buf_out # <<>>
    /\ buf_out_size_max' = Resized(Len(buf_out), buf_out_size_max)
    /\ buf_out' = Append(buf_out, sent + 1)
    /\ UNCHANGED <<pipe, thread, lost>>

Send ==
    /\ sent < MaxSent
    /\ sent' = sent + 1
    /\ SendDirect \/ SendStartingThread \/ SendWithoutThread \/ SendBuffered
    /\ UNCHANGED <<body, received>>

----------------------------------------------------------------------------
(* s_dap_events_socket_buf_thread *)

Chunk == SubSeq(buf_out, 1, ChunkPtrs)
Rest == SubSeq(buf_out, ChunkPtrs + 1, Len(buf_out))

\* everything was written: buf_out_size = 0 and the thread ends
WriteAll(t) ==
    /\ thread[t] = "write"
    /\ PipeHasRoom
    /\ Len(buf_out) <= ChunkPtrs
    /\ pipe' = Append(pipe, buf_out)
    /\ buf_out' = <<>>
    /\ thread' = [thread EXCEPT ![t] = "none"]
    /\ UNCHANGED <<sent, buf_out_size_max, body, received, lost>>

\* PIPE_BUF bytes were written: move the rest down and go on
WritePart(t) ==
    /\ thread[t] = "write"
    /\ PipeHasRoom
    /\ Len(buf_out) > ChunkPtrs
    /\ pipe' = Append(pipe, Chunk)
    /\ buf_out' = Rest
    /\ UNCHANGED <<sent, buf_out_size_max, thread, body, received, lost>>

\* EAGAIN: unlock and wait for room
WriteAgain(t) ==
    /\ thread[t] = "write"
    /\ ~PipeHasRoom
    /\ thread' = [thread EXCEPT ![t] = "select"]
    /\ UNCHANGED <<sent, pipe, buf_out, buf_out_size_max, body, received, lost>>

\* any other error: buf_out_size = 0 and the thread ends
WriteFails(t) ==
    /\ thread[t] = "write"
    /\ lost' = lost \cup {buf_out[i] : i \in 1..Len(buf_out)}
    /\ buf_out' = <<>>
    /\ thread' = [thread EXCEPT ![t] = "none"]
    /\ UNCHANGED <<sent, pipe, buf_out_size_max, body, received>>

\* Mutant: the descriptor is put in the set of select() for reading
SelectReadyToRead(t) ==
    /\ thread[t] = "select"
    /\ pipe # <<>>
    /\ thread' = [thread EXCEPT ![t] = "write"]
    /\ UNCHANGED <<sent, pipe, buf_out, buf_out_size_max, body, received, lost>>

\* select() reports room
SelectReady(t) ==
    /\ thread[t] = "select"
    /\ PipeHasRoom
    /\ thread' = [thread EXCEPT ![t] = "write"]
    /\ UNCHANGED <<sent, pipe, buf_out, buf_out_size_max, body, received, lost>>

\* select() timed out after 120 s or failed: everything in buf_out is
\* handed to cb_buf_cleaner and the thread ends
SelectGivesUp(t) ==
    /\ thread[t] = "select"
    /\ lost' = lost \cup {buf_out[i] : i \in 1..Len(buf_out)}
    /\ buf_out' = <<>>
    /\ thread' = [thread EXCEPT ![t] = "none"]
    /\ UNCHANGED <<sent, pipe, buf_out_size_max, body, received>>

BufThread(t) ==
    \/ WriteAll(t)
    \/ WritePart(t)
    \/ WriteAgain(t)
    \/ WriteFails(t)
    \/ SelectReady(t)
    \/ SelectGivesUp(t)

----------------------------------------------------------------------------
(* dap_events_socket_queue_proc_input_unsafe *)

\* read() takes one packet
Read ==
    /\ body = <<>>
    /\ pipe # <<>>
    /\ body' = Head(pipe)
    /\ pipe' = Tail(pipe)
    /\ UNCHANGED <<sent, buf_out, buf_out_size_max, thread, received, lost>>

\* queue_ptr_callback for the next pointer of l_body
Callback ==
    /\ body # <<>>
    /\ received' = Append(received, Head(body))
    /\ body' = Tail(body)
    /\ UNCHANGED <<sent, pipe, buf_out, buf_out_size_max, thread, lost>>

----------------------------------------------------------------------------
Next ==
    \/ Send
    \/ \E t \in BufThreads : BufThread(t)
    \/ Read
    \/ Callback

Spec == Init /\ [][Next]_vars

\* The owner polls its queue for ever and the kernel schedules the buf
\* thread; neither send() nor the time-out has to happen.
Fairness ==
    /\ WF_vars(Read)
    /\ WF_vars(Callback)
    /\ \A t \in BufThreads :
          /\ WF_vars(WriteAll(t) \/ WritePart(t) \/ WriteAgain(t))
          /\ WF_vars(SelectReady(t))

FairSpec == Spec /\ Fairness

----------------------------------------------------------------------------
Rising(s) == \A i, j \in 1..Len(s) : i < j => s[i] < s[j]
Below(s, u) == \A i \in 1..Len(s), j \in 1..Len(u) : s[i] < u[j]

\* Pointers reach queue_ptr_callback in the order they were sent, whether
\* they went straight into the pipe (s_add_ptr_to_buf) or through buf_out,
\* in which a chunked write of the buf thread may leave some of them.
Fifo ==
    /\ Rising(received)
    /\ Rising(body)
    /\ \A k \in 1..Len(pipe) : Rising(pipe[k])
    /\ Rising(buf_out)
    /\ Below(received, body)
    /\ \A k \in 1..Len(pipe) :
          /\ Below(received, pipe[k])
          /\ Below(body, pipe[k])
          /\ Below(pipe[k], buf_out)
    /\ \A k, l \in 1..Len(pipe) : k < l => Below(pipe[k], pipe[l])
    /\ Below(received, buf_out)
    /\ Below(body, buf_out)

\* s_add_ptr_to_buf takes an empty buf_out for "no thread is running": there
\* is a buf thread exactly while buf_out has content, and never a second one.
OneBufThread ==
    /\ \A t \in BufThreads : thread[t] # "none" => buf_out # <<>>
    /\ buf_out # <<>> => \E t \in BufThreads : thread[t] # "none"
    /\ \A t, u \in BufThreads : thread[t] # "none" /\ thread[u] # "none" => t = u

\* The store at buf_out + buf_out_size stays inside the allocation, although
\* the first store of a burst is done without looking at the capacity and
\* the capacity is cut back to DAP_QUEUE_MAX_MSGS between two bursts.
BufFits == Len(buf_out) <= buf_out_size_max

\* A pointer that was sent is called back or dropped: none stays for ever in
\* buf_out with no thread to move it.
EveryPtrHandled ==
    \A p \in Ptrs :
        (sent >= p) ~> (p \in lost \/ \E i \in 1..Len(received) : received[i] = p)

\* The pointers between a send and the callback, wherever they wait.
Piped == UNION {Range(c) : c \in Range(pipe)}
Queued == Range(body) \cup Piped \cup Range(buf_out)

Abstract == INSTANCE LossyFifo WITH last <- sent, queue <- Queued, out <- received

\* The pipe, the overflow buffer and the thread between them are one queue
\* that keeps the order, delivers nothing twice and drops only its newest part
\* (dap_events_socket_queue_ptr_send up to queue_ptr_callback).
ImplementsLossyFifo == Abstract!Spec
=============================================================================
