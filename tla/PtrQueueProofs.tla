--------------------------- MODULE PtrQueueProofs ---------------------------
(***************************************************************************)
(* The pointer queue keeps its order, has one buffer thread exactly while  *)
(* the buffer is in use and never stores past the buffer's capacity, for   *)
(* every pipe size, chunk size, buffer size and number of sends.           *)
(*                                                                         *)
(* It implements LossyFifo: the pointers in the body being read, in the    *)
(* packets of the pipe and in the overflow buffer are its queue. Fifo      *)
(* makes the first pointer of the body the least of them and those of the  *)
(* buffer the largest, which is why a callback is a Take and a lost buffer *)
(* a Drop.                                                                 *)
(***************************************************************************)
EXTENDS PtrQueue, SequenceTheorems, TLAPS

\* Leaves go to Zenon, with time to spare, unless they name the SMT solver.
USE ZenonT(30)

UpTo(s, n) == \A i \in 1..Len(s) : s[i] <= n

\* Nothing is in the queue that was not sent, and the capacity never falls
\* below the one the queue is created with.
SentOnly ==
    /\ UpTo(received, sent)
    /\ UpTo(body, sent)
    /\ \A k \in 1..Len(pipe) : UpTo(pipe[k], sent)
    /\ UpTo(buf_out, sent)

CapacityFloor == buf_out_size_max >= BasicMsgs

IInv == TypeOK /\ SentOnly /\ CapacityFloor /\ OneBufThread /\ BufFits /\ Fifo

\* The empty queue satisfies the invariant.
LEMMA InitIInv == Init => IInv
BY SizesAssumption, SMTT(30)
   DEF Init, IInv, TypeOK, SentOnly, UpTo, CapacityFloor, OneBufThread, BufFits,
       Fifo, Rising, Below, Ptrs

\* Members of a sequence of pointers are natural numbers.
LEMMA PtrsAreNat == ASSUME NEW s \in Seq(Ptrs) PROVE Len(s) \in Nat /\ \A i \in 1..Len(s) : s[i] \in Nat
<1>1. \A i \in 1..Len(s) : s[i] \in Ptrs BY SMTT(30)
<1> QED BY <1>1, SizesAssumption, SMTT(30) DEF Ptrs

\* Pointers up to n are older than the send that follows.
LEMMA NewerThanAll ==
    ASSUME NEW s \in Seq(Ptrs), NEW n \in Nat, UpTo(s, n)
    PROVE  UpTo(s, n + 1) /\ \A c : Len(c) = 1 /\ c[1] = n + 1 => Below(s, c)
BY PtrsAreNat, SMTT(30) DEF UpTo, Below

\* What a packet appended to the pipe does to each of the pipe's packets.
LEMMA PipeAppend ==
    ASSUME NEW c \in Seq(Ptrs), pipe \in Seq(Seq(Ptrs)), pipe' = Append(pipe, c)
    PROVE  /\ Len(pipe') = Len(pipe) + 1
           /\ \A k \in 1..Len(pipe') :
                \/ k \in 1..Len(pipe) /\ pipe'[k] = pipe[k]
                \/ k = Len(pipe) + 1 /\ pipe'[k] = c
BY SMTT(30)

\* The order of the whole queue when a packet is appended that is in order
\* itself, newer than everything before it and older than what stays behind.
LEMMA FifoAppend ==
    ASSUME NEW c \in Seq(Ptrs), TypeOK, Fifo, pipe' = Append(pipe, c),
           received' = received, body' = body, buf_out' \in Seq(Ptrs),
           Rising(c), Below(received, c), Below(body, c),
           \A k \in 1..Len(pipe) : Below(pipe[k], c),
           Rising(buf_out'), Below(c, buf_out'),
           Below(received, buf_out'), Below(body, buf_out'),
           \A k \in 1..Len(pipe) : Below(pipe[k], buf_out')
    PROVE  Fifo'
<1>1. pipe \in Seq(Seq(Ptrs)) BY DEF TypeOK
<1>2. \A k \in 1..Len(pipe') :
          \/ k \in 1..Len(pipe) /\ pipe'[k] = pipe[k]
          \/ k = Len(pipe) + 1 /\ pipe'[k] = c
  BY <1>1, PipeAppend
<1>3. Rising(received)' /\ Rising(body)' /\ Rising(buf_out)' /\ Below(received, body)'
  BY DEF Fifo, Rising, Below
<1>4. Below(received, buf_out)' /\ Below(body, buf_out)'
  BY DEF Fifo, Rising, Below
<1>5. ASSUME NEW k \in 1..Len(pipe')
      PROVE  /\ Rising(pipe'[k])
             /\ Below(received, pipe'[k])
             /\ Below(body, pipe'[k])
             /\ Below(pipe'[k], buf_out')
  BY <1>2 DEF Fifo
<1>6. ASSUME NEW k \in 1..Len(pipe'), NEW l \in 1..Len(pipe'), k < l
      PROVE  Below(pipe'[k], pipe'[l])
  <2> Len(pipe) \in Nat
    BY <1>1, SMTT(30)
  <2>1. k \in 1..Len(pipe) /\ pipe'[k] = pipe[k]
    BY <1>1, <1>2, <1>6, PipeAppend, SMTT(30)
  <2>2. CASE l \in 1..Len(pipe) /\ pipe'[l] = pipe[l]
    BY <1>6, <2>1, <2>2 DEF Fifo
  <2>3. CASE l = Len(pipe) + 1 /\ pipe'[l] = c
    BY <2>1, <2>3
  <2> QED BY <1>2, <2>2, <2>3
<1> QED BY <1>3, <1>4, <1>5, <1>6 DEF Fifo

\* A write straight into the pipe: everything before it is older.
LEMMA SendDirectStep ==
    ASSUME IInv, Send, SendDirect
    PROVE  IInv'
<1> USE SizesAssumption
<1> DEFINE c == <<sent + 1>>
<1>0. /\ c \in Seq(Ptrs) /\ Len(c) = 1 /\ c[1] = sent + 1
      /\ pipe' = Append(pipe, c) /\ pipe \in Seq(Seq(Ptrs))
      /\ sent \in Nat /\ sent' = sent + 1
      /\ UNCHANGED <<buf_out, buf_out_size_max, thread, body, received>>
      /\ buf_out = <<>>
  BY SMTT(30) DEF IInv, TypeOK, Send, SendDirect, Ptrs
<1>1. TypeOK'
  BY SMTT(30) DEF IInv, TypeOK, Send, SendDirect, PipeHasRoom, Ptrs
<1> HIDE DEF c
<1>2. CapacityFloor' /\ OneBufThread' /\ BufFits'
  BY <1>0 DEF IInv, CapacityFloor, OneBufThread, BufFits
<1>3. SentOnly'
  <2>1. UpTo(received, sent)' /\ UpTo(body, sent)' /\ UpTo(buf_out, sent)'
    <3>1. received' = received /\ body' = body /\ buf_out' = buf_out /\ sent' = sent + 1
      BY <1>0
    <3>2. UpTo(received, sent + 1) /\ UpTo(body, sent + 1) /\ UpTo(buf_out, sent + 1)
      BY <1>0, NewerThanAll DEF IInv, TypeOK, SentOnly
    <3> QED BY <3>1, <3>2 DEF UpTo
  <2>2. ASSUME NEW k \in 1..Len(pipe') PROVE UpTo(pipe'[k], sent')
    <3>1. CASE k \in 1..Len(pipe) /\ pipe'[k] = pipe[k]
      <4>1. pipe[k] \in Seq(Ptrs) /\ UpTo(pipe[k], sent)
        BY <1>0, <3>1, SMTT(30) DEF IInv, SentOnly
      <4> QED BY <1>0, <3>1, <4>1, NewerThanAll
    <3>2. CASE pipe'[k] = c
      <4>1. UpTo(c, sent + 1) BY <1>0, SMTT(30) DEF UpTo
      <4> QED BY <1>0, <3>2, <4>1
    <3> QED BY <1>0, <3>1, <3>2, PipeAppend
  <2> QED BY <2>1, <2>2 DEF SentOnly, UpTo
<1>4. Rising(c) /\ Below(received, c) /\ Below(body, c) /\ \A k \in 1..Len(pipe) : Below(pipe[k], c)
  <2>1. Rising(c) BY <1>0, SMTT(30) DEF Rising
  <2>2. Below(received, c) /\ Below(body, c)
    BY <1>0, NewerThanAll DEF IInv, TypeOK, SentOnly
  <2>3. ASSUME NEW k \in 1..Len(pipe) PROVE Below(pipe[k], c)
    <3>1. pipe[k] \in Seq(Ptrs) /\ UpTo(pipe[k], sent)
      BY <1>0, SMTT(30) DEF IInv, SentOnly
    <3> QED BY <1>0, <3>1, NewerThanAll
  <2> QED BY <2>1, <2>2, <2>3
<1>5. Fifo'
  <2>1. /\ Rising(buf_out') /\ Below(c, buf_out')
        /\ Below(received, buf_out') /\ Below(body, buf_out')
        /\ \A k \in 1..Len(pipe) : Below(pipe[k], buf_out')
    BY <1>0, SMTT(30) DEF Rising, Below
  <2> QED BY <1>0, <1>4, <2>1, FifoAppend DEF IInv, TypeOK
<1> QED BY <1>1, <1>2, <1>3, <1>5 DEF IInv

\* A new content of buf_out that is in order and newer than the rest keeps
\* the order of the queue.
LEMMA FifoBuffer ==
    ASSUME Fifo, UNCHANGED <<pipe, body, received>>,
           Rising(buf_out'), Below(received, buf_out'), Below(body, buf_out'),
           \A k \in 1..Len(pipe) : Below(pipe[k], buf_out')
    PROVE  Fifo'
<1>1. Rising(received)' /\ Rising(body)' /\ Below(received, body)'
  BY DEF Fifo, Rising, Below
<1>2. \A k \in 1..Len(pipe') : Rising(pipe'[k]) /\ Below(received, pipe'[k]) /\ Below(body, pipe'[k])
  BY DEF Fifo
<1>3. \A k, l \in 1..Len(pipe') : k < l => Below(pipe'[k], pipe'[l])
  BY DEF Fifo
<1> QED BY <1>1, <1>2, <1>3, SMTT(30) DEF Fifo, Rising, Below

\* One more send changes nothing for what is already in the queue.
LEMMA SentOnlyKept ==
    ASSUME TypeOK, SentOnly, UNCHANGED <<pipe, body, received>>,
           sent' \in {sent, sent + 1}, UpTo(buf_out', sent')
    PROVE  SentOnly'
<1>1. sent \in Nat BY SizesAssumption, SMTT(30) DEF TypeOK
<1>2. UpTo(received, sent') /\ UpTo(body, sent')
  BY <1>1, NewerThanAll DEF TypeOK, SentOnly
<1>3. ASSUME NEW k \in 1..Len(pipe) PROVE UpTo(pipe[k], sent')
  <2>1. pipe[k] \in Seq(Ptrs) /\ UpTo(pipe[k], sent) BY SMTT(30) DEF TypeOK, SentOnly
  <2> QED BY <1>1, <2>1, NewerThanAll
<1> QED BY <1>2, <1>3 DEF SentOnly, UpTo

\* The first pointer of a burst goes into the empty buffer, with a thread.
LEMMA SendStartingThreadStep ==
    ASSUME IInv, Send, SendStartingThread
    PROVE  IInv'
<1> USE SizesAssumption
<1>0. /\ buf_out' \in Seq(Ptrs) /\ Len(buf_out') = 1 /\ buf_out'[1] = sent + 1
      /\ sent \in Nat /\ sent' = sent + 1
      /\ UNCHANGED <<pipe, body, received, buf_out_size_max>>
  BY SMTT(30) DEF IInv, TypeOK, Send, SendStartingThread, Ptrs
<1>1. TypeOK'
  BY SMTT(30) DEF IInv, TypeOK, Send, SendStartingThread, Ptrs
<1>2. CapacityFloor' /\ BufFits'
  BY <1>0, SMTT(30) DEF IInv, TypeOK, CapacityFloor, BufFits
<1>3. OneBufThread'
  <2>1. PICK t \in BufThreads : thread' = [thread EXCEPT ![t] = "write"]
    BY DEF SendStartingThread
  <2>2. \A u \in BufThreads : thread[u] = "none"
    BY DEF IInv, OneBufThread, SendStartingThread
  <2>3. thread \in [BufThreads -> {"none", "write", "select"}] BY DEF IInv, TypeOK
  <2>4. buf_out' # <<>> BY DEF SendStartingThread
  <2> QED BY <2>1, <2>2, <2>3, <2>4 DEF OneBufThread
<1>4. SentOnly'
  <2>1. UpTo(buf_out', sent') BY <1>0, SMTT(30) DEF UpTo
  <2> QED BY <1>0, <2>1, SentOnlyKept DEF IInv
<1>5. Fifo'
  <2>1. Rising(buf_out') BY <1>0, SMTT(30) DEF Rising
  <2>2. Below(received, buf_out') /\ Below(body, buf_out')
    BY <1>0, NewerThanAll DEF IInv, TypeOK, SentOnly
  <2>3. ASSUME NEW k \in 1..Len(pipe) PROVE Below(pipe[k], buf_out')
    <3>1. pipe[k] \in Seq(Ptrs) /\ UpTo(pipe[k], sent)
      BY SMTT(30) DEF IInv, TypeOK, SentOnly
    <3> QED BY <1>0, <3>1, NewerThanAll
  <2> QED BY <1>0, <2>1, <2>2, <2>3, FifoBuffer DEF IInv
<1> QED BY <1>1, <1>2, <1>3, <1>4, <1>5 DEF IInv

\* Without a thread the pointer is dropped and the queue is as it was.
LEMMA SendWithoutThreadStep ==
    ASSUME IInv, Send, SendWithoutThread
    PROVE  IInv'
<1> USE SizesAssumption
<1>0. UNCHANGED <<pipe, buf_out, body, received, buf_out_size_max, thread>> /\ sent' = sent + 1 /\ sent \in Nat
  BY SMTT(30) DEF IInv, TypeOK, Send, SendWithoutThread
<1>1. TypeOK'
  BY SMTT(30) DEF IInv, TypeOK, Send, SendWithoutThread, Ptrs
<1>2. CapacityFloor' /\ BufFits' /\ OneBufThread' /\ Fifo'
  <2>1. CapacityFloor' /\ BufFits' BY <1>0 DEF IInv, CapacityFloor, BufFits
  <2>2. OneBufThread' BY <1>0 DEF IInv, OneBufThread
  <2>3. Fifo' BY <1>0 DEF IInv, Fifo
  <2> QED BY <2>1, <2>2, <2>3
<1>3. UpTo(buf_out, sent + 1)
  BY <1>0, NewerThanAll DEF IInv, TypeOK, SentOnly
<1>4. SentOnly'
  BY <1>0, <1>3, SentOnlyKept DEF IInv
<1> QED BY <1>1, <1>2, <1>4 DEF IInv

\* A pointer stored behind the others: there is room for it, it is the
\* newest, and the thread that moves the buffer is already there.
LEMMA SendBufferedStep ==
    ASSUME IInv, Send, SendBuffered
    PROVE  IInv'
<1> USE SizesAssumption
<1> DEFINE n == Len(buf_out)
<1>0. /\ buf_out \in Seq(Ptrs) /\ n \in Nat /\ n >= 1
      /\ buf_out' \in Seq(Ptrs) /\ Len(buf_out') = n + 1 /\ buf_out'[n + 1] = sent + 1
      /\ \A i \in 1..n : buf_out'[i] = buf_out[i]
      /\ sent \in Nat /\ sent' = sent + 1
      /\ UNCHANGED <<pipe, body, received, thread>>
  BY SMTT(30) DEF IInv, TypeOK, Send, SendBuffered, Ptrs
<1>1. buf_out_size_max' = Resized(n, buf_out_size_max) /\ buf_out_size_max \in Nat
  BY DEF IInv, TypeOK, SendBuffered
<1>2. TypeOK'
  BY <1>0, <1>1, SMTT(30) DEF IInv, TypeOK, Send, SendBuffered, Ptrs, Resized
<1> HIDE DEF n
<1>3. CapacityFloor' /\ BufFits'
  <2>1. n <= buf_out_size_max /\ buf_out_size_max >= BasicMsgs
    BY DEF IInv, BufFits, CapacityFloor, n
  <2>2. BasicMsgs \div 2 <= BasicMsgs BY SMTT(30)
  <2> QED BY <1>0, <1>1, <2>1, <2>2, SMTT(30) DEF CapacityFloor, BufFits, Resized
<1>4. OneBufThread'
  <2>1. buf_out # <<>> /\ buf_out' # <<>> BY SMTT(30) DEF SendBuffered, IInv, TypeOK
  <2> QED BY <1>0, <2>1 DEF IInv, OneBufThread
<1>5. UpTo(buf_out, sent) /\ UpTo(body, sent) /\ UpTo(received, sent)
  BY DEF IInv, SentOnly
<1>6. \A i \in 1..n : buf_out[i] \in Nat /\ buf_out[i] <= sent
  BY <1>0, <1>5, PtrsAreNat DEF UpTo, n
<1>7. SentOnly'
  <2>1. UpTo(buf_out', sent') BY <1>0, <1>6, SMTT(30) DEF UpTo
  <2> QED BY <1>0, <2>1, SentOnlyKept DEF IInv
<1>8. ASSUME NEW s \in Seq(Ptrs), UpTo(s, sent), Below(s, buf_out)
      PROVE  Below(s, buf_out')
  BY <1>0, <1>8, PtrsAreNat, SMTT(30) DEF Below, UpTo, n
<1>9. Fifo'
  <2>1. Rising(buf_out')
    BY <1>0, <1>6, SMTT(30) DEF IInv, Fifo, Rising, n
  <2>2. Below(received, buf_out') /\ Below(body, buf_out')
    BY <1>5, <1>8 DEF IInv, TypeOK, Fifo
  <2>3. ASSUME NEW k \in 1..Len(pipe) PROVE Below(pipe[k], buf_out')
    <3>1. pipe[k] \in Seq(Ptrs) /\ UpTo(pipe[k], sent) /\ Below(pipe[k], buf_out)
      BY SMTT(30) DEF IInv, TypeOK, SentOnly, Fifo
    <3> QED BY <3>1, <1>8
  <2> QED BY <1>0, <2>1, <2>2, <2>3, FifoBuffer DEF IInv
<1> QED BY <1>2, <1>3, <1>4, <1>7, <1>9 DEF IInv

\* Everything the thread found went into the pipe and the thread ends.
LEMMA WriteAllStep ==
    ASSUME IInv, NEW t \in BufThreads, WriteAll(t)
    PROVE  IInv'
<1> USE SizesAssumption
<1>0. /\ buf_out \in Seq(Ptrs) /\ pipe \in Seq(Seq(Ptrs))
      /\ pipe' = Append(pipe, buf_out) /\ buf_out' = <<>>
      /\ UNCHANGED <<sent, body, received, buf_out_size_max>>
      /\ buf_out # <<>>
      /\ thread \in [BufThreads -> {"none", "write", "select"}]
      /\ thread' = [thread EXCEPT ![t] = "none"] /\ thread[t] # "none"
  BY DEF IInv, TypeOK, WriteAll, OneBufThread
<1>1. TypeOK'
  <2>1. Len(buf_out) \in 1..ChunkPtrs BY <1>0, SMTT(30) DEF WriteAll
  <2> QED BY <1>0, <2>1, SMTT(30) DEF IInv, TypeOK, WriteAll, PipeHasRoom
<1>2. CapacityFloor' /\ BufFits'
  BY <1>0, SMTT(30) DEF IInv, TypeOK, CapacityFloor, BufFits
<1>3. OneBufThread'
  BY <1>0 DEF IInv, OneBufThread
<1>4. SentOnly'
  <2>1. ASSUME NEW k \in 1..Len(pipe') PROVE UpTo(pipe'[k], sent')
    BY <1>0, PipeAppend DEF IInv, SentOnly
  <2> QED BY <1>0, <2>1, SMTT(30) DEF IInv, SentOnly, UpTo
<1>5. Fifo'
  <2>1. Rising(buf_out') /\ \A s \in Seq(Ptrs) : Below(s, buf_out')
    BY <1>0, SMTT(30) DEF Rising, Below
  <2>2. \A k \in 1..Len(pipe) : pipe[k] \in Seq(Ptrs) BY <1>0, SMTT(30)
  <2>3. /\ Rising(buf_out) /\ Below(received, buf_out) /\ Below(body, buf_out)
        /\ \A k \in 1..Len(pipe) : Below(pipe[k], buf_out)
    BY DEF IInv, Fifo
  <2>4. /\ Below(buf_out, buf_out') /\ Below(received, buf_out') /\ Below(body, buf_out')
        /\ \A k \in 1..Len(pipe) : Below(pipe[k], buf_out')
    BY <1>0, <2>1, <2>2 DEF IInv, TypeOK
  <2>5. buf_out' \in Seq(Ptrs) /\ received' = received /\ body' = body /\ TypeOK /\ Fifo
    BY <1>0, SMTT(30) DEF IInv
  <2> QED BY <1>0, <2>1, <2>3, <2>4, <2>5, FifoAppend
<1> QED BY <1>1, <1>2, <1>3, <1>4, <1>5 DEF IInv

\* The two parts a write of n pointers cuts a buffer into, and what they
\* keep of its order.
LEMMA Split ==
    ASSUME NEW s \in Seq(Ptrs), NEW n \in Nat, n < Len(s), Rising(s),
           NEW c, NEW r, c = SubSeq(s, 1, n), r = SubSeq(s, n + 1, Len(s))
    PROVE  /\ c \in Seq(Ptrs) /\ Len(c) = n
           /\ \A i \in 1..n : i \in 1..Len(s) /\ c[i] = s[i]
           /\ r \in Seq(Ptrs) /\ Len(r) = Len(s) - n
           /\ \A i \in 1..(Len(s) - n) : n + i \in 1..Len(s) /\ r[i] = s[n + i]
           /\ Rising(c) /\ Rising(r) /\ Below(c, r)
<1>0. Len(s) \in Nat /\ \A i \in 1..Len(s) : s[i] \in Ptrs BY SMTT(30)
<1>1. c \in Seq(Ptrs) /\ Len(c) = n /\ \A i \in 1..n : i \in 1..Len(s) /\ c[i] = s[i]
  BY <1>0, SubSeqProperties, SMTT(30)
<1>2. /\ r \in Seq(Ptrs) /\ Len(r) = Len(s) - n
      /\ \A i \in 1..(Len(s) - n) : n + i \in 1..Len(s) /\ r[i] = s[n + i]
  BY <1>0, SubSeqProperties, SMTT(30)
<1>4. Rising(c) BY <1>0, <1>1 DEF Rising
<1>5. Rising(r) BY <1>0, <1>2, SMTT(30) DEF Rising
<1>6. Below(c, r)
  <2> SUFFICES ASSUME NEW i \in 1..n, NEW j \in 1..(Len(s) - n) PROVE c[i] < r[j]
    BY <1>1, <1>2 DEF Below
  <2>1. i \in 1..Len(s) /\ n + j \in 1..Len(s) /\ i < n + j BY <1>0, SMTT(30)
  <2>2. s[i] < s[n + j] BY <2>1 DEF Rising
  <2> QED BY <2>2, <1>1, <1>2
<1> QED BY <1>1, <1>2, <1>4, <1>5, <1>6

\* A write of PIPE_BUF bytes: the chunk is older than the rest.
LEMMA WritePartStep ==
    ASSUME IInv, NEW t \in BufThreads, WritePart(t)
    PROVE  IInv'
<1> USE SizesAssumption
<1>0. /\ buf_out \in Seq(Ptrs) /\ pipe \in Seq(Seq(Ptrs)) /\ ChunkPtrs < Len(buf_out)
      /\ Rising(buf_out)
      /\ pipe' = Append(pipe, Chunk) /\ buf_out' = Rest
      /\ UNCHANGED <<sent, body, received, buf_out_size_max, thread>>
  BY DEF IInv, TypeOK, WritePart, Fifo
<1>a. ChunkPtrs \in Nat /\ Len(buf_out) \in Nat
  BY <1>0, SizesAssumption, SMTT(30)
<1>1. /\ Chunk \in Seq(Ptrs) /\ Len(Chunk) = ChunkPtrs
      /\ \A i \in 1..ChunkPtrs : i \in 1..Len(buf_out) /\ Chunk[i] = buf_out[i]
      /\ Rest \in Seq(Ptrs) /\ Len(Rest) = Len(buf_out) - ChunkPtrs
      /\ \A i \in 1..(Len(buf_out) - ChunkPtrs) :
            ChunkPtrs + i \in 1..Len(buf_out) /\ Rest[i] = buf_out[ChunkPtrs + i]
      /\ Rising(Chunk) /\ Rising(Rest) /\ Below(Chunk, Rest)
  BY <1>0, <1>a, Split DEF Chunk, Rest
<1>b. ASSUME NEW u, Below(u, buf_out) PROVE Below(u, Chunk) /\ Below(u, Rest)
  BY <1>a, <1>1, <1>b DEF Below
<1>2. TypeOK'
  BY <1>0, <1>1, SMTT(30) DEF IInv, TypeOK, WritePart, PipeHasRoom
<1>3. CapacityFloor' /\ BufFits'
  BY <1>0, <1>1, SMTT(30) DEF IInv, TypeOK, CapacityFloor, BufFits
<1>4. OneBufThread'
  <2>1. buf_out # <<>> /\ buf_out' # <<>> BY <1>0, <1>1, SMTT(30)
  <2> QED BY <1>0, <2>1 DEF IInv, OneBufThread
<1>5. UpTo(Chunk, sent) /\ UpTo(Rest, sent)
  BY <1>a, <1>1 DEF IInv, SentOnly, UpTo
<1>6. SentOnly'
  <2>1. ASSUME NEW k \in 1..Len(pipe') PROVE UpTo(pipe'[k], sent')
    BY <1>0, <1>1, <1>5, PipeAppend, SMTT(30) DEF IInv, SentOnly
  <2> QED BY <1>0, <1>5, <2>1 DEF IInv, SentOnly, UpTo
<1>7. Fifo'
  <2>1. /\ Below(received, Chunk) /\ Below(body, Chunk)
        /\ Below(received, Rest) /\ Below(body, Rest)
        /\ \A k \in 1..Len(pipe) : Below(pipe[k], Chunk) /\ Below(pipe[k], Rest)
    BY <1>b DEF IInv, Fifo
  <2>2. TypeOK /\ Fifo /\ received' = received /\ body' = body BY <1>0 DEF IInv
  <2> QED BY <1>0, <1>1, <2>1, <2>2, FifoAppend
<1> QED BY <1>2, <1>3, <1>4, <1>6, <1>7 DEF IInv

\* The buffer is given up: whatever was in it, the rest keeps its order.
LEMMA GivenUp ==
    ASSUME IInv, NEW t \in BufThreads, thread[t] # "none", buf_out' = <<>>,
           thread' = [thread EXCEPT ![t] = "none"],
           lost' = lost \cup {buf_out[i] : i \in 1..Len(buf_out)},
           UNCHANGED <<sent, pipe, buf_out_size_max, body, received>>
    PROVE  IInv'
<1> USE SizesAssumption
<1>1. TypeOK'
  <2>1. \A i \in 1..Len(buf_out) : buf_out[i] \in Ptrs BY SMTT(30) DEF IInv, TypeOK
  <2> QED BY <2>1, SMTT(30) DEF IInv, TypeOK
<1>2. CapacityFloor' /\ BufFits'
  BY SMTT(30) DEF IInv, TypeOK, CapacityFloor, BufFits
<1>3. OneBufThread'
  BY DEF IInv, TypeOK, OneBufThread
<1>4. SentOnly'
  <2>1. UpTo(buf_out', sent') BY SMTT(30) DEF UpTo
  <2> QED BY <2>1, SentOnlyKept DEF IInv
<1>5. Fifo'
  <2>1. Rising(buf_out') /\ \A s : Below(s, buf_out') BY SMTT(30) DEF Rising, Below
  <2> QED BY <2>1, FifoBuffer DEF IInv
<1> QED BY <1>1, <1>2, <1>3, <1>4, <1>5 DEF IInv

\* Waiting for room and finding it moves no pointer.
LEMMA Waits ==
    ASSUME IInv, NEW t \in BufThreads, NEW w \in {"write", "select"}, thread[t] # "none",
           thread' = [thread EXCEPT ![t] = w],
           UNCHANGED <<sent, pipe, buf_out, buf_out_size_max, body, received, lost>>
    PROVE  IInv'
<1>1. TypeOK' BY DEF IInv, TypeOK, Ptrs
<1>2. OneBufThread' BY DEF IInv, TypeOK, OneBufThread
<1>3. CapacityFloor' /\ BufFits' BY DEF IInv, CapacityFloor, BufFits
<1>4. SentOnly' BY DEF IInv, SentOnly
<1>5. Fifo' BY DEF IInv, Fifo
<1> QED BY <1>1, <1>2, <1>3, <1>4, <1>5 DEF IInv

\* read() takes the oldest packet.
LEMMA ReadStep == ASSUME IInv, Read PROVE IInv'
<1> USE SizesAssumption
<1>0. /\ pipe \in Seq(Seq(Ptrs)) /\ pipe # <<>>
      /\ body = <<>> /\ body' = pipe[1] /\ pipe' = Tail(pipe)
      /\ UNCHANGED <<sent, buf_out, buf_out_size_max, thread, received, lost>>
  BY SMTT(30) DEF IInv, TypeOK, Read
<1>1. /\ pipe' \in Seq(Seq(Ptrs)) /\ Len(pipe') = Len(pipe) - 1 /\ Len(pipe) \in Nat /\ Len(pipe) >= 1
      /\ \A k \in 1..Len(pipe') : k + 1 \in 1..Len(pipe) /\ pipe'[k] = pipe[k + 1]
  BY <1>0, HeadTailProperties, SMTT(30)
<1>2. pipe[1] \in Seq(Ptrs) /\ 1 \in 1..Len(pipe) BY <1>0, <1>1, SMTT(30)
<1>3. TypeOK'
  <2>1. Len(pipe') <= PipeSlots BY <1>1, SMTT(30) DEF IInv, TypeOK
  <2>2. \A k \in 1..Len(pipe') : Len(pipe'[k]) \in 1..ChunkPtrs BY <1>1 DEF IInv, TypeOK
  <2> QED BY <1>0, <1>1, <1>2, <2>1, <2>2 DEF IInv, TypeOK
<1>4. CapacityFloor' /\ BufFits' /\ OneBufThread'
  BY <1>0 DEF IInv, CapacityFloor, BufFits, OneBufThread
<1>5. SentOnly'
  <2>1. UpTo(body', sent') BY <1>0, <1>2 DEF IInv, SentOnly
  <2>2. \A k \in 1..Len(pipe') : UpTo(pipe'[k], sent') BY <1>0, <1>1 DEF IInv, SentOnly
  <2> QED BY <1>0, <2>1, <2>2 DEF IInv, SentOnly, UpTo
<1>6. Fifo'
  <2>1. Rising(received)' /\ Rising(buf_out)' /\ Below(received, buf_out)'
    BY <1>0 DEF IInv, Fifo, Rising, Below
  <2>2. /\ Rising(body') /\ Below(received', body') /\ Below(body', buf_out')
        /\ \A k \in 1..Len(pipe') : Below(body', pipe'[k])
    BY <1>0, <1>1, <1>2, SMTT(30) DEF IInv, Fifo
  <2>3. \A k \in 1..Len(pipe') : Rising(pipe'[k]) /\ Below(received', pipe'[k]) /\ Below(pipe'[k], buf_out')
    BY <1>0, <1>1 DEF IInv, Fifo
  <2>4. \A k, l \in 1..Len(pipe') : k < l => Below(pipe'[k], pipe'[l])
    BY <1>0, <1>1, SMTT(30) DEF IInv, Fifo
  <2> QED BY <2>1, <2>2, <2>3, <2>4 DEF Fifo, Rising, Below
<1> QED BY <1>3, <1>4, <1>5, <1>6 DEF IInv

\* The callback takes the oldest pointer of the packet read.
LEMMA CallbackStep == ASSUME IInv, Callback PROVE IInv'
<1> USE SizesAssumption
<1> DEFINE n == Len(received)
<1>0. /\ body \in Seq(Ptrs) /\ body # <<>> /\ Head(body) = body[1]
      /\ body' = Tail(body) /\ received' = Append(received, body[1])
      /\ UNCHANGED <<sent, pipe, buf_out, buf_out_size_max, thread, lost>>
  BY SMTT(30) DEF IInv, TypeOK, Callback
<1>1. /\ body' \in Seq(Ptrs) /\ Len(body') = Len(body) - 1 /\ Len(body) \in Nat /\ 1 \in 1..Len(body)
      /\ \A i \in 1..Len(body') : i + 1 \in 1..Len(body) /\ body'[i] = body[i + 1]
      /\ body[1] \in Ptrs
  BY <1>0, HeadTailProperties, SMTT(30)
<1>2. /\ received \in Seq(Ptrs) /\ received' \in Seq(Ptrs) /\ n \in Nat
      /\ Len(received') = n + 1 /\ received'[n + 1] = body[1]
      /\ \A i \in 1..n : received'[i] = received[i]
  BY <1>0, <1>1, SMTT(30) DEF IInv, TypeOK
<1>3. TypeOK'
  BY <1>0, <1>1, <1>2 DEF IInv, TypeOK
<1>4. CapacityFloor' /\ BufFits' /\ OneBufThread'
  BY <1>0 DEF IInv, CapacityFloor, BufFits, OneBufThread
<1> HIDE DEF n
<1>5. \A i \in 1..Len(received') :
          \/ i \in 1..Len(received) /\ received'[i] = received[i]
          \/ i = Len(received) + 1 /\ received'[i] = body[1]
  BY <1>2, SMTT(30) DEF n
<1>6. SentOnly'
  <2>1. UpTo(received', sent) BY <1>1, <1>5 DEF IInv, SentOnly, UpTo
  <2>2. UpTo(body', sent) BY <1>1 DEF IInv, SentOnly, UpTo
  <2> QED BY <1>0, <2>1, <2>2 DEF IInv, SentOnly, UpTo
<1>7. ASSUME NEW u, Below(received, u), Below(body, u)
      PROVE  Below(received', u) /\ Below(body', u)
  BY <1>1, <1>5, <1>7 DEF Below
<1>8. Rising(body') BY <1>1, SMTT(30) DEF IInv, Fifo, Rising
<1>9. Rising(received')
  <2> SUFFICES ASSUME NEW i \in 1..Len(received'), NEW j \in 1..Len(received'), i < j
               PROVE  received'[i] < received'[j]
    BY DEF Rising
  <2>1. i \in 1..Len(received) /\ received'[i] = received[i]
    BY <1>2, <1>5, SMTT(30) DEF n
  <2>2. CASE j \in 1..Len(received) /\ received'[j] = received[j]
    BY <2>1, <2>2 DEF IInv, Fifo, Rising
  <2>3. CASE received'[j] = body[1]
    BY <1>1, <2>1, <2>3 DEF IInv, Fifo, Below
  <2> QED BY <1>5, <2>2, <2>3
<1>10. Below(received', body')
  <2> SUFFICES ASSUME NEW i \in 1..Len(received'), NEW j \in 1..Len(body')
               PROVE  received'[i] < body'[j]
    BY DEF Below
  <2>1. body'[j] = body[j + 1] /\ j + 1 \in 1..Len(body) /\ 1 < j + 1 BY <1>1, SMTT(30)
  <2>2. CASE i \in 1..Len(received) /\ received'[i] = received[i]
    BY <2>1, <2>2 DEF IInv, Fifo, Below
  <2>3. CASE received'[i] = body[1]
    BY <1>1, <2>1, <2>3 DEF IInv, Fifo, Rising
  <2> QED BY <1>5, <2>2, <2>3
<1>11. Fifo'
  <2>1. \A k \in 1..Len(pipe) : Below(received', pipe[k]) /\ Below(body', pipe[k])
    BY <1>7 DEF IInv, Fifo
  <2>2. Below(received', buf_out) /\ Below(body', buf_out)
    BY <1>7 DEF IInv, Fifo
  <2>3. Rising(buf_out) /\ \A k \in 1..Len(pipe) : Rising(pipe[k]) /\ Below(pipe[k], buf_out)
    BY DEF IInv, Fifo
  <2>4. \A k, l \in 1..Len(pipe) : k < l => Below(pipe[k], pipe[l])
    BY DEF IInv, Fifo
  <2> QED BY <1>0, <1>8, <1>9, <1>10, <2>1, <2>2, <2>3, <2>4 DEF Fifo
<1> QED BY <1>3, <1>4, <1>6, <1>11 DEF IInv

\* Every step of a sender, of the buffer thread or of the reader preserves
\* the invariant.
LEMMA InductiveStep == IInv /\ [Next]_vars => IInv'
<1> SUFFICES ASSUME IInv, [Next]_vars PROVE IInv' OBVIOUS
<1>1. CASE Send
  <2>1. SendDirect \/ SendStartingThread \/ SendWithoutThread \/ SendBuffered
    BY <1>1 DEF Send
  <2> QED
    BY <1>1, <2>1, SendDirectStep, SendStartingThreadStep, SendWithoutThreadStep, SendBufferedStep
<1>2. ASSUME NEW t \in BufThreads, BufThread(t) PROVE IInv'
  <2>1. CASE WriteAll(t) BY <2>1, WriteAllStep
  <2>2. CASE WritePart(t) BY <2>2, WritePartStep
  <2>3. CASE WriteAgain(t)
    BY <2>3, Waits DEF WriteAgain
  <2>4. CASE WriteFails(t)
    BY <2>4, GivenUp DEF WriteFails
  <2>5. CASE SelectReady(t)
    BY <2>5, Waits DEF SelectReady
  <2>6. CASE SelectGivesUp(t)
    BY <2>6, GivenUp DEF SelectGivesUp
  <2> QED BY <1>2, <2>1, <2>2, <2>3, <2>4, <2>5, <2>6 DEF BufThread
<1>3. CASE Read BY <1>3, ReadStep
<1>4. CASE Callback BY <1>4, CallbackStep
<1>5. CASE UNCHANGED vars
  BY <1>5, SMTT(30) DEF vars, IInv, TypeOK, SentOnly, UpTo, CapacityFloor, OneBufThread,
              BufFits, Fifo, Rising, Below
<1> QED BY <1>1, <1>2, <1>3, <1>4, <1>5 DEF Next

\* For every size of the pipe, of a write and of the buffer: pointers come
\* out in the order of dap_events_socket_queue_ptr_send, buf_out has a thread
\* exactly while it has content, and s_add_ptr_to_buf stores inside it.
THEOREM PtrQueueSafety == Spec => [](TypeOK /\ Fifo /\ OneBufThread /\ BufFits)
<1>1. IInv => TypeOK /\ Fifo /\ OneBufThread /\ BufFits BY DEF IInv
<1> QED BY InitIInv, InductiveStep, <1>1, PTL DEF Spec

----------------------------------------------------------------------------
(* The queue implements LossyFifo.                                          *)

\* What a sequence holds, by its places.
LEMMA RangeIs ==
    ASSUME NEW S, NEW s \in Seq(S)
    PROVE  \A p : p \in Range(s) <=> \E i \in 1..Len(s) : s[i] = p
BY SMTT(30) DEF Range

\* One more at the end.
LEMMA RangeAppend ==
    ASSUME NEW S, NEW s \in Seq(S), NEW x \in S
    PROVE  Range(Append(s, x)) = Range(s) \cup {x}
<1> DEFINE r == Append(s, x)
<1>1. /\ r \in Seq(S) /\ Len(s) \in Nat /\ Len(r) = Len(s) + 1 /\ r[Len(s) + 1] = x
      /\ \A i \in 1..Len(s) : r[i] = s[i]
  BY SMTT(30)
<1> HIDE DEF r
<1>2. \A p : p \in Range(s) <=> \E i \in 1..Len(s) : s[i] = p BY RangeIs
<1>3. \A p : p \in Range(r) <=> \E i \in 1..Len(r) : r[i] = p BY <1>1, RangeIs
<1>4. ASSUME NEW p \in Range(r) PROVE p \in Range(s) \cup {x}
  <2>1. PICK i \in 1..Len(r) : r[i] = p BY <1>3
  <2>2. CASE i \in 1..Len(s) BY <1>1, <1>2, <2>1, <2>2
  <2>3. CASE i = Len(s) + 1 BY <1>1, <2>1, <2>3
  <2> QED BY <1>1, <2>2, <2>3, SMTT(30)
<1>5. ASSUME NEW p \in Range(s) PROVE p \in Range(r)
  <2>1. PICK i \in 1..Len(s) : s[i] = p BY <1>2
  <2>2. i \in 1..Len(r) /\ r[i] = p BY <1>1, <2>1, SMTT(30)
  <2> QED BY <1>3, <2>2
<1>6. x \in Range(r)
  <2>1. Len(s) + 1 \in 1..Len(r) BY <1>1, SMTT(30)
  <2> QED BY <1>1, <1>3, <2>1
<1>7. Range(r) = Range(s) \cup {x} BY <1>4, <1>5, <1>6
<1> QED BY <1>7 DEF r

\* The first and the rest.
LEMMA RangeTail ==
    ASSUME NEW S, NEW s \in Seq(S), s # <<>>
    PROVE  Range(s) = {s[1]} \cup Range(Tail(s))
<1> DEFINE r == Tail(s)
<1>1. /\ r \in Seq(S) /\ Len(s) \in Nat \ {0} /\ Len(r) = Len(s) - 1
      /\ \A i \in 1..Len(r) : r[i] = s[i + 1]
  BY HeadTailProperties, SMTT(30)
<1> HIDE DEF r
<1>2. \A p : p \in Range(s) <=> \E i \in 1..Len(s) : s[i] = p BY RangeIs
<1>3. \A p : p \in Range(r) <=> \E i \in 1..Len(r) : r[i] = p BY <1>1, RangeIs
<1>4. ASSUME NEW p \in Range(s) PROVE p \in {s[1]} \cup Range(r)
  <2>1. PICK i \in 1..Len(s) : s[i] = p BY <1>2
  <2>2. CASE i = 1 BY <2>1, <2>2
  <2>3. CASE i # 1
    <3>1. i - 1 \in 1..Len(r) /\ r[i - 1] = s[i] BY <1>1, <2>3, SMTT(30)
    <3> QED BY <1>3, <2>1, <3>1
  <2> QED BY <2>2, <2>3
<1>5. ASSUME NEW p \in Range(r) PROVE p \in Range(s)
  <2>1. PICK i \in 1..Len(r) : r[i] = p BY <1>3
  <2>2. i + 1 \in 1..Len(s) /\ s[i + 1] = p BY <1>1, <2>1, SMTT(30)
  <2> QED BY <1>2, <2>2
<1>6. s[1] \in Range(s)
  <2>1. 1 \in 1..Len(s) BY <1>1, SMTT(30)
  <2> QED BY <1>2, <2>1
<1>7. Range(s) = {s[1]} \cup Range(r) BY <1>4, <1>5, <1>6
<1> QED BY <1>7 DEF r

\* The two parts of a chunked write hold what the buffer held.
LEMMA RangeSplit ==
    ASSUME NEW s \in Seq(Ptrs), NEW n \in Nat, n < Len(s),
           NEW c \in Seq(Ptrs), NEW r \in Seq(Ptrs), Len(c) = n, Len(r) = Len(s) - n,
           \A i \in 1..n : i \in 1..Len(s) /\ c[i] = s[i],
           \A i \in 1..(Len(s) - n) : n + i \in 1..Len(s) /\ r[i] = s[n + i]
    PROVE  Range(s) = Range(c) \cup Range(r)
<1>1. Len(s) \in Nat BY SMTT(30)
<1>2. \A p : p \in Range(s) <=> \E i \in 1..Len(s) : s[i] = p BY RangeIs
<1>3. \A p : p \in Range(c) <=> \E i \in 1..Len(c) : c[i] = p BY <1>1, RangeIs
<1>4. \A p : p \in Range(r) <=> \E i \in 1..Len(r) : r[i] = p BY <1>1, RangeIs
<1>5. ASSUME NEW p \in Range(s) PROVE p \in Range(c) \cup Range(r)
  <2>1. PICK i \in 1..Len(s) : s[i] = p BY <1>2
  <2>2. CASE i <= n
    <3>1. i \in 1..Len(c) /\ c[i] = p BY <1>1, <2>1, <2>2, SMTT(30)
    <3> QED BY <1>3, <3>1
  <2>3. CASE i > n
    <3>1. i - n \in 1..(Len(s) - n) /\ n + (i - n) = i BY <2>3, SMTT(30)
    <3>2. i - n \in 1..Len(r) /\ r[i - n] = p BY <1>1, <2>1, <3>1
    <3> QED BY <1>4, <3>2
  <2> QED BY <2>2, <2>3, SMTT(30)
<1>6. ASSUME NEW p \in Range(c) PROVE p \in Range(s)
  <2>1. PICK i \in 1..Len(c) : c[i] = p BY <1>3
  <2> QED BY <1>2, <2>1
<1>7. ASSUME NEW p \in Range(r) PROVE p \in Range(s)
  <2>1. PICK i \in 1..Len(r) : r[i] = p BY <1>4
  <2> QED BY <1>2, <2>1
<1> QED BY <1>5, <1>6, <1>7

\* What the packets of the pipe hold.
LEMMA Packed ==
    ASSUME NEW S
    PROVE  \A p : p \in UNION {Range(c) : c \in S} <=> \E c \in S : p \in Range(c)
<1> TAKE p
<1>1. ASSUME p \in UNION {Range(c) : c \in S} PROVE \E c \in S : p \in Range(c)
  <2>1. PICK X \in {Range(c) : c \in S} : p \in X BY <1>1
  <2>2. PICK c \in S : X = Range(c) BY <2>1
  <2> QED BY <2>1, <2>2
<1>2. ASSUME NEW c \in S, p \in Range(c) PROVE p \in UNION {Range(d) : d \in S}
  BY <1>2
<1> QED BY <1>1, <1>2

\* What the queue holds.
LEMMA QueuedIs ==
    \A p : p \in Queued <=>
      p \in Range(body) \/ (\E c \in Range(pipe) : p \in Range(c)) \/ p \in Range(buf_out)
<1>1. \A p : p \in Piped <=> \E c \in Range(pipe) : p \in Range(c) BY Packed DEF Piped
<1> QED BY <1>1 DEF Queued

\* A packet at the end of the pipe.
LEMMA QueuedAppend ==
    ASSUME TypeOK, NEW c \in Seq(Ptrs), pipe' = Append(pipe, c), body' = body,
           NEW A, Range(c) \cup Range(buf_out') = Range(buf_out) \cup A
    PROVE  Queued' = Queued \cup A
<1>1. Range(Append(pipe, c)) = Range(pipe) \cup {c} BY RangeAppend, SMTT(30) DEF TypeOK
<1>2. Range(pipe') = Range(pipe) \cup {c} BY <1>1
<1>3. \A p : p \in Queued' <=>
        p \in Range(body') \/ (\E d \in Range(pipe') : p \in Range(d)) \/ p \in Range(buf_out')
  <2>1. \A p : p \in Piped' <=> \E d \in Range(pipe') : p \in Range(d)
    BY Packed DEF Piped
  <2> QED BY <2>1 DEF Queued
<1>4. ASSUME NEW p PROVE p \in Queued' <=> p \in Queued \/ p \in A
  <2>1. (\E d \in Range(pipe') : p \in Range(d)) <=>
          p \in Range(c) \/ \E d \in Range(pipe) : p \in Range(d)
    BY <1>2
  <2>2. p \in Range(c) \/ p \in Range(buf_out') <=> p \in Range(buf_out) \/ p \in A
    OBVIOUS
  <2>3. p \in Range(body') <=> p \in Range(body) OBVIOUS
  <2>4. p \in Queued <=>
          p \in Range(body) \/ (\E d \in Range(pipe) : p \in Range(d)) \/ p \in Range(buf_out)
    BY QueuedIs
  <2> QED BY <1>3, <2>1, <2>2, <2>3, <2>4
<1> QED BY <1>4

\* In the queue nothing is older than the body, and a buffered pointer is newer
\* than any other.
LEMMA QueuedOrder ==
    ASSUME IInv
    PROVE  /\ Queued \subseteq 1..sent
           /\ \A p \in Range(body), q \in Queued \ Range(body) : p < q
           /\ \A p \in Queued \ Range(buf_out), q \in Range(buf_out) : p < q
<1>1. /\ body \in Seq(Ptrs) /\ buf_out \in Seq(Ptrs) /\ pipe \in Seq(Seq(Ptrs)) /\ sent \in Nat
      /\ \A k \in 1..Len(pipe) : pipe[k] \in Seq(Ptrs)
  BY SizesAssumption, SMTT(30) DEF IInv, TypeOK
<1>2. \A p : p \in Range(body) <=> \E i \in 1..Len(body) : body[i] = p BY <1>1, RangeIs
<1>3. \A p : p \in Range(buf_out) <=> \E i \in 1..Len(buf_out) : buf_out[i] = p
  BY <1>1, RangeIs
<1>4. \A c : c \in Range(pipe) <=> \E k \in 1..Len(pipe) : pipe[k] = c BY <1>1, RangeIs
<1>5. ASSUME NEW p \in Queued, p \notin Range(body), p \notin Range(buf_out)
      PROVE  \E k \in 1..Len(pipe) : \E i \in 1..Len(pipe[k]) : pipe[k][i] = p
  <2>1. PICK c \in Range(pipe) : p \in Range(c) BY <1>5, QueuedIs
  <2>2. PICK k \in 1..Len(pipe) : pipe[k] = c BY <1>4, <2>1
  <2>3. c \in Seq(Ptrs) BY <1>1, <2>2
  <2>4. \E i \in 1..Len(c) : c[i] = p BY <2>1, <2>3, RangeIs
  <2> QED BY <2>2, <2>4
<1>6. ASSUME NEW s \in Seq(Ptrs), NEW i \in 1..Len(s), UpTo(s, sent) PROVE s[i] \in 1..sent
  <2>1. s[i] \in Ptrs BY SMTT(30)
  <2> QED BY <1>1, <1>6, <2>1, SizesAssumption, SMTT(30) DEF UpTo, Ptrs
<1>7. ASSUME NEW p \in Queued PROVE p \in 1..sent
  <2>1. CASE p \in Range(body)
    BY <1>1, <1>2, <1>6, <2>1 DEF IInv, SentOnly
  <2>2. CASE p \in Range(buf_out)
    BY <1>1, <1>3, <1>6, <2>2 DEF IInv, SentOnly
  <2>3. CASE p \notin Range(body) /\ p \notin Range(buf_out)
    <3>1. PICK k \in 1..Len(pipe) : \E i \in 1..Len(pipe[k]) : pipe[k][i] = p
      BY <1>5, <2>3
    <3> QED BY <1>1, <1>6, <3>1 DEF IInv, SentOnly
  <2> QED BY <2>1, <2>2, <2>3
<1>8. ASSUME NEW p \in Range(body), NEW q \in Queued \ Range(body) PROVE p < q
  <2>1. CASE q \in Range(buf_out)
    BY <1>2, <1>3, <2>1, SMTT(30) DEF IInv, Fifo, Below
  <2>2. CASE q \notin Range(buf_out)
    BY <1>2, <1>5, <2>2, SMTT(30) DEF IInv, Fifo, Below
  <2> QED BY <2>1, <2>2
<1>9. ASSUME NEW p \in Queued \ Range(buf_out), NEW q \in Range(buf_out) PROVE p < q
  <2>1. CASE p \in Range(body)
    BY <1>2, <1>3, <2>1 DEF IInv, Fifo, Below
  <2>2. CASE p \notin Range(body)
    BY <1>3, <1>5, <2>2, SMTT(30) DEF IInv, Fifo, Below
  <2> QED BY <2>1, <2>2
<1> QED BY <1>7, <1>8, <1>9

\* A send puts its pointer, or drops it at once.
LEMMA SendPuts == ASSUME IInv, Send PROVE Abstract!Put
<1>1. /\ sent \in Nat /\ sent + 1 \in Ptrs /\ sent' = sent + 1 /\ UNCHANGED <<body, received>>
      /\ buf_out \in Seq(Ptrs) /\ TypeOK
  BY SizesAssumption, SMTT(30) DEF IInv, TypeOK, Send, Ptrs
<1>2. Range(<<>>) = {} BY SMTT(30) DEF Range
<1>3. Range(<<sent + 1>>) = {sent + 1} BY <1>1, SMTT(30) DEF Range
<1>4. CASE SendDirect
  <2>1. /\ <<sent + 1>> \in Seq(Ptrs) /\ pipe' = Append(pipe, <<sent + 1>>)
        /\ Range(<<sent + 1>>) \cup Range(buf_out') = Range(buf_out) \cup {sent + 1}
    BY <1>1, <1>2, <1>3, <1>4, SMTT(30) DEF SendDirect
  <2>2. Queued' = Queued \cup {sent + 1} BY <1>1, <2>1, QueuedAppend
  <2> QED BY <1>1, <2>2 DEF Abstract!Put
<1>5. CASE SendStartingThread \/ SendBuffered
  <2>1. pipe' = pipe /\ Range(buf_out') = Range(buf_out) \cup {sent + 1}
    <3>1. CASE SendStartingThread
      BY <1>2, <1>3, <3>1 DEF SendStartingThread
    <3>2. CASE SendBuffered
      <4>1. Range(Append(buf_out, sent + 1)) = Range(buf_out) \cup {sent + 1}
        BY <1>1, RangeAppend, SMTT(30)
      <4> QED BY <3>2, <4>1 DEF SendBuffered
    <3> QED BY <1>5, <3>1, <3>2
  <2>2. Piped' = Piped /\ Range(body') = Range(body) BY <1>1, <2>1 DEF Piped
  <2>3. Queued' = Queued \cup {sent + 1} BY <2>1, <2>2 DEF Queued
  <2> QED BY <1>1, <2>3 DEF Abstract!Put
<1>6. CASE SendWithoutThread
  <2>1. UNCHANGED <<body, pipe, buf_out>> BY <1>1, <1>6 DEF SendWithoutThread
  <2>2. Queued' = Queued BY <2>1 DEF Queued, Piped
  <2> QED BY <1>1, <2>2 DEF Abstract!Put
<1> QED BY <1>4, <1>5, <1>6 DEF Send

\* The buffer thread that gives up drops the newest pointers.
LEMMA GivenUpDrops ==
    ASSUME IInv, NEW t \in BufThreads, thread[t] # "none", buf_out' = <<>>,
           UNCHANGED <<sent, pipe, body, received>>
    PROVE  Abstract!Drop
<1> DEFINE n == buf_out[1] - 1
<1>1. buf_out \in Seq(Ptrs) /\ buf_out # <<>> /\ sent \in Nat
  BY SizesAssumption, SMTT(30) DEF IInv, TypeOK, OneBufThread
<1>2. Len(buf_out) \in Nat /\ 1 \in 1..Len(buf_out) /\ buf_out[1] \in 1..sent
  <2>1. Len(buf_out) \in Nat /\ 1 \in 1..Len(buf_out) BY <1>1, SMTT(30)
  <2>2. buf_out[1] \in Ptrs BY <1>1, <2>1, SMTT(30)
  <2> QED BY <1>1, <2>1, <2>2, SizesAssumption, SMTT(30) DEF IInv, SentOnly, UpTo, Ptrs
<1>3. \A p : p \in Range(buf_out) <=> \E i \in 1..Len(buf_out) : buf_out[i] = p
  BY <1>1, RangeIs
<1>4. ASSUME NEW p \in Range(buf_out) PROVE buf_out[1] <= p
  <2>1. PICK i \in 1..Len(buf_out) : buf_out[i] = p BY <1>3
  <2>2. CASE i = 1 BY <1>2, <2>1, <2>2, SMTT(30)
  <2>3. CASE i # 1
    <3>1. 1 < i BY <1>2, <2>3, SMTT(30)
    <3>2. buf_out[1] < buf_out[i] BY <1>2, <3>1 DEF IInv, Fifo, Rising
    <3>3. buf_out[i] \in Nat BY <1>1, PtrsAreNat
    <3> QED BY <1>2, <2>1, <3>2, <3>3, SMTT(30)
  <2> QED BY <2>2, <2>3
<1>5. buf_out[1] \in Range(buf_out) BY <1>2, <1>3
<1>6. /\ Queued \subseteq 1..sent
      /\ \A p \in Queued \ Range(buf_out) : p < buf_out[1]
  BY <1>5, QueuedOrder
<1>7. \A p \in Queued : p \in Range(buf_out) <=> ~(p <= n)
  BY <1>2, <1>4, <1>6, SMTT(30)
<1>8. \A p : p \in Queued' <=> p \in Queued /\ p \notin Range(buf_out)
  <2>1. Range(buf_out') = {} BY SMTT(30) DEF Range
  <2>2. Piped' = Piped /\ Range(body') = Range(body) BY DEF Piped
  <2>3. \A p \in Range(buf_out) : p \notin Range(body) /\ p \notin Piped
    <3> SUFFICES ASSUME NEW p \in Range(buf_out), p \in Range(body) \/ p \in Piped PROVE FALSE
      OBVIOUS
    <3>1. CASE p \in Range(body)
      <4>1. body \in Seq(Ptrs) BY DEF IInv, TypeOK
      <4>2. PICK i \in 1..Len(body) : body[i] = p BY <3>1, <4>1, RangeIs
      <4>3. PICK j \in 1..Len(buf_out) : buf_out[j] = p BY <1>3
      <4>4. p < p BY <4>2, <4>3 DEF IInv, Fifo, Below
      <4>5. p \in 1..sent BY <1>6, <3>1 DEF Queued
      <4> QED BY <4>4, <4>5, SMTT(30)
    <3>2. CASE p \in Piped
      <4>1. PICK c \in Range(pipe) : p \in Range(c) BY <3>2, Packed DEF Piped
      <4>2. pipe \in Seq(Seq(Ptrs)) BY DEF IInv, TypeOK
      <4>3. PICK k \in 1..Len(pipe) : pipe[k] = c BY <4>1, <4>2, RangeIs
      <4>4. pipe[k] \in Seq(Ptrs) BY <4>2, SMTT(30)
      <4>5. PICK i \in 1..Len(pipe[k]) : pipe[k][i] = p BY <4>1, <4>3, <4>4, RangeIs
      <4>6. PICK j \in 1..Len(buf_out) : buf_out[j] = p BY <1>3
      <4>7. p < p BY <4>5, <4>6 DEF IInv, Fifo, Below
      <4>8. p \in 1..sent BY <1>6, <3>2 DEF Queued
      <4> QED BY <4>7, <4>8, SMTT(30)
    <3> QED BY <3>1, <3>2
  <2> QED BY <2>1, <2>2, <2>3 DEF Queued
<1>9. n \in 0..sent BY <1>1, <1>2, SMTT(30)
<1>10. Queued' = {p \in Queued : p <= n} BY <1>7, <1>8
<1> QED BY <1>9, <1>10 DEF Abstract!Drop

\* The callback takes the oldest pointer.
LEMMA CallbackTakes == ASSUME IInv, Callback PROVE Abstract!Take
<1> DEFINE p == body[1]
<1>1. /\ body \in Seq(Ptrs) /\ body # <<>> /\ body' = Tail(body)
      /\ received' = Append(received, p) /\ UNCHANGED <<sent, pipe, buf_out>>
  BY SMTT(30) DEF IInv, TypeOK, Callback
<1>2. /\ Len(body) \in Nat /\ 1 \in 1..Len(body) /\ body' \in Seq(Ptrs) /\ Len(body') = Len(body) - 1
      /\ \A i \in 1..Len(body') : i + 1 \in 1..Len(body) /\ body'[i] = body[i + 1]
  BY <1>1, HeadTailProperties, SMTT(30)
<1>3. Range(body) = {p} \cup Range(body') BY <1>1, RangeTail
<1>4. ASSUME NEW q \in Range(body') PROVE p < q
  <2>1. PICK i \in 1..Len(body') : body'[i] = q BY <1>2, RangeIs
  <2>2. i + 1 \in 1..Len(body) /\ 1 < i + 1 /\ body[i + 1] = q BY <1>2, <2>1, SMTT(30)
  <2> QED BY <1>2, <2>2 DEF IInv, Fifo, Rising
<1>5. /\ Queued \subseteq 1..sent
      /\ \A q \in Queued \ Range(body) : p < q
  BY <1>3, QueuedOrder
<1>6. Piped' = Piped /\ Range(buf_out') = Range(buf_out) BY <1>1 DEF Piped
<1>7. p \in Queued /\ sent \in Nat /\ p \in Nat
  <2>1. p \in Queued BY <1>3 DEF Queued
  <2>2. sent \in Nat BY SizesAssumption, SMTT(30) DEF IInv, TypeOK
  <2>3. p \in Nat BY <1>1, <1>2, PtrsAreNat
  <2> QED BY <2>1, <2>2, <2>3
<1>8. \A q \in Queued : q = p \/ p < q BY <1>3, <1>4, <1>5
<1>9. ASSUME NEW q PROVE q \in Queued' <=> q \in Queued /\ q # p
  <2>1. p \notin Range(body')
    BY <1>4, <1>7, SMTT(30)
  <2>2. p \notin Piped \cup Range(buf_out)
    <3>1. CASE p \in Range(buf_out)
      <4>1. buf_out \in Seq(Ptrs) BY DEF IInv, TypeOK
      <4>2. PICK j \in 1..Len(buf_out) : buf_out[j] = p BY <3>1, <4>1, RangeIs
      <4>3. p < p BY <1>2, <4>2 DEF IInv, Fifo, Below
      <4> QED BY <1>7, <4>3, SMTT(30)
    <3>2. CASE p \in Piped
      <4>1. PICK c \in Range(pipe) : p \in Range(c) BY <3>2, Packed DEF Piped
      <4>2. pipe \in Seq(Seq(Ptrs)) BY DEF IInv, TypeOK
      <4>3. PICK k \in 1..Len(pipe) : pipe[k] = c BY <4>1, <4>2, RangeIs
      <4>4. pipe[k] \in Seq(Ptrs) BY <4>2, SMTT(30)
      <4>5. PICK i \in 1..Len(pipe[k]) : pipe[k][i] = p BY <4>1, <4>3, <4>4, RangeIs
      <4>6. p < p BY <1>2, <4>5 DEF IInv, Fifo, Below
      <4> QED BY <1>7, <4>6, SMTT(30)
    <3> QED BY <3>1, <3>2
  <2> QED BY <1>3, <1>6, <2>1, <2>2 DEF Queued
<1>10. Queued' = Queued \ {p} BY <1>9
<1> HIDE DEF p
<1>11. \A q \in Queued : p <= q BY <1>5, <1>7, <1>8, SMTT(30)
<1> QED BY <1>1, <1>7, <1>10, <1>11 DEF Abstract!Take

\* Every step is a step of LossyFifo or none: what the buffer thread writes and
\* the reader reads stays in the queue.
LEMMA FifoStep == IInv /\ [Next]_vars => [Abstract!Next]_(Abstract!vars)
<1> SUFFICES ASSUME IInv, [Next]_vars PROVE Abstract!Next \/ UNCHANGED <<sent, Queued, received>>
  BY DEF Abstract!vars
<1>1. CASE Send
  BY <1>1, SendPuts DEF Abstract!Next
<1>2. CASE Callback
  BY <1>2, CallbackTakes DEF Abstract!Next
<1>3. CASE Read
  <2>1. /\ pipe \in Seq(Seq(Ptrs)) /\ pipe # <<>> /\ body = <<>>
        /\ body' = pipe[1] /\ pipe' = Tail(pipe) /\ UNCHANGED <<sent, buf_out, received>>
    BY <1>3, SMTT(30) DEF IInv, TypeOK, Read
  <2>2. Range(pipe) = {body'} \cup Range(pipe') BY <2>1, RangeTail
  <2>3. \A p : p \in Piped <=> \E c \in Range(pipe) : p \in Range(c) BY Packed DEF Piped
  <2>4. \A p : p \in Piped' <=> \E c \in Range(pipe') : p \in Range(c)
    BY Packed DEF Piped
  <2>5. \A p : p \in Piped <=> p \in Range(body') \/ p \in Piped' BY <2>2, <2>3, <2>4
  <2>6. Range(body) = {} /\ Range(buf_out') = Range(buf_out) BY <2>1, SMTT(30) DEF Range
  <2>7. Queued' = Queued BY <2>5, <2>6 DEF Queued
  <2> QED BY <2>1, <2>7
<1>4. ASSUME NEW t \in BufThreads, BufThread(t)
      PROVE  Abstract!Next \/ UNCHANGED <<sent, Queued, received>>
  <2>1. CASE WriteAll(t)
    <3>1. /\ TypeOK /\ buf_out \in Seq(Ptrs) /\ pipe' = Append(pipe, buf_out) /\ buf_out' = <<>>
          /\ UNCHANGED <<sent, body, received>>
      BY <2>1 DEF IInv, TypeOK, WriteAll
    <3>2. Range(buf_out) \cup Range(buf_out') = Range(buf_out) \cup {}
      BY <3>1, SMTT(30) DEF Range
    <3>3. Queued' = Queued \cup {} BY <3>1, <3>2, QueuedAppend
    <3> QED BY <3>1, <3>3
  <2>2. CASE WritePart(t)
    <3>1. /\ TypeOK /\ buf_out \in Seq(Ptrs) /\ Rising(buf_out) /\ ChunkPtrs \in Nat
          /\ ChunkPtrs < Len(buf_out) /\ pipe' = Append(pipe, Chunk) /\ buf_out' = Rest
          /\ UNCHANGED <<sent, body, received>>
      BY <2>2, SizesAssumption DEF IInv, TypeOK, Fifo, WritePart
    <3>2. /\ Chunk \in Seq(Ptrs) /\ Len(Chunk) = ChunkPtrs
          /\ \A i \in 1..ChunkPtrs : i \in 1..Len(buf_out) /\ Chunk[i] = buf_out[i]
          /\ Rest \in Seq(Ptrs) /\ Len(Rest) = Len(buf_out) - ChunkPtrs
          /\ \A i \in 1..(Len(buf_out) - ChunkPtrs) :
                ChunkPtrs + i \in 1..Len(buf_out) /\ Rest[i] = buf_out[ChunkPtrs + i]
      BY <3>1, Split, SMTT(30) DEF Chunk, Rest
    <3>3. Range(buf_out) = Range(Chunk) \cup Range(Rest)
      BY <3>1, <3>2, RangeSplit, SMTT(30)
    <3>4. Range(Chunk) \cup Range(buf_out') = Range(buf_out) \cup {} BY <3>1, <3>3
    <3>5. Queued' = Queued \cup {} BY <3>1, <3>2, <3>4, QueuedAppend
    <3> QED BY <3>1, <3>5
  <2>3. CASE WriteAgain(t) \/ SelectReady(t)
    BY <2>3 DEF WriteAgain, SelectReady, Queued, Piped
  <2>4. CASE WriteFails(t) \/ SelectGivesUp(t)
    BY <2>4, GivenUpDrops DEF WriteFails, SelectGivesUp, Abstract!Next
  <2> QED BY <1>4, <2>1, <2>2, <2>3, <2>4 DEF BufThread
<1>5. CASE UNCHANGED vars
  BY <1>5 DEF vars, Queued, Piped
<1> QED BY <1>1, <1>2, <1>3, <1>4, <1>5 DEF Next

\* For every size of the pipe, of a write and of the buffer: pipe, buffer and
\* buffer thread together are a FIFO queue in which a pointer is delivered at
\* most once and only the newest pointers can be dropped.
THEOREM PtrQueueIsLossyFifo == Spec => ImplementsLossyFifo
<1>1. Init => Abstract!Init
  <2>1. Range(<<>>) = {} BY SMTT(30) DEF Range
  <2>2. \A p : p \in UNION {Range(c) : c \in {}} <=> \E c \in {} : p \in Range(c)
    BY Packed
  <2> QED BY <2>1, <2>2 DEF Init, Abstract!Init, Queued, Piped
<1> QED
  BY <1>1, InitIInv, InductiveStep, FifoStep, PTL
     DEF Spec, ImplementsLossyFifo, Abstract!Spec
=============================================================================
