-------------------------- MODULE StreamRxProofs --------------------------
(***************************************************************************)
(* Messages come out of a stream in the order they were written, for any   *)
(* number of messages and fragments, any sizes and any cutting of the      *)
(* bytes, if what precedes the first packet is shorter than a packet. Each *)
(* is whole behind any rest that is shorter than a full fragment. The      *)
(* invariant, RxInv, has three parts. The packets of the wire follow each  *)
(* other: in their bytes, and as messages cut into fragments (Wired).      *)
(* Behind a short rest the reader has handled some prefix of p packets,    *)
(* and what was delivered, the last sequence number and buf_fragments are  *)
(* functions of that prefix; the input buffer starts as many bytes before  *)
(* the end of packet p as there were before the first packet, so that the  *)
(* next signature found is that of packet p + 1 (Placed). Behind a longer  *)
(* one packets are handled again. There the bytes counted lag behind the   *)
(* packets handled by less than a full fragment (LagOK), and buf_fragments *)
(* holds a beginning of one message, whose next fragment comes before any  *)
(* later fragment of that length (FragOK).                                 *)
(***************************************************************************)
EXTENDS StreamRx, FiniteSetTheorems, TLAPS

\* Leaves go to Zenon, with time to spare, unless they name the SMT solver.
USE ZenonT(30)

EndOf(w, i) == IF i = 0 THEN junk ELSE w[i].end

\* No message is in progress after i packets.
Complete(w, i) == i = 0 \/ w[i].k = w[i].n

\* The messages that are complete after i packets.
Done(w, i) ==
    IF i = 0 THEN 0 ELSE IF w[i].k = w[i].n THEN w[i].m ELSE w[i].m - 1

\* A packet of a message, the first of it or a further one, or a control packet.
InTurn(w, i) ==
    \/ /\ w[i].type \in {"DATA", "FRAGMENT"}
       /\ w[i].k = 1
       /\ w[i].n = 1 <=> w[i].type = "DATA"
       /\ w[i].n >= 1
       /\ Complete(w, i - 1)
       /\ w[i].m = Done(w, i - 1) + 1
    \/ /\ w[i].type = "FRAGMENT"
       /\ i > 1
       /\ w[i].k > 1 /\ w[i].k <= w[i].n
       /\ w[i].m >= 1
       /\ w[i - 1].m = w[i].m /\ w[i - 1].n = w[i].n /\ w[i - 1].k = w[i].k - 1
    \/ /\ w[i].type \in {"KEEPALIVE", "ALIVE"}
       /\ w[i].k = 0 /\ w[i].n = 0
       /\ Complete(w, i - 1)
       /\ w[i].m = Done(w, i - 1)

\* Only a first fragment, or a last one behind two others, is short.
Sized(e) ==
    /\ e.end >= e.at + ControlSize
    /\ e.end <= e.at + FullSize
    /\ e.k > 1 /\ ~(e.k = e.n /\ e.n > 2) => e.end = e.at + FullSize

Follows(w, i) ==
    /\ w[i].at = EndOf(w, i - 1)
    /\ Sized(w[i])
    /\ InTurn(w, i)

\* Packet d comes before packet e.  Between the end of a message and the end of
\* a further fragment of a later one lies a full fragment.
Before(d, e) ==
    /\ d.end <= e.at
    /\ d.m <= e.m
    /\ d.m = e.m => e.k = 0 \/ d.k < e.k
    /\ d.m < e.m /\ e.k > 1 => d.end + FullSize <= e.end

WireOK(w, s) ==
    /\ w \in Seq(Packet)
    /\ \A i \in 1..Len(w) : Follows(w, i) /\ junk <= w[i].at /\ w[i].m <= s
    /\ \A i, j \in 1..Len(w) : i < j => Before(w[i], w[j])
    /\ Complete(w, Len(w))
    /\ Done(w, Len(w)) = s

\* buf_fragments after packet i.
FragOf(w, i) ==
    IF Complete(w, i) THEN NoFrag
    ELSE [hdr |-> w[i].m, size |-> w[i].n, from |-> {w[i].m},
          filled |-> w[i].k, total |-> w[i].n]

Messages == [m : Nat, from : SUBSET Nat]

ReaderOK(w, p) ==
    /\ delivered \in Seq(Messages)
    /\ Len(delivered) = Done(w, p)
    /\ \A i \in 1..Len(delivered) : delivered[i].m = i /\ delivered[i].from = {i}
    /\ last = SeqIdOf(Done(w, p))
    /\ frag = FragOf(w, p)

CursorOK(w, p) ==
    /\ lo \in Nat /\ hi \in Nat /\ pos \in Nat /\ used \in Nat
    /\ lo <= hi
    /\ pos = 0 => lo = EndOf(w, p) - junk
    /\ pos # 0 => pos = p + 1 /\ lo + used = EndOf(w, p) - junk /\ lo + used <= hi

\* What has been written, ...
Wired ==
    /\ junk \in Junks
    /\ seq_id \in Nat
    /\ WireOK(wire, seq_id)

\* ... where the reader is behind a short rest, ...
Placed == \E p \in 0..Len(wire) : ReaderOK(wire, p) /\ CursorOK(wire, p)

\* ... and behind any.  What lies between the bytes counted as handled and the
\* next packet is less than a full fragment.  buf_fragments is that of a packet
\* g whose end is no further behind the place where the search begins.
FragAt(w, g) ==
    /\ ~Complete(w, g) /\ frag = FragOf(w, g) /\ w[g].end <= hi
    /\ pos = 0 => lo <= w[g].end /\ w[g].end < lo + FullSize
    /\ pos # 0 => g = pos - 1 \/ (pos <= g /\ w[g].end < w[pos].at + FullSize)

FragOK(w) == frag = NoFrag \/ \E g \in 1..Len(w) : FragAt(w, g)

LagOK(w) ==
    /\ lo \in Nat /\ hi \in Nat /\ pos \in Nat /\ used \in Nat
    /\ lo <= hi /\ hi <= EndOf(w, Len(w)) /\ pos <= Len(w) + 1
    /\ pos # 0 => /\ lo + used <= hi
                  /\ lo + used <= EndOf(w, pos - 1)
                  /\ EndOf(w, pos - 1) < lo + used + FullSize

AllWhole ==
    /\ delivered \in Seq(Messages)
    /\ \A i \in 1..Len(delivered) : delivered[i].from = {delivered[i].m}

\* The inductive invariant.
RxInv ==
    /\ Wired
    /\ ShortJunk => Placed
    /\ LagOK(wire) /\ FragOK(wire) /\ AllWhole

-----------------------------------------------------------------------------
\* What a prefix is does not depend on what is written after it.
LEMMA PrefixSame ==
    ASSUME NEW w, NEW u, NEW p \in Nat, p # 0 => u[p] = w[p]
    PROVE  /\ EndOf(u, p) = EndOf(w, p)
           /\ Complete(u, p) = Complete(w, p)
           /\ Done(u, p) = Done(w, p)
           /\ FragOf(u, p) = FragOf(w, p)
<1>1. EndOf(u, p) = EndOf(w, p)
  BY DEF EndOf
<1>2. Complete(u, p) = Complete(w, p)
  BY DEF Complete
<1>3. Done(u, p) = Done(w, p)
  BY DEF Done
<1>4. FragOf(u, p) = FragOf(w, p)
  <2>1. CASE p = 0
    BY <2>1 DEF FragOf, Complete
  <2>2. CASE p # 0
    BY <2>2 DEF FragOf, Complete
  <2> QED BY <2>1, <2>2
<1> QED BY <1>1, <1>2, <1>3, <1>4

\* So a packet keeps its place.
LEMMA FollowsSame ==
    ASSUME NEW w, NEW u, NEW i \in Nat, i >= 1, u[i] = w[i], i > 1 => u[i - 1] = w[i - 1],
           Follows(w, i)
    PROVE  Follows(u, i)
<1>1. /\ EndOf(u, i - 1) = EndOf(w, i - 1)
      /\ Complete(u, i - 1) = Complete(w, i - 1)
      /\ Done(u, i - 1) = Done(w, i - 1)
  BY PrefixSame, SMTT(30)
<1>2. InTurn(u, i)
  BY <1>1 DEF Follows, InTurn
<1> QED BY <1>1, <1>2 DEF Follows

\* The end of a prefix lies before whatever follows it.
LEMMA EndBefore ==
    ASSUME NEW w, NEW s, WireOK(w, s), junk \in Nat, NEW p \in 0..Len(w)
    PROVE  /\ EndOf(w, p) \in Nat
           /\ junk <= EndOf(w, p)
           /\ \A i \in 1..Len(w) : i > p => EndOf(w, p) <= w[i].at
           /\ \A i \in 1..Len(w) : i <= p => w[i].end <= EndOf(w, p)
<1>1. \A i \in 1..Len(w) : w[i].at \in Nat /\ w[i].end \in Nat /\ w[i].at < w[i].end
  <2> TAKE i \in 1..Len(w)
  <2>1. w[i] \in Packet /\ Follows(w, i)
    BY SMTT(30) DEF WireOK
  <2>2. w[i].at \in Nat /\ w[i].end \in Nat
    BY <2>1 DEF Packet
  <2> QED BY <2>1, <2>2, RxAssumption, SMTT(30) DEF Follows, Sized
<1>2. CASE p = 0
  BY <1>2, SMTT(30) DEF EndOf, WireOK
<1>3. CASE p # 0
  <2>1. p \in 1..Len(w) /\ EndOf(w, p) = w[p].end
    BY <1>3, SMTT(30) DEF EndOf, WireOK
  <2>2. junk <= w[p].at
    BY <2>1 DEF WireOK
  <2>3. ASSUME NEW i \in 1..Len(w), i > p PROVE EndOf(w, p) <= w[i].at
    BY <2>1, <2>3 DEF WireOK, Before
  <2>4. ASSUME NEW i \in 1..Len(w), i <= p PROVE w[i].end <= EndOf(w, p)
    <3>1. CASE i = p
      BY <2>1, <3>1, <1>1, SMTT(30)
    <3>2. CASE i # p
      <4>1. i < p
        BY <2>4, <3>2, <2>1, SMTT(30)
      <4>2. w[i].end <= w[p].at
        BY <2>1, <4>1 DEF WireOK, Before
      <4> QED BY <2>1, <4>2, <1>1, SMTT(30)
    <3> QED BY <3>1, <3>2
  <2> QED BY <1>1, <2>1, <2>2, <2>3, <2>4, SMTT(30)
<1> QED BY <1>2, <1>3

\* Packet e comes after all the packets that end at z and are of message s at most.
After(e, z, s) ==
    /\ z <= e.at
    /\ s <= e.m
    /\ e.m = s => e.k = 0
    /\ e.k > 1 => z + FullSize <= e.end

\* What is written at the end of the wire keeps it sound if it is sound itself.
LEMMA Extend ==
    ASSUME NEW w, NEW s \in Nat, WireOK(w, s), junk \in Nat,
           NEW u \in Seq(Packet), Len(u) >= Len(w), NEW t \in Nat, s <= t,
           \A i \in 1..Len(w) : u[i] = w[i],
           \A i \in Len(w) + 1 .. Len(u) :
               Follows(u, i) /\ After(u[i], EndOf(w, Len(w)), s) /\ u[i].m <= t,
           \A i, j \in Len(w) + 1 .. Len(u) : i < j => Before(u[i], u[j]),
           Complete(u, Len(u)), Done(u, Len(u)) = t
    PROVE  WireOK(u, t)
<1>1. w \in Seq(Packet) /\ Len(w) \in Nat /\ Len(u) \in Nat
  BY SMTT(30) DEF WireOK
<1>2. /\ EndOf(w, Len(w)) \in Nat /\ junk <= EndOf(w, Len(w))
      /\ \A i \in 1..Len(w) : w[i].end <= EndOf(w, Len(w))
  BY <1>1, EndBefore, SMTT(30)
<1>3. \A i \in 1..Len(u) : /\ u[i] \in Packet /\ u[i].at \in Nat /\ u[i].end \in Nat
                           /\ u[i].m \in Nat /\ u[i].k \in Nat
  <2> TAKE i \in 1..Len(u)
  <2>1. u[i] \in Packet
    BY <1>1, SMTT(30)
  <2> QED BY <2>1 DEF Packet
<1>4. ASSUME NEW i \in 1..Len(u) PROVE Follows(u, i) /\ junk <= u[i].at /\ u[i].m <= t
  <2>1. CASE i <= Len(w)
    <3>1. i \in 1..Len(w) /\ u[i] = w[i] /\ (i > 1 => u[i - 1] = w[i - 1])
      BY <1>1, <2>1, SMTT(30)
    <3>2. Follows(w, i) /\ junk <= w[i].at /\ w[i].m <= s
      BY <3>1 DEF WireOK
    <3>3. u[i].m <= t
      BY <1>3, <3>1, <3>2, SMTT(30)
    <3> QED BY <3>1, <3>2, <3>3, FollowsSame, SMTT(30)
  <2>2. CASE i > Len(w)
    <3>1. i \in Len(w) + 1 .. Len(u)
      BY <1>1, <2>2, SMTT(30)
    <3> QED BY <1>2, <1>3, <3>1, SMTT(30) DEF After
  <2> QED BY <1>1, <2>1, <2>2, SMTT(30)
<1>5. ASSUME NEW i \in 1..Len(u), NEW j \in 1..Len(u), i < j PROVE Before(u[i], u[j])
  <2>1. CASE j <= Len(w)
    <3>1. i \in 1..Len(w) /\ j \in 1..Len(w)
      BY <1>1, <1>5, <2>1, SMTT(30)
    <3> QED BY <1>5, <3>1 DEF WireOK
  <2>2. CASE i <= Len(w) /\ j > Len(w)
    <3>1. i \in 1..Len(w) /\ j \in Len(w) + 1 .. Len(u)
      BY <1>1, <2>2, SMTT(30)
    <3>2. /\ u[i].end <= EndOf(w, Len(w)) /\ u[i].m <= s
          /\ After(u[j], EndOf(w, Len(w)), s)
      BY <1>2, <3>1 DEF WireOK
    <3> DEFINE d == u[i]
               e == u[j]
    <3>3. /\ d.end \in Nat /\ d.m \in Nat /\ d.k \in Nat
          /\ e.at \in Nat /\ e.end \in Nat /\ e.m \in Nat /\ e.k \in Nat
      BY <1>3
    <3> HIDE DEF d, e
    <3>4. FullSize \in Nat
      BY RxAssumption
    <3> DEFINE z == EndOf(w, Len(w))
    <3>5. /\ z \in Nat /\ d.end <= z /\ d.m <= s
          /\ z <= e.at /\ s <= e.m /\ (e.m = s => e.k = 0) /\ (e.k > 1 => z + FullSize <= e.end)
      BY <1>2, <3>2 DEF After, d, e
    <3> HIDE DEF z
    <3>6. d.end <= e.at /\ d.m <= e.m
      BY <3>3, <3>5, SMTT(30)
    <3>7. d.m = e.m => e.k = 0 \/ d.k < e.k
      BY <3>3, <3>5, SMTT(30)
    <3>8. d.m < e.m /\ e.k > 1 => d.end + FullSize <= e.end
      BY <3>3, <3>4, <3>5, SMTT(30)
    <3>9. Before(d, e)
      BY <3>6, <3>7, <3>8 DEF Before
    <3> QED BY <3>9 DEF d, e
  <2>3. CASE i > Len(w)
    BY <1>1, <1>5, <2>3, SMTT(30)
  <2> QED BY <1>1, <1>5, <2>1, <2>2, <2>3, SMTT(30)
<1> QED BY <1>4, <1>5 DEF WireOK

-----------------------------------------------------------------------------
\* Writing moves no packet, so the reader is where it was.
LEMMA ReaderSame ==
    ASSUME NEW w, NEW u, NEW p \in Nat, p # 0 => u[p] = w[p],
           ReaderOK(w, p), CursorOK(w, p)
    PROVE  ReaderOK(u, p) /\ CursorOK(u, p)
<1>1. /\ EndOf(u, p) = EndOf(w, p)
      /\ Done(u, p) = Done(w, p)
      /\ FragOf(u, p) = FragOf(w, p)
  BY PrefixSame
<1> QED BY <1>1 DEF ReaderOK, CursorOK

\* A step that writes one packet, in its turn.
LEMMA WriteOne ==
    ASSUME Wired, NEW e \in Packet, NEW t \in Nat, seq_id <= t,
           LET u == Append(wire, e)
           IN  /\ InTurn(u, Len(wire) + 1)
               /\ e.k = e.n /\ e.m = t,
           e.at = EndOf(wire, Len(wire)), Sized(e), e.k <= 1, t = seq_id => e.k = 0
    PROVE  WireOK(Append(wire, e), t)
<1> DEFINE w == wire
           u == Append(w, e)
<1>1. w \in Seq(Packet) /\ Len(w) \in Nat /\ WireOK(w, seq_id)
  BY SMTT(30) DEF Wired, WireOK
<1>2. /\ u \in Seq(Packet) /\ Len(u) = Len(w) + 1
      /\ \A i \in 1..Len(w) : u[i] = w[i]
      /\ u[Len(w) + 1] = e
  BY <1>1, SMTT(30)
<1>3. EndOf(u, Len(w)) = EndOf(w, Len(w))
  <2>1. Len(w) # 0 => u[Len(w)] = w[Len(w)]
    BY <1>1, <1>2, SMTT(30)
  <2> QED BY <1>1, <2>1, PrefixSame
<1>4. InTurn(u, Len(w) + 1)
  OBVIOUS
<1> HIDE DEF u, w
<1>5. Follows(u, Len(w) + 1)
  <2>1. Len(w) + 1 - 1 = Len(w)
    BY <1>1, SMTT(30)
  <2> QED BY <1>2, <1>3, <1>4, <2>1, SMTT(30) DEF Follows, w
<1>6. Complete(u, Len(u)) /\ Done(u, Len(u)) = t
  BY <1>1, <1>2, SMTT(30) DEF Complete, Done
<1>7. \A i \in Len(w) + 1 .. Len(u) : i = Len(w) + 1
  BY <1>1, <1>2, SMTT(30)
<1>8. e.at \in Nat /\ e.m \in Nat /\ e.k \in Nat /\ seq_id \in Nat /\ junk \in Nat
  BY RxAssumption DEF Packet, Wired
<1>9. After(e, EndOf(w, Len(w)), seq_id) /\ e.m <= t
  BY <1>8, SMTT(30) DEF After, w
<1>10. /\ \A i \in Len(w) + 1 .. Len(u) :
            Follows(u, i) /\ After(u[i], EndOf(w, Len(w)), seq_id) /\ u[i].m <= t
       /\ \A i, j \in Len(w) + 1 .. Len(u) : i < j => Before(u[i], u[j])
  BY <1>1, <1>2, <1>5, <1>7, <1>9, SMTT(30)
<1>11. Len(u) >= Len(w)
  BY <1>1, <1>2, SMTT(30)
<1>12. WireOK(u, t)
  BY <1>1, <1>2, <1>6, <1>8, <1>10, <1>11, Extend
<1> QED BY <1>12 DEF u, w

\* The wire as the writers see it.
LEMMA WireFacts ==
    ASSUME Wired
    PROVE  /\ wire \in Seq(Packet) /\ Len(wire) \in Nat
           /\ WireOK(wire, seq_id) /\ junk \in Nat /\ junk < FullSize
           /\ WireEnd = EndOf(wire, Len(wire)) /\ WireEnd \in Nat
           /\ Complete(wire, Len(wire)) /\ Done(wire, Len(wire)) = seq_id
           /\ seq_id \in Nat
<1>1. wire \in Seq(Packet) /\ Len(wire) \in Nat /\ WireOK(wire, seq_id)
  <2>1. WireOK(wire, seq_id)
    BY DEF Wired
  <2>2. wire \in Seq(Packet)
    BY <2>1 DEF WireOK
  <2> QED BY <2>1, <2>2, SMTT(30)
<1>2. WireEnd = EndOf(wire, Len(wire))
  BY <1>1, SMTT(30) DEF WireEnd, EndOf
<1>3. junk \in Nat /\ junk < FullSize
  BY RxAssumption DEF Wired
<1>4. EndOf(wire, Len(wire)) \in Nat
  BY <1>1, <1>3, EndBefore, SMTT(30)
<1> QED BY <1>1, <1>2, <1>3, <1>4 DEF Wired, WireOK

\* A longer wire.
Longer ==
    /\ Wired' /\ WireOK(wire', seq_id')
    /\ Len(wire') >= Len(wire)
    /\ \A i \in 1..Len(wire) : wire'[i] = wire[i]

\* What is sound of the packets written is sound of the wire.
LEMMA WiredNext ==
    ASSUME WireOK(wire', seq_id'), seq_id' \in Nat, Wired, junk' = junk
    PROVE  Wired'
<1>1. (WireOK(wire, seq_id))'
  BY DEF WireOK, Follows, Sized, Before, InTurn, EndOf, Complete, Done
<1> QED BY <1>1 DEF Wired

\* The reader is untouched, behind a short rest ...
LEMMA WrittenPlaced ==
    ASSUME Wired, Longer, Placed,
           UNCHANGED <<junk, lo, hi, pos, used, last, frag, delivered>>
    PROVE  Placed'
<1>1. PICK p \in 0..Len(wire) : ReaderOK(wire, p) /\ CursorOK(wire, p)
  BY DEF Placed
<1>2. wire \in Seq(Packet) /\ wire' \in Seq(Packet)
  BY DEF Wired, WireOK, Longer
<1>3. p \in 0..Len(wire') /\ p \in Nat /\ (p # 0 => wire'[p] = wire[p])
  BY <1>2, SMTT(30) DEF Longer
<1>4. ReaderOK(wire', p) /\ CursorOK(wire', p)
  BY <1>1, <1>3, ReaderSame
<1>5. (ReaderOK(wire, p))'
  BY <1>4 DEF ReaderOK, FragOf, Done, Complete
<1>6. (CursorOK(wire, p))'
  BY <1>4 DEF CursorOK, EndOf
<1> QED BY <1>3, <1>5, <1>6 DEF Placed

-----------------------------------------------------------------------------
\* dap_stream_ch_pkt_write_unsafe in one packet.
LEMMA WriteDataOK == ASSUME Wired, WriteData PROVE Longer
<1> DEFINE e == Pkt("DATA", seq_id + 1, 1, 1, WireEnd, ShortSize)
           u == Append(wire, e)
<1>1. /\ wire \in Seq(Packet) /\ Len(wire) \in Nat
      /\ WireEnd = EndOf(wire, Len(wire)) /\ WireEnd \in Nat
      /\ Complete(wire, Len(wire)) /\ Done(wire, Len(wire)) = seq_id
      /\ seq_id \in Nat
  BY WireFacts
<1>2. wire' = u /\ seq_id' = seq_id + 1
  BY DEF WriteData
<1>3. /\ e \in Packet /\ e.type = "DATA" /\ e.m = seq_id + 1 /\ e.k = 1 /\ e.n = 1
      /\ e.at = WireEnd /\ e.end = WireEnd + ShortSize
  <2>1. ShortSize \in Nat /\ seq_id + 1 \in Nat /\ 1 \in Nat
    BY <1>1, RxAssumption, SMTT(30)
  <2> QED BY <1>1, <2>1, SMTT(30) DEF Pkt, Packet
<1> HIDE DEF e
<1>4. /\ \A i \in 1..Len(wire) : u[i] = wire[i]
      /\ u[Len(wire) + 1] = e /\ Len(u) = Len(wire) + 1
  BY <1>1, <1>3, SMTT(30)
<1>5. Complete(u, Len(wire)) /\ Done(u, Len(wire)) = seq_id
  <2>1. Len(wire) # 0 => u[Len(wire)] = wire[Len(wire)]
    BY <1>1, <1>4, SMTT(30)
  <2> HIDE DEF u
  <2> QED BY <1>1, <2>1, PrefixSame
<1>6. InTurn(u, Len(wire) + 1)
  <2> HIDE DEF u
  <2>1. Len(wire) + 1 - 1 = Len(wire)
    BY <1>1, SMTT(30)
  <2> QED BY <1>3, <1>4, <1>5, <2>1, SMTT(30) DEF InTurn
<1>7. WireOK(u, seq_id + 1)
  <2>1. Sized(e) /\ e.k <= 1
    BY <1>1, <1>3, RxAssumption, SMTT(30) DEF Sized
  <2>2. seq_id + 1 \in Nat /\ seq_id <= seq_id + 1 /\ seq_id + 1 # seq_id
    BY <1>1, SMTT(30)
  <2> QED BY <1>1, <1>3, <1>6, <2>1, <2>2, WriteOne
<1>8. \A i \in 1..Len(wire) : wire'[i] = wire[i]
  BY <1>2, <1>4
<1>9. Len(wire') >= Len(wire) /\ seq_id' \in Nat /\ WireOK(wire', seq_id')
  BY <1>1, <1>2, <1>4, <1>7, SMTT(30)
<1>10. junk' = junk
  BY DEF WriteData
<1> QED BY <1>8, <1>9, <1>10, WiredNext DEF Longer

\* A control packet, which comes between messages.
LEMMA WriteControlOK ==
    ASSUME Wired, NEW type \in {"KEEPALIVE", "ALIVE"},
           wire' = Append(wire, Pkt(type, seq_id, 0, 0, WireEnd, ControlSize)),
           UNCHANGED <<junk, seq_id>>
    PROVE  Longer
<1> DEFINE e == Pkt(type, seq_id, 0, 0, WireEnd, ControlSize)
           u == Append(wire, e)
<1>1. /\ wire \in Seq(Packet) /\ Len(wire) \in Nat
      /\ WireEnd = EndOf(wire, Len(wire)) /\ WireEnd \in Nat
      /\ Complete(wire, Len(wire)) /\ Done(wire, Len(wire)) = seq_id
      /\ seq_id \in Nat
  BY WireFacts
<1>2. wire' = u /\ seq_id' = seq_id
  OBVIOUS
<1>3. /\ e \in Packet /\ e.type = type /\ e.m = seq_id /\ e.k = 0 /\ e.n = 0
      /\ e.at = WireEnd /\ e.end = WireEnd + ControlSize
  <2>1. ControlSize \in Nat /\ 0 \in Nat
    BY RxAssumption
  <2>2. type \in {"DATA", "FRAGMENT", "KEEPALIVE", "ALIVE"}
    OBVIOUS
  <2> QED BY <1>1, <2>1, <2>2, SMTT(30) DEF Pkt, Packet
<1> HIDE DEF e
<1>4. /\ \A i \in 1..Len(wire) : u[i] = wire[i]
      /\ u[Len(wire) + 1] = e /\ Len(u) = Len(wire) + 1
  BY <1>1, <1>3, SMTT(30)
<1>5. Complete(u, Len(wire)) /\ Done(u, Len(wire)) = seq_id
  <2>1. Len(wire) # 0 => u[Len(wire)] = wire[Len(wire)]
    BY <1>1, <1>4, SMTT(30)
  <2> HIDE DEF u
  <2> QED BY <1>1, <2>1, PrefixSame
<1>6. InTurn(u, Len(wire) + 1)
  <2> HIDE DEF u
  <2>1. Len(wire) + 1 - 1 = Len(wire)
    BY <1>1, SMTT(30)
  <2> QED BY <1>3, <1>4, <1>5, <2>1, SMTT(30) DEF InTurn
<1>7. WireOK(u, seq_id)
  <2>1. Sized(e) /\ e.k <= 1
    BY <1>1, <1>3, RxAssumption, SMTT(30) DEF Sized
  <2>2. seq_id <= seq_id
    BY <1>1, SMTT(30)
  <2> QED BY <1>1, <1>3, <1>6, <2>1, <2>2, WriteOne
<1>8. \A i \in 1..Len(wire) : wire'[i] = wire[i]
  BY <1>2, <1>4
<1>9. Len(wire') >= Len(wire) /\ seq_id' \in Nat /\ WireOK(wire', seq_id')
  BY <1>1, <1>2, <1>4, <1>7, SMTT(30)
<1> QED BY <1>8, <1>9, WiredNext DEF Longer

\* Products of naturals.
LEMMA Products ==
    ASSUME NEW a \in Nat, NEW b \in Nat, NEW f \in Nat
    PROVE  /\ a * f \in Nat
           /\ (a + 1) * f = a * f + f
           /\ a <= b => a * f <= b * f
<1>1. a * f \in Nat
  BY SMTT(30)
<1>2. (a + 1) * f = a * f + f
  BY SMTT(30)
<1>3. a <= b => a * f <= b * f
  BY SMTT(30)
<1> QED BY <1>1, <1>2, <1>3

\* Where the fragments of a message lie: one after the other.
LEMMA FragmentsLie ==
    ASSUME WireEnd \in Nat, NEW n \in Nat, NEW k \in 1..n
    PROVE  /\ FragmentAt(k) \in Nat
           /\ FragmentSize(k, n) \in Nat /\ FragmentSize(k, n) >= ControlSize
           /\ WireEnd <= FragmentAt(k)
           /\ k = 1 => FragmentAt(k) = WireEnd
           /\ \A l \in 1..n : k < l => FragmentAt(k) + FragmentSize(k, n) <= FragmentAt(l)
           /\ k > 1 => FragmentAt(k) = FragmentAt(k - 1) + FragmentSize(k - 1, n)
           /\ FragmentSize(k, n) <= FullSize
           /\ k > 1 /\ ~(k = n /\ n > 2) => FragmentSize(k, n) = FullSize
           /\ k > 1 => WireEnd + FullSize <= FragmentAt(k) + FragmentSize(k, n)
<1>1. /\ ControlSize \in Nat /\ ShortSize \in Nat /\ FullSize \in Nat
      /\ ControlSize <= ShortSize /\ ShortSize <= FullSize
  BY RxAssumption
<1>2. /\ FragmentSize(k, n) \in {ShortSize, FullSize}
      /\ FragmentSize(k, n) <= FullSize
      /\ k = 1 => FragmentSize(k, n) = ShortSize
      /\ k > 1 /\ ~(k = n /\ n > 2) => FragmentSize(k, n) = FullSize
  BY <1>1, SMTT(30) DEF FragmentSize
<1>3. ASSUME NEW l \in 1..n, l > 1
      PROVE  /\ l - 2 \in Nat /\ (l - 2) * FullSize \in Nat
             /\ FragmentAt(l) = WireEnd + ShortSize + (l - 2) * FullSize
             /\ FragmentAt(l) \in Nat
  <2>1. l - 2 \in Nat
    BY <1>3, SMTT(30)
  <2>2. (l - 2) * FullSize \in Nat
    BY <1>1, <2>1, Products
  <2>3. FragmentAt(l) = WireEnd + (ShortSize + (l - 2) * FullSize)
    BY <1>3, SMTT(30) DEF FragmentAt
  <2> HIDE DEF FragmentAt
  <2> QED BY <1>1, <2>1, <2>2, <2>3, SMTT(30)
<1>4. k = 1 => FragmentAt(k) = WireEnd
  BY SMTT(30) DEF FragmentAt
<1>5. FragmentAt(k) \in Nat /\ WireEnd <= FragmentAt(k)
  BY <1>1, <1>3, <1>4, SMTT(30)
<1>6. ASSUME NEW l \in 1..n, k < l
      PROVE  FragmentAt(k) + FragmentSize(k, n) <= FragmentAt(l)
  <2>1. CASE k = 1
    BY <1>1, <1>2, <1>3, <1>4, <1>6, <2>1, SMTT(30)
  <2>2. CASE k > 1
    <3>1. k - 2 \in Nat /\ l - 2 \in Nat /\ k - 2 + 1 \in Nat /\ k - 2 + 1 <= l - 2
      BY <1>6, <2>2, SMTT(30)
    <3>2. /\ (k - 2 + 1) * FullSize = (k - 2) * FullSize + FullSize
          /\ (k - 2 + 1) * FullSize <= (l - 2) * FullSize
      BY <1>1, <3>1, Products
    <3>3. /\ FragmentAt(k) = WireEnd + ShortSize + (k - 2) * FullSize
          /\ FragmentAt(l) = WireEnd + ShortSize + (l - 2) * FullSize
          /\ (k - 2) * FullSize \in Nat /\ (l - 2) * FullSize \in Nat
      BY <1>3, <1>6, <2>2, SMTT(30)
    <3> QED BY <1>1, <1>2, <3>2, <3>3, SMTT(30)
  <2> QED BY <2>1, <2>2, SMTT(30)
<1>7. ASSUME k > 1
      PROVE  FragmentAt(k) = FragmentAt(k - 1) + FragmentSize(k - 1, n)
  <2>1. CASE k = 2
    BY <1>1, <2>1, SMTT(30) DEF FragmentAt, FragmentSize
  <2>2. CASE k > 2
    <3>1. k - 3 \in Nat /\ k - 3 + 1 = k - 2 /\ k - 1 \in 1..n /\ k - 1 > 1 /\ k - 1 - 2 = k - 3
      BY <2>2, SMTT(30)
    <3>2. (k - 2) * FullSize = (k - 3) * FullSize + FullSize
      BY <1>1, <3>1, Products, SMTT(30)
    <3>3. /\ FragmentAt(k) = WireEnd + ShortSize + (k - 2) * FullSize
          /\ FragmentAt(k - 1) = WireEnd + ShortSize + (k - 3) * FullSize
          /\ (k - 2) * FullSize \in Nat /\ (k - 3) * FullSize \in Nat
      BY <1>3, <1>7, <3>1
    <3>4. FragmentSize(k - 1, n) = FullSize
      BY <2>2, SMTT(30) DEF FragmentSize
    <3> QED BY <1>1, <3>2, <3>3, <3>4, SMTT(30)
  <2> QED BY <1>7, <2>1, <2>2, SMTT(30)
<1>8. ASSUME k > 1
      PROVE  WireEnd + FullSize <= FragmentAt(k) + FragmentSize(k, n)
  <2>1. CASE k = 2
    <3>1. FragmentSize(k, n) = FullSize
      BY <1>2, <2>1, SMTT(30)
    <3> QED BY <1>1, <1>5, <3>1, SMTT(30)
  <2>2. CASE k > 2
    <3>1. k - 2 \in Nat /\ 1 <= k - 2
      BY <2>2, SMTT(30)
    <3>2. 1 * FullSize <= (k - 2) * FullSize
      BY <1>1, <3>1, Products
    <3>3. /\ FragmentAt(k) = WireEnd + ShortSize + (k - 2) * FullSize
          /\ (k - 2) * FullSize \in Nat
      BY <1>3, <1>8
    <3> QED BY <1>1, <1>2, <3>2, <3>3, SMTT(30)
  <2> QED BY <1>8, <2>1, <2>2, SMTT(30)
<1> QED BY <1>1, <1>2, <1>4, <1>5, <1>6, <1>7, <1>8, SMTT(30)

\* dap_stream_ch_pkt_write_unsafe in fragments.
LEMMA WriteFragmentsOK ==
    ASSUME Wired, NEW n \in Fragments, WriteFragments(n) PROVE Longer
<1> DEFINE v == [k \in 1..n |-> Pkt("FRAGMENT", seq_id + 1, k, n, FragmentAt(k), FragmentSize(k, n))]
           u == wire \o v
           L == Len(wire)
<1>1. /\ wire \in Seq(Packet) /\ L \in Nat
      /\ WireEnd = EndOf(wire, L) /\ WireEnd \in Nat
      /\ Complete(wire, L) /\ Done(wire, L) = seq_id
      /\ seq_id \in Nat
  BY WireFacts
<1>2. n \in Nat /\ n >= 2
  BY RxAssumption, SMTT(30)
<1>3. ASSUME NEW k \in 1..n
      PROVE  /\ v[k] \in Packet
             /\ v[k].type = "FRAGMENT" /\ v[k].m = seq_id + 1 /\ v[k].k = k /\ v[k].n = n
             /\ v[k].at = FragmentAt(k) /\ v[k].end = FragmentAt(k) + FragmentSize(k, n)
  <2>1. FragmentAt(k) \in Nat /\ FragmentSize(k, n) \in Nat
    BY <1>1, <1>2, FragmentsLie
  <2>2. k \in Nat /\ seq_id + 1 \in Nat
    BY <1>1, <1>2, SMTT(30)
  <2>3. v[k] = Pkt("FRAGMENT", seq_id + 1, k, n, FragmentAt(k), FragmentSize(k, n))
    OBVIOUS
  <2> HIDE DEF v
  <2> QED BY <1>2, <2>1, <2>2, <2>3, SMTT(30) DEF Pkt, Packet
<1>4. v \in Seq(Packet) /\ Len(v) = n
  <2>1. v \in [1..n -> Packet]
    BY <1>3
  <2> HIDE DEF v
  <2> QED BY <1>2, <2>1, SMTT(30)
<1>5. wire' = u /\ seq_id' = seq_id + 1
  BY DEF WriteFragments
<1> HIDE DEF v
<1>6. /\ u \in Seq(Packet) /\ Len(u) = L + n
      /\ \A i \in 1..L : u[i] = wire[i]
      /\ \A i \in L + 1 .. L + n : u[i] = v[i - L]
  BY <1>1, <1>2, <1>4, SMTT(30)
<1> HIDE DEF u, L
<1>7. Complete(u, L) /\ Done(u, L) = seq_id /\ EndOf(u, L) = WireEnd
  <2>1. L # 0 => u[L] = wire[L]
    BY <1>1, <1>6, SMTT(30)
  <2> QED BY <1>1, <2>1, PrefixSame
<1>8. ASSUME NEW i \in L + 1 .. Len(u)
      PROVE  Follows(u, i) /\ After(u[i], EndOf(wire, L), seq_id) /\ u[i].m <= seq_id + 1
  <2> DEFINE k == i - L
  <2>1. k \in 1..n /\ u[i] = v[k]
    BY <1>1, <1>2, <1>6, SMTT(30)
  <2>2. /\ FragmentAt(k) \in Nat /\ FragmentSize(k, n) \in Nat
        /\ FragmentSize(k, n) >= ControlSize /\ WireEnd <= FragmentAt(k)
        /\ k = 1 => FragmentAt(k) = WireEnd
        /\ k > 1 => FragmentAt(k) = FragmentAt(k - 1) + FragmentSize(k - 1, n)
        /\ FragmentSize(k, n) <= FullSize
        /\ k > 1 /\ ~(k = n /\ n > 2) => FragmentSize(k, n) = FullSize
        /\ k > 1 => WireEnd + FullSize <= FragmentAt(k) + FragmentSize(k, n)
    BY <1>1, <1>2, <2>1, FragmentsLie
  <2>3. /\ u[i].type = "FRAGMENT" /\ u[i].m = seq_id + 1 /\ u[i].k = k /\ u[i].n = n
        /\ u[i].at = FragmentAt(k) /\ u[i].end = FragmentAt(k) + FragmentSize(k, n)
    BY <1>3, <2>1
  <2>6. Sized(u[i])
    <3> HIDE DEF k
    <3>1. FragmentAt(k) + FragmentSize(k, n) <= FragmentAt(k) + FullSize
      BY <2>2, RxAssumption, SMTT(30)
    <3>2. FragmentAt(k) + FragmentSize(k, n) >= FragmentAt(k) + ControlSize
      BY <2>2, RxAssumption, SMTT(30)
    <3> QED BY <2>2, <2>3, <3>1, <3>2 DEF Sized
  <2>7. After(u[i], EndOf(wire, L), seq_id)
    <3>1. seq_id <= seq_id + 1 /\ seq_id + 1 # seq_id
      BY <1>1, SMTT(30)
    <3> QED BY <1>1, <2>2, <2>3, <3>1 DEF After
  <2>8. u[i].m <= seq_id + 1
    BY <1>1, <2>3, SMTT(30)
  <2>4. CASE k = 1
    <3>1. i - 1 = L
      BY <1>1, <2>4, SMTT(30)
    <3>2. InTurn(u, i)
      BY <1>2, <1>7, <2>3, <2>4, <3>1, SMTT(30) DEF InTurn
    <3>3. u[i].at = EndOf(u, i - 1)
      BY <1>7, <2>2, <2>3, <2>4, <3>1
    <3> QED BY <2>6, <2>7, <2>8, <3>2, <3>3 DEF Follows
  <2>5. CASE k # 1
    <3>1. /\ k > 1 /\ i - 1 \in L + 1 .. L + n /\ i - 1 # 0 /\ i > 1
          /\ i - 1 - L = k - 1 /\ k - 1 \in 1..n
      BY <1>1, <1>2, <2>1, <2>5, SMTT(30)
    <3>2. u[i - 1] = v[k - 1]
      BY <1>6, <3>1
    <3>3. /\ u[i - 1].m = seq_id + 1 /\ u[i - 1].k = k - 1 /\ u[i - 1].n = n
          /\ u[i - 1].end = FragmentAt(k - 1) + FragmentSize(k - 1, n)
      BY <1>3, <3>1, <3>2
    <3>4. InTurn(u, i)
      <4>1. k <= n /\ seq_id + 1 >= 1
        BY <1>1, <1>2, <2>1, SMTT(30)
      <4> HIDE DEF k
      <4> QED BY <2>3, <3>1, <3>3, <4>1 DEF InTurn
    <3>5. u[i].at = EndOf(u, i - 1)
      BY <2>2, <2>3, <3>1, <3>3 DEF EndOf
    <3> QED BY <2>6, <2>7, <2>8, <3>4, <3>5 DEF Follows
  <2> QED BY <2>4, <2>5
<1>9. ASSUME NEW i \in L + 1 .. Len(u), NEW j \in L + 1 .. Len(u), i < j
      PROVE  Before(u[i], u[j])
  <2>1. i - L \in 1..n /\ j - L \in 1..n /\ i - L < j - L /\ u[i] = v[i - L] /\ u[j] = v[j - L]
    BY <1>1, <1>2, <1>6, <1>9, SMTT(30)
  <2>2. FragmentAt(i - L) + FragmentSize(i - L, n) <= FragmentAt(j - L)
    BY <1>1, <1>2, <2>1, FragmentsLie
  <2>3. /\ u[i].end <= u[j].at /\ u[i].m = seq_id + 1 /\ u[j].m = seq_id + 1
        /\ u[i].k = i - L /\ u[j].k = j - L
    BY <1>3, <2>1, <2>2
  <2>4. seq_id + 1 <= seq_id + 1 /\ ~(seq_id + 1 < seq_id + 1)
    BY <1>1, SMTT(30)
  <2> QED BY <2>1, <2>3, <2>4 DEF Before
<1>10. Complete(u, Len(u)) /\ Done(u, Len(u)) = seq_id + 1
  <2>1. Len(u) # 0 /\ Len(u) - L = n /\ u[Len(u)] = v[n] /\ n \in 1..n
    BY <1>1, <1>2, <1>6, SMTT(30)
  <2>2. u[Len(u)].k = n /\ u[Len(u)].n = n /\ u[Len(u)].m = seq_id + 1
    BY <1>3, <2>1
  <2> QED BY <2>1, <2>2 DEF Complete, Done
<1>11. /\ Len(u) >= L /\ WireOK(wire, seq_id) /\ junk \in Nat
       /\ seq_id + 1 \in Nat /\ seq_id <= seq_id + 1
  BY <1>1, <1>2, <1>6, WireFacts, SMTT(30)
<1>12. WireOK(u, seq_id + 1)
  BY <1>1, <1>6, <1>8, <1>9, <1>10, <1>11, Extend DEF L
<1>13. /\ \A i \in 1..Len(wire) : wire'[i] = wire[i]
       /\ Len(wire') >= Len(wire) /\ seq_id' \in Nat /\ WireOK(wire', seq_id')
  BY <1>1, <1>5, <1>6, <1>11, <1>12 DEF L
<1>14. junk' = junk
  BY DEF WriteFragments
<1> QED BY <1>13, <1>14, WiredNext DEF Longer

\* The signature looked for is that of the first packet not handled: the
\* packets before it begin before the buffer does.
LEMMA NextFound ==
    ASSUME Wired, ShortJunk, NEW p \in 0..Len(wire),
           lo = EndOf(wire, p) - junk
    PROVE  Cardinality({i \in 1..Len(wire) : wire[i].at < lo}) = p
<1>1. /\ wire \in Seq(Packet) /\ Len(wire) \in Nat /\ WireOK(wire, seq_id)
      /\ p \in Nat /\ junk \in Nat
  BY WireFacts, SMTT(30)
<1>2. /\ EndOf(wire, p) \in Nat /\ junk <= EndOf(wire, p)
      /\ \A i \in 1..Len(wire) : i > p => EndOf(wire, p) <= wire[i].at
      /\ \A i \in 1..Len(wire) : i <= p => wire[i].end <= EndOf(wire, p)
  BY <1>1, EndBefore
<1>3. ASSUME NEW i \in 1..Len(wire)
      PROVE  wire[i].at < lo <=> i <= p
  <2>1. wire[i] \in Packet /\ Follows(wire, i)
    BY <1>1, SMTT(30) DEF WireOK
  <2>2. wire[i].at \in Nat /\ wire[i].end \in Nat /\ wire[i].end >= wire[i].at + ControlSize
    BY <2>1 DEF Packet, Follows, Sized
  <2>3. ControlSize \in Nat /\ junk < ControlSize
    BY RxAssumption DEF ShortJunk
  <2>4. CASE i <= p
    BY <1>1, <1>2, <2>2, <2>3, <2>4, SMTT(30)
  <2>5. CASE i > p
    BY <1>1, <1>2, <2>2, <2>3, <2>5, SMTT(30)
  <2> QED BY <1>1, <2>4, <2>5, SMTT(30)
<1>4. {i \in 1..Len(wire) : wire[i].at < lo} = 1..p
  BY <1>1, <1>3, SMTT(30)
<1>5. Cardinality(1..p) = p
  BY <1>1, FS_Interval, SMTT(30)
<1> QED BY <1>4, <1>5

-----------------------------------------------------------------------------
\* A step of the reader leaves the wire alone.
LEMMA Stepped ==
    ASSUME Wired, UNCHANGED <<junk, wire, seq_id>> PROVE Wired'
<1>1. seq_id' \in Nat /\ WireOK(wire', seq_id') /\ junk' = junk
  BY DEF Wired
<1> QED BY <1>1, WiredNext

\* The read callback is called with more bytes.
LEMMA RecvOK ==
    ASSUME Wired, Placed, ShortJunk, NEW h \in 1..WireEnd, Recv(h) PROVE Placed'
<1>1. PICK p \in 0..Len(wire) : ReaderOK(wire, p) /\ CursorOK(wire, p)
  BY DEF Placed
<1>2. pos = 0 /\ lo = EndOf(wire, p) - junk
  BY <1>1 DEF Recv, CursorOK
<1>3. pos' = 1 + p
  BY <1>2, NextFound DEF Recv
<1>4. p \in Nat /\ h \in Nat
  BY WireFacts, SMTT(30)
<1>5. CursorOK(wire, p)'
  <2>1. lo \in Nat /\ hi \in Nat /\ lo <= hi
    BY <1>1 DEF CursorOK
  <2>2. /\ junk' = junk /\ wire' = wire /\ lo' = lo /\ hi' = h /\ hi < h /\ used' = 0
    BY DEF Recv
  <2>3. EndOf(wire, p)' = EndOf(wire, p)
    BY <2>2 DEF EndOf
  <2> QED BY <1>2, <1>3, <1>4, <2>1, <2>2, <2>3, SMTT(30) DEF CursorOK
<1>6. ReaderOK(wire, p)'
  BY <1>1 DEF Recv, rvars, ReaderOK, FragOf, Done, Complete
<1> QED BY <1>5, <1>6 DEF Recv, Placed

\* dap_events_socket_shrink_buf_in.
LEMMA ShrinkOK == ASSUME Placed, Shrink PROVE Placed'
<1>1. PICK p \in 0..Len(wire) : ReaderOK(wire, p) /\ CursorOK(wire, p)
  BY DEF Placed
<1>2. CursorOK(wire, p)'
  <2>1. /\ lo \in Nat /\ hi \in Nat /\ used \in Nat /\ lo + used <= hi
        /\ lo + used = EndOf(wire, p) - junk
    BY <1>1 DEF CursorOK, Shrink
  <2>2. /\ pos' = 0 /\ hi' = hi /\ used' = used /\ junk' = junk /\ wire' = wire
        /\ lo' = IF lo + used < hi THEN lo + used ELSE hi
    BY DEF Shrink
  <2>3. lo' = lo + used
    BY <2>1, <2>2, SMTT(30)
  <2>4. EndOf(wire, p)' = EndOf(wire, p)
    BY <2>2 DEF EndOf
  <2> QED BY <2>1, <2>2, <2>3, <2>4, SMTT(30) DEF CursorOK
<1>3. ReaderOK(wire, p)'
  BY <1>1 DEF Shrink, rvars, ReaderOK, FragOf, Done, Complete
<1> QED BY <1>2, <1>3 DEF Shrink, Placed

\* The cursor moves over the packet that was handled.
LEMMA CursorMoves ==
    ASSUME Wired, NEW p \in 0..Len(wire), CursorOK(wire, p),
           Whole, Handled
    PROVE  /\ pos = p + 1 /\ p + 1 \in 1..Len(wire) /\ p + 1 - 1 = p /\ p + 1 # 0
           /\ wire[p + 1] \in Packet /\ InTurn(wire, p + 1)
           /\ CursorOK(wire, p + 1)'
<1>1. /\ wire \in Seq(Packet) /\ Len(wire) \in Nat /\ WireOK(wire, seq_id)
      /\ p \in Nat /\ junk \in Nat
  BY WireFacts, SMTT(30)
<1>2. pos \in 1..Len(wire) /\ wire[pos].end <= hi
  BY DEF Whole
<1>3. /\ lo \in Nat /\ hi \in Nat /\ pos \in Nat /\ used \in Nat /\ lo <= hi
      /\ pos = p + 1 /\ lo + used = EndOf(wire, p) - junk
  BY <1>2, SMTT(30) DEF CursorOK
<1>4. wire[pos] \in Packet /\ Follows(wire, pos)
  BY <1>1, <1>2, SMTT(30) DEF WireOK
<1>5. p + 1 - 1 = p /\ p + 1 # 0
  BY <1>1, SMTT(30)
<1>6. /\ wire[pos].at = EndOf(wire, p) /\ wire[pos].end >= wire[pos].at + ControlSize
      /\ InTurn(wire, pos)
  BY <1>3, <1>4, <1>5, SMTT(30) DEF Follows, Sized
<1>7. wire[pos].at \in Nat /\ wire[pos].end \in Nat /\ ControlSize \in Nat
  BY <1>4, RxAssumption DEF Packet
<1>8. /\ used' = used + (wire[pos].end - wire[pos].at)
      /\ pos' = pos + 1 /\ lo' = lo /\ hi' = hi /\ wire' = wire /\ junk' = junk
  BY DEF Handled
<1>9. EndOf(wire, p + 1)' = wire[pos].end
  BY <1>1, <1>3, <1>8, SMTT(30) DEF EndOf
<1>10. /\ used' \in Nat /\ lo + used' = wire[pos].end - junk
       /\ lo + used' <= hi
  <2> DEFINE a == wire[pos].at
             e == wire[pos].end
  <2>1. a \in Nat /\ e \in Nat /\ e >= a + ControlSize /\ lo + used = a - junk /\ e <= hi
    BY <1>2, <1>3, <1>6, <1>7
  <2>2. used' = used + (e - a)
    BY <1>8
  <2> HIDE DEF a, e
  <2>3. used' \in Nat
    BY <1>3, <1>7, <2>1, <2>2, SMTT(30)
  <2>4. lo + used' = e - junk
    BY <1>1, <1>3, <2>1, <2>2, SMTT(30)
  <2>5. lo + used' <= hi
    BY <1>1, <1>3, <2>1, <2>4, SMTT(30)
  <2> QED BY <2>3, <2>4, <2>5 DEF e
<1>11. CursorOK(wire, p + 1)'
  BY <1>1, <1>3, <1>8, <1>9, <1>10, SMTT(30) DEF CursorOK
<1> QED BY <1>2, <1>3, <1>4, <1>5, <1>6, <1>11

\* The next message in turn passes s_detect_loose_packet.
LEMMA DeliverOK ==
    ASSUME NEW p, ReaderOK(wire, p), NEW m, m = Done(wire, p) + 1,
           Deliver(SeqIdOf(m), m, {m})
    PROVE  /\ delivered' \in Seq(Messages)
           /\ Len(delivered') = m
           /\ \A i \in 1..Len(delivered') : delivered'[i].m = i /\ delivered'[i].from = {i}
           /\ last' = SeqIdOf(m)
<1> DEFINE e == [m |-> m, from |-> {m}]
           d == Done(wire, p)
<1>1. /\ delivered \in Seq(Messages) /\ Len(delivered) = d /\ d \in Nat
      /\ \A i \in 1..Len(delivered) : delivered[i].m = i /\ delivered[i].from = {i}
      /\ last = SeqIdOf(d)
  BY SMTT(30) DEF ReaderOK
<1> HIDE DEF d
<1>2. m = d + 1 /\ m \in Nat /\ SeqIdOf(m) = d
  BY <1>1, SMTT(30) DEF SeqIdOf, d
<1>3. ~Loose(SeqIdOf(m))
  BY <1>1, <1>2, SMTT(30) DEF Loose, SeqIdOf
<1>4. delivered' = Append(delivered, e) /\ last' = SeqIdOf(m)
  BY <1>3 DEF Deliver
<1>5. e \in Messages /\ e.m = m /\ e.from = {m}
  BY <1>2 DEF Messages
<1> HIDE DEF e
<1>6. /\ delivered' \in Seq(Messages) /\ Len(delivered') = d + 1
      /\ \A i \in 1..d : delivered'[i] = delivered[i]
      /\ delivered'[d + 1] = e
  BY <1>1, <1>4, <1>5, SMTT(30)
<1>7. ASSUME NEW i \in 1..Len(delivered')
      PROVE  delivered'[i].m = i /\ delivered'[i].from = {i}
  <2>1. CASE i <= d
    BY <1>1, <1>6, <2>1, SMTT(30)
  <2>2. CASE i > d
    <3>1. i = d + 1
      BY <1>1, <1>6, <2>2, SMTT(30)
    <3> QED BY <1>2, <1>5, <1>6, <3>1
  <2> QED BY <1>1, <1>6, <2>1, <2>2, SMTT(30)
<1> QED BY <1>2, <1>4, <1>6, <1>7

\* What the reader is to become, from what its step makes of its parts.
LEMMA ReaderAt ==
    ASSUME NEW q \in 0..Len(wire), wire' = wire,
           delivered' \in Seq(Messages), Len(delivered') = Done(wire, q),
           \A i \in 1..Len(delivered') : delivered'[i].m = i /\ delivered'[i].from = {i},
           last' = SeqIdOf(Done(wire, q)), frag' = FragOf(wire, q)
    PROVE  ReaderOK(wire, q)'
<1>1. Done(wire, q)' = Done(wire, q) /\ FragOf(wire, q)' = FragOf(wire, q)
  BY DEF Done, FragOf, Complete
<1>2. (SeqIdOf(Done(wire, q)))' = SeqIdOf(Done(wire, q))
  BY <1>1 DEF SeqIdOf
<1> QED BY <1>1, <1>2 DEF ReaderOK

\* STREAM_PKT_TYPE_DATA_PACKET: nothing is left in buf_fragments then.
LEMMA ProcDataOK == ASSUME Wired, Placed, ProcData PROVE Placed'
<1>1. PICK p \in 0..Len(wire) : ReaderOK(wire, p) /\ CursorOK(wire, p)
  BY DEF Placed
<1> DEFINE q == p + 1
           e == wire[q]
<1>2. /\ pos = q /\ q \in 1..Len(wire) /\ q - 1 = p /\ q # 0
      /\ e \in Packet /\ InTurn(wire, q) /\ CursorOK(wire, q)'
  <2>1. Whole /\ Handled
    BY DEF ProcData
  <2> QED BY <1>1, <2>1, CursorMoves, SMTT(30)
<1> HIDE DEF q
<1>3. e.type = "DATA"
  BY <1>2 DEF ProcData
<1>4. e.k = 1 /\ e.n = 1 /\ Complete(wire, p) /\ e.m = Done(wire, p) + 1
  BY <1>2, <1>3 DEF InTurn
<1>5. frag = NoFrag /\ frag.filled = 0
  BY <1>1, <1>4 DEF ReaderOK, FragOf, NoFrag
<1>6. Deliver(SeqIdOf(e.m), e.m, {e.m})
  BY <1>2, <1>5 DEF ProcData
<1>7. /\ delivered' \in Seq(Messages) /\ Len(delivered') = e.m
      /\ \A i \in 1..Len(delivered') : delivered'[i].m = i /\ delivered'[i].from = {i}
      /\ last' = SeqIdOf(e.m)
  BY <1>1, <1>4, <1>6, DeliverOK
<1>8. Done(wire, q) = e.m /\ FragOf(wire, q) = NoFrag
  BY <1>2, <1>4 DEF Done, FragOf, Complete
<1>9. wire' = wire /\ frag' = NoFrag /\ q \in 0..Len(wire)
  <2>1. wire' = wire /\ frag' = frag
    BY DEF ProcData, Handled
  <2> QED BY <1>2, <1>5, <2>1, SMTT(30)
<1>10. ReaderOK(wire, q)'
  BY <1>7, <1>8, <1>9, ReaderAt
<1> QED BY <1>2, <1>9, <1>10 DEF Placed

\* buf_fragments holds what precedes a fragment, and with it what it ends.
LEMMA FilledOK ==
    ASSUME NEW p \in 0..Len(wire), NEW q \in 1..Len(wire), q - 1 = p,
           frag = FragOf(wire, p),
           wire[q] \in Packet, wire[q].type = "FRAGMENT", InTurn(wire, q)
    PROVE  /\ frag.filled = wire[q].k - 1
           /\ Filled(wire[q]) =
                [hdr |-> wire[q].m, size |-> wire[q].n, from |-> {wire[q].m},
                 filled |-> wire[q].k, total |-> wire[q].n]
           /\ wire[q].m = Done(wire, p) + 1
<1> DEFINE e == wire[q]
<1>1. e.k \in Nat /\ e.n \in Nat /\ e.m \in Nat
  BY DEF Packet
<1>2. frag = FragOf(wire, p)
  OBVIOUS
<1>3. CASE e.k = 1
  <2>1. Complete(wire, p) /\ e.m = Done(wire, p) + 1 /\ e.n >= 1
    BY <1>3, SMTT(30) DEF InTurn
  <2>2. frag.filled = 0 /\ frag.total = 0 /\ frag.from = {}
    BY <1>2, <2>1, SMTT(30) DEF FragOf, NoFrag
  <2> HIDE DEF e
  <2>3. frag.total < e.n /\ ~(frag.filled # 0)
    BY <1>1, <2>1, <2>2, SMTT(30)
  <2>4. Filled(e) = [hdr |-> e.m, size |-> e.n, from |-> {e.m}, filled |-> e.k, total |-> e.n]
    BY <1>3, <2>2, <2>3 DEF Filled
  <2> QED BY <1>3, <2>1, <2>2, <2>4, SMTT(30) DEF e
<1>4. CASE e.k # 1
  <2>1. /\ e.k > 1 /\ e.k <= e.n /\ q > 1
        /\ wire[p].m = e.m /\ wire[p].n = e.n /\ wire[p].k = e.k - 1
    BY <1>4 DEF InTurn
  <2>2. p # 0 /\ wire[p].k # wire[p].n
    <3> DEFINE k == e.k
               n == e.n
    <3>1. k \in Nat /\ n \in Nat /\ k <= n /\ wire[p].k = k - 1 /\ wire[p].n = n
      BY <1>1, <2>1
    <3> HIDE DEF k, n
    <3>2. k - 1 # n
      BY <3>1, SMTT(30)
    <3>3. p # 0
      BY <2>1, SMTT(30)
    <3> QED BY <3>1, <3>2, <3>3
  <2>3. /\ frag.hdr = e.m /\ frag.size = e.n /\ frag.from = {e.m}
        /\ frag.filled = e.k - 1 /\ frag.total = e.n
    BY <1>2, <2>1, <2>2, SMTT(30) DEF FragOf, Complete
  <2>4. e.m = Done(wire, p) + 1
    <3>1. Done(wire, p) = e.m - 1
      BY <2>1, <2>2 DEF Done
    <3> DEFINE d == Done(wire, p)
               m == e.m
    <3>2. d = m - 1 /\ m \in Nat
      BY <1>1, <3>1
    <3> HIDE DEF d, m
    <3>3. m = d + 1
      BY <3>2, SMTT(30)
    <3> QED BY <3>3 DEF d, m
  <2> HIDE DEF e
  <2>5. ~(frag.total < e.n) /\ e.k # 1
    <3>1. ~(e.n < e.n)
      BY <1>1, SMTT(30)
    <3> QED BY <1>4, <2>3, <3>1
  <2>6. {e.m} \cup frag.from = {e.m}
    BY <2>3
  <2>7. Filled(e) = [hdr |-> e.m, size |-> e.n, from |-> {e.m}, filled |-> e.k, total |-> e.n]
    BY <2>3, <2>5, <2>6 DEF Filled
  <2> QED BY <2>3, <2>4, <2>7 DEF e
<1> QED BY <1>3, <1>4

\* STREAM_PKT_TYPE_FRAGMENT_PACKET, before the last one of a message.
LEMMA ProcFragmentOK == ASSUME Wired, Placed, ProcFragment PROVE Placed'
<1>1. PICK p \in 0..Len(wire) : ReaderOK(wire, p) /\ CursorOK(wire, p)
  BY DEF Placed
<1> DEFINE q == p + 1
           e == wire[q]
<1>2. /\ pos = q /\ q \in 1..Len(wire) /\ q - 1 = p /\ q # 0
      /\ e \in Packet /\ InTurn(wire, q) /\ CursorOK(wire, q)'
  <2>1. Whole /\ Handled
    BY DEF ProcFragment
  <2> QED BY <1>1, <2>1, CursorMoves, SMTT(30)
<1> HIDE DEF q
<1>3. e.type = "FRAGMENT"
  BY <1>2 DEF ProcFragment
<1>4. /\ frag.filled = e.k - 1 /\ e.m = Done(wire, p) + 1
      /\ Filled(e) = [hdr |-> e.m, size |-> e.n, from |-> {e.m},
                      filled |-> e.k, total |-> e.n]
  <2>1. frag = FragOf(wire, p)
    BY <1>1 DEF ReaderOK
  <2> QED BY <1>2, <1>3, <2>1, FilledOK
<1>5. e.k < e.n /\ frag' = Filled(e)
  BY <1>2, <1>4 DEF ProcFragment
<1>6. e.k \in Nat /\ e.n \in Nat /\ e.m \in Nat
  BY <1>2 DEF Packet
<1>7. Done(wire, p) \in Nat
  BY <1>1, SMTT(30) DEF ReaderOK
<1>8. e.k # e.n /\ e.m - 1 = Done(wire, p)
  BY <1>4, <1>5, <1>6, <1>7, SMTT(30)
<1>9. Done(wire, q) = Done(wire, p) /\ FragOf(wire, q) = Filled(e)
  BY <1>2, <1>4, <1>8 DEF Done, FragOf, Complete
<1>10. /\ wire' = wire /\ frag' = FragOf(wire, q) /\ q \in 0..Len(wire)
       /\ delivered' = delivered /\ last' = last
  <2>1. wire' = wire /\ delivered' = delivered /\ last' = last
    BY DEF ProcFragment, Handled
  <2>2. frag' = FragOf(wire, q)
    BY <1>5, <1>9
  <2> QED BY <1>2, <2>1, <2>2, SMTT(30)
<1>11. /\ delivered' \in Seq(Messages) /\ Len(delivered') = Done(wire, q)
       /\ \A i \in 1..Len(delivered') : delivered'[i].m = i /\ delivered'[i].from = {i}
       /\ last' = SeqIdOf(Done(wire, q))
  BY <1>1, <1>9, <1>10 DEF ReaderOK
<1>12. ReaderOK(wire, q)'
  BY <1>10, <1>11, ReaderAt
<1> QED BY <1>2, <1>10, <1>12 DEF Placed

\* The last fragment: the message is whole and next in turn.
LEMMA ProcLastFragmentOK == ASSUME Wired, Placed, ProcLastFragment PROVE Placed'
<1>1. PICK p \in 0..Len(wire) : ReaderOK(wire, p) /\ CursorOK(wire, p)
  BY DEF Placed
<1> DEFINE q == p + 1
           e == wire[q]
           f == Filled(e)
<1>2. /\ pos = q /\ q \in 1..Len(wire) /\ q - 1 = p /\ q # 0
      /\ e \in Packet /\ InTurn(wire, q) /\ CursorOK(wire, q)'
  <2>1. Whole /\ Handled
    BY DEF ProcLastFragment
  <2> QED BY <1>1, <2>1, CursorMoves, SMTT(30)
<1> HIDE DEF q
<1>3. e.type = "FRAGMENT" /\ e.k = e.n
  BY <1>2 DEF ProcLastFragment
<1>4. /\ e.m = Done(wire, p) + 1
      /\ f = [hdr |-> e.m, size |-> e.n, from |-> {e.m}, filled |-> e.k, total |-> e.n]
  <2>1. frag = FragOf(wire, p)
    BY <1>1 DEF ReaderOK
  <2> QED BY <1>2, <1>3, <2>1, FilledOK
<1>5. /\ IF f.total = f.size THEN Deliver(SeqIdOf(f.hdr), f.hdr, f.from)
         ELSE UNCHANGED <<last, delivered>>
      /\ frag' = NoFrag
  BY <1>2 DEF ProcLastFragment
<1> HIDE DEF f
<1>6. f.total = e.n /\ f.size = e.n /\ f.hdr = e.m /\ f.from = {e.m}
  BY <1>4
<1>7. Deliver(SeqIdOf(e.m), e.m, {e.m})
  BY <1>5, <1>6
<1>8. /\ delivered' \in Seq(Messages) /\ Len(delivered') = e.m
      /\ \A i \in 1..Len(delivered') : delivered'[i].m = i /\ delivered'[i].from = {i}
      /\ last' = SeqIdOf(e.m)
  BY <1>1, <1>4, <1>7, DeliverOK
<1>9. Done(wire, q) = e.m /\ FragOf(wire, q) = NoFrag
  BY <1>2, <1>3 DEF Done, FragOf, Complete
<1>10. wire' = wire /\ q \in 0..Len(wire)
  BY <1>2, SMTT(30) DEF ProcLastFragment, Handled
<1>11. ReaderOK(wire, q)'
  BY <1>5, <1>8, <1>9, <1>10, ReaderAt
<1> QED BY <1>2, <1>10, <1>11 DEF Placed

\* A control packet comes between messages and delivers none.
LEMMA ProcControlOK == ASSUME Wired, Placed, ProcControl PROVE Placed'
<1>1. PICK p \in 0..Len(wire) : ReaderOK(wire, p) /\ CursorOK(wire, p)
  BY DEF Placed
<1> DEFINE q == p + 1
           e == wire[q]
<1>2. /\ pos = q /\ q \in 1..Len(wire) /\ q - 1 = p /\ q # 0
      /\ e \in Packet /\ InTurn(wire, q) /\ CursorOK(wire, q)'
  <2>1. Whole /\ Handled
    BY DEF ProcControl
  <2> QED BY <1>1, <2>1, CursorMoves, SMTT(30)
<1> HIDE DEF q
<1>3. e.n = 0
  BY <1>2 DEF ProcControl
<1>4. e.k \in Nat
  BY <1>2 DEF Packet
<1>5. e.k = 0 /\ Complete(wire, p) /\ e.m = Done(wire, p)
  <2>1. ~(e.n >= 1) /\ ~(e.k > 1 /\ e.k <= e.n)
    BY <1>3, <1>4, SMTT(30)
  <2> QED BY <1>2, <2>1 DEF InTurn
<1>6. frag = NoFrag
  BY <1>1, <1>5 DEF ReaderOK, FragOf
<1>7. Done(wire, q) = Done(wire, p) /\ FragOf(wire, q) = NoFrag
  BY <1>2, <1>3, <1>5 DEF Done, FragOf, Complete
<1>8. /\ wire' = wire /\ q \in 0..Len(wire)
      /\ delivered' = delivered /\ last' = last /\ frag' = frag
  BY <1>2, SMTT(30) DEF ProcControl, Handled
<1>9. /\ delivered' \in Seq(Messages) /\ Len(delivered') = Done(wire, q)
      /\ \A i \in 1..Len(delivered') : delivered'[i].m = i /\ delivered'[i].from = {i}
      /\ last' = SeqIdOf(Done(wire, q))
  BY <1>1, <1>7, <1>8 DEF ReaderOK
<1>10. ReaderOK(wire, q)'
  BY <1>6, <1>7, <1>8, <1>9, ReaderAt
<1> QED BY <1>2, <1>8, <1>10 DEF Placed

\* A step that touches neither the wire nor the reader's place.
LEMMA Untouched ==
    ASSUME Placed,
           UNCHANGED <<junk, wire, lo, hi, pos, used, last, frag, delivered>>
    PROVE  Placed'
<1>1. PICK p \in 0..Len(wire) : ReaderOK(wire, p) /\ CursorOK(wire, p)
  BY DEF Placed
<1>2. ReaderOK(wire, p)'
  BY <1>1 DEF ReaderOK, FragOf, Done, Complete
<1>3. CursorOK(wire, p)'
  BY <1>1 DEF CursorOK, EndOf
<1> QED BY <1>2, <1>3 DEF Placed

-----------------------------------------------------------------------------
(***************************************************************************)
(* Behind any rest                                                         *)
(***************************************************************************)
\* The packets, their types and their order.
LEMMA PacketFacts ==
    ASSUME Wired
    PROVE  /\ \A i \in 1..Len(wire) :
                /\ wire[i].at \in Nat /\ wire[i].end \in Nat /\ wire[i].m \in Nat
                /\ wire[i].k \in Nat /\ wire[i].n \in Nat
                /\ wire[i].at < wire[i].end /\ Sized(wire[i]) /\ InTurn(wire, i)
                /\ wire[i].at = EndOf(wire, i - 1)
           /\ \A i, j \in 1..Len(wire) : i < j => Before(wire[i], wire[j])
<1>1. wire \in Seq(Packet) /\ WireOK(wire, seq_id)
  BY WireFacts
<1>2. ASSUME NEW i \in 1..Len(wire)
      PROVE  /\ wire[i].at \in Nat /\ wire[i].end \in Nat /\ wire[i].m \in Nat
             /\ wire[i].k \in Nat /\ wire[i].n \in Nat
             /\ wire[i].at < wire[i].end /\ Sized(wire[i]) /\ InTurn(wire, i)
             /\ wire[i].at = EndOf(wire, i - 1)
  <2>1. wire[i] \in Packet /\ Follows(wire, i)
    BY <1>1, SMTT(30) DEF WireOK
  <2>2. /\ wire[i].at \in Nat /\ wire[i].end \in Nat /\ wire[i].m \in Nat
        /\ wire[i].k \in Nat /\ wire[i].n \in Nat
    BY <2>1 DEF Packet
  <2> QED BY <2>1, <2>2, RxAssumption, SMTT(30) DEF Follows, Sized
<1> QED BY <1>1, <1>2 DEF WireOK

\* A non-empty set of naturals has a least element, ...
LEMMA Least ==
    ASSUME NEW T, T \subseteq Nat, T # {} PROVE \E x \in T : \A y \in T : x <= y
<1> DEFINE R == OpToRel(<, Nat)
<1>1. PICK x \in T : \A y \in T : ~(<<y, x>> \in R)
  BY NatLessThanWellFounded, WFMin
<1>2. ASSUME NEW y \in T PROVE x <= y
  <2>1. ~(<<y, x>> \in R)
    BY <1>1
  <2>2. ~(y < x)
    BY <2>1 DEF OpToRel
  <2> QED BY <2>2, SMTT(30)
<1> QED BY <1>2

\* ... and one that is bounded a largest.
LEMMA Largest ==
    ASSUME NEW N \in Nat, NEW S, S \subseteq 0..N, S # {}
    PROVE  \E x \in S : \A y \in S : y <= x
<1> DEFINE T == {N - x : x \in S}
<1>1. T \subseteq Nat /\ T # {}
  <2>1. \A x \in S : N - x \in Nat
    BY SMTT(30)
  <2> QED BY <2>1
<1>2. PICK z \in T : \A y \in T : z <= y
  BY <1>1, Least
<1>3. PICK x \in S : z = N - x
  OBVIOUS
<1>4. ASSUME NEW y \in S PROVE y <= x
  <2>1. N - x <= N - y
    BY <1>2, <1>3
  <2>2. N \in Int /\ x \in Int /\ y \in Int
    BY SMTT(30)
  <2> HIDE DEF T
  <2> QED BY <2>1, <2>2, SMTT(30)
<1> QED BY <1>4

\* The search finds the first packet that begins in the buffer: less than a
\* full fragment is passed over.
LEMMA FoundNear ==
    ASSUME Wired, LagOK(wire), NEW x, x = 1 + Cardinality({i \in 1..Len(wire) : wire[i].at < lo})
    PROVE  /\ x \in 1 .. Len(wire) + 1
           /\ lo <= EndOf(wire, x - 1)
           /\ EndOf(wire, x - 1) < lo + FullSize
           /\ \A i \in 1..Len(wire) : wire[i].at < lo <=> i < x
<1> DEFINE S == {i \in 1..Len(wire) : wire[i].at < lo}
<1>1. Len(wire) \in Nat /\ junk \in Nat /\ junk < FullSize /\ WireOK(wire, seq_id)
  BY WireFacts
<1>2. lo \in Nat /\ hi \in Nat /\ lo <= hi /\ hi <= EndOf(wire, Len(wire))
  BY DEF LagOK
<1>3. PICK c \in 0..Len(wire) : S = 1..c
  <2>1. CASE S = {}
    <3>1. S = 1..0 /\ 0 \in 0..Len(wire)
      BY <1>1, <2>1, SMTT(30)
    <3> QED BY <3>1
  <2>2. CASE S # {}
    <3>1. S \subseteq 0..Len(wire) /\ S \subseteq Nat
      BY <1>1, SMTT(30)
    <3> HIDE DEF S
    <3>2. PICK c \in S : \A d \in S : d <= c
      BY <1>1, <2>2, <3>1, Largest
    <3>3. c \in 1..Len(wire) /\ wire[c].at < lo
      BY <3>2 DEF S
    <3>4. ASSUME NEW i \in 1..c PROVE i \in S
      <4>1. i \in 1..Len(wire) /\ wire[i].at \in Nat /\ wire[c].at \in Nat
        BY <1>1, <3>3, PacketFacts, SMTT(30)
      <4>2. CASE i = c
        BY <3>2, <4>2
      <4>3. CASE i # c
        <5>1. i < c
          BY <3>3, <4>3, SMTT(30)
        <5>2. wire[i].end <= wire[c].at /\ wire[i].at < wire[i].end /\ wire[i].end \in Nat
          BY <3>3, <4>1, <5>1, PacketFacts DEF Before
        <5>3. wire[i].at < lo
          BY <1>2, <3>3, <4>1, <5>2, SMTT(30)
        <5> QED BY <4>1, <5>3 DEF S
      <4> QED BY <4>2, <4>3
    <3>5. ASSUME NEW i \in S PROVE i \in 1..c
      BY <3>1, <3>2, <3>5, SMTT(30) DEF S
    <3>6. S = 1..c
      BY <3>4, <3>5
    <3>7. c \in 0..Len(wire)
      BY <1>1, <3>3, SMTT(30)
    <3> QED BY <3>6, <3>7
  <2> QED BY <2>1, <2>2
<1>4. Cardinality(S) = c
  <2>1. c \in Nat /\ 1 \in Int /\ c \in Int
    BY <1>1, <1>3, SMTT(30)
  <2>2. Cardinality(1..c) = c
    BY <2>1, FS_Interval, SMTT(30)
  <2> QED BY <1>3, <2>2
<1>5. x = 1 + c /\ x - 1 = c /\ x \in 1 .. Len(wire) + 1
  BY <1>1, <1>4, SMTT(30)
<1>6. ASSUME NEW i \in 1..Len(wire) PROVE wire[i].at < lo <=> i < x
  <2>1. wire[i].at < lo <=> i \in 1..c
    BY <1>3
  <2> QED BY <1>1, <1>5, <2>1, SMTT(30)
<1>7. EndOf(wire, c) \in Nat
  BY <1>1, EndBefore
<1>8. lo <= EndOf(wire, c)
  <2>1. CASE c = Len(wire)
    BY <1>2, <1>7, <2>1, SMTT(30)
  <2>2. CASE c # Len(wire)
    <3>1. x \in 1..Len(wire) /\ ~(x < x)
      BY <1>1, <1>5, <2>2, SMTT(30)
    <3>2. ~(wire[x].at < lo) /\ wire[x].at = EndOf(wire, c)
      BY <1>5, <1>6, <3>1, PacketFacts
    <3> QED BY <1>2, <1>7, <3>2, SMTT(30)
  <2> QED BY <2>1, <2>2
<1>9. EndOf(wire, c) < lo + FullSize
  <2>1. FullSize \in Nat
    BY RxAssumption
  <2>2. CASE c = 0
    BY <1>1, <1>2, <2>1, <2>2, SMTT(30) DEF EndOf
  <2>3. CASE c # 0
    <3>1. c \in 1..Len(wire) /\ c \in S
      BY <1>1, <1>3, <2>3, SMTT(30)
    <3>2. wire[c].at < lo /\ Sized(wire[c]) /\ wire[c].at \in Nat /\ wire[c].end \in Nat
      BY <3>1, PacketFacts
    <3>3. EndOf(wire, c) = wire[c].end /\ wire[c].end <= wire[c].at + FullSize
      BY <2>3, <3>2 DEF EndOf, Sized
    <3> QED BY <1>2, <2>1, <3>2, <3>3, SMTT(30)
  <2> QED BY <2>2, <2>3
<1> QED BY <1>5, <1>6, <1>8, <1>9

\* The read callback is called with more bytes.
LEMMA RecvLag ==
    ASSUME Wired, LagOK(wire), FragOK(wire), NEW h \in 1..WireEnd, Recv(h)
    PROVE  LagOK(wire)' /\ FragOK(wire)'
<1>1. /\ pos = 0 /\ hi < h /\ hi' = h /\ used' = 0 /\ lo' = lo /\ wire' = wire /\ junk' = junk
      /\ frag' = frag
      /\ pos' = 1 + Cardinality({i \in 1..Len(wire) : wire[i].at < lo})
  BY DEF Recv, rvars
<1> DEFINE x == pos'
<1>2. /\ x \in 1 .. Len(wire) + 1
      /\ lo <= EndOf(wire, x - 1) /\ EndOf(wire, x - 1) < lo + FullSize
      /\ \A i \in 1..Len(wire) : wire[i].at < lo <=> i < x
  BY <1>1, FoundNear
<1> HIDE DEF x
<1>3. /\ lo \in Nat /\ hi \in Nat /\ lo <= hi /\ Len(wire) \in Nat
      /\ WireEnd = EndOf(wire, Len(wire)) /\ WireEnd \in Nat /\ FullSize \in Nat
  BY WireFacts, RxAssumption DEF LagOK
<1>4. /\ EndOf(wire, Len(wire))' = EndOf(wire, Len(wire))
      /\ (EndOf(wire, pos - 1))' = EndOf(wire, x - 1)
  BY <1>1 DEF EndOf, x
<1>5. LagOK(wire)'
  <2>1. h \in Nat /\ h <= EndOf(wire, Len(wire)) /\ lo <= h
    BY <1>1, <1>3, SMTT(30)
  <2>2. x \in Nat /\ x <= Len(wire) + 1 /\ lo + 0 = lo
    BY <1>2, <1>3, SMTT(30)
  <2> QED BY <1>1, <1>2, <1>3, <1>4, <2>1, <2>2 DEF LagOK, x
<1>6. ASSUME NEW g \in 1..Len(wire), FragAt(wire, g) PROVE FragAt(wire, g)'
  <2>1. /\ ~Complete(wire, g) /\ frag = FragOf(wire, g) /\ wire[g].end <= hi
        /\ lo <= wire[g].end /\ wire[g].end < lo + FullSize
    BY <1>1, <1>6 DEF FragAt
  <2>2. Complete(wire, g)' = Complete(wire, g) /\ FragOf(wire, g)' = FragOf(wire, g)
    BY <1>1 DEF Complete, FragOf
  <2>3. wire[g].end \in Nat /\ wire[g].at \in Nat
    BY PacketFacts
  <2>4. wire[g].end <= h
    BY <1>1, <1>3, <2>1, <2>3, SMTT(30)
  <2>5. CASE x <= g
    <3>1. x \in 1..Len(wire) /\ ~(x < x)
      BY <1>2, <1>3, <2>5, SMTT(30)
    <3>2. ~(wire[x].at < lo) /\ wire[x].at \in Nat
      BY <1>2, <3>1, PacketFacts
    <3>3. wire[g].end < wire[x].at + FullSize
      BY <1>3, <2>1, <2>3, <3>2, SMTT(30)
    <3>4. x # 0
      BY <3>1, SMTT(30)
    <3> QED BY <1>1, <2>1, <2>2, <2>4, <2>5, <3>3, <3>4 DEF FragAt, x
  <2>6. CASE ~(x <= g)
    <3>1. x - 1 \in 1..Len(wire) /\ x - 1 < x /\ g <= x - 1 /\ x # 0 /\ x \in Nat
      BY <1>2, <1>3, <2>6, SMTT(30)
    <3>2. wire[x - 1].at < lo /\ wire[x - 1].at \in Nat
      BY <1>2, <3>1, PacketFacts
    <3>3. ASSUME g < x - 1 PROVE FALSE
      <4>1. wire[g].end <= wire[x - 1].at
        BY <3>1, <3>3, PacketFacts DEF Before
      <4> QED BY <1>3, <2>1, <2>3, <3>2, <4>1, SMTT(30)
    <3>4. g = x - 1
      BY <3>1, <3>3, SMTT(30)
    <3> QED BY <1>1, <2>1, <2>2, <2>4, <3>1, <3>4 DEF FragAt, x
  <2> QED BY <2>5, <2>6
<1> QED BY <1>1, <1>5, <1>6 DEF FragOK

\* dap_events_socket_shrink_buf_in: the packet of buf_fragments has been
\* handled, for any up to it would be whole.
LEMMA ShrinkLag ==
    ASSUME Wired, LagOK(wire), FragOK(wire), Shrink
    PROVE  LagOK(wire)' /\ FragOK(wire)'
<1>1. /\ pos # 0 /\ ~Whole /\ pos' = 0 /\ hi' = hi /\ used' = used /\ junk' = junk
      /\ wire' = wire /\ frag' = frag
      /\ lo' = IF lo + used < hi THEN lo + used ELSE hi
  BY DEF Shrink, rvars
<1>2. /\ lo \in Nat /\ hi \in Nat /\ pos \in Nat /\ used \in Nat /\ hi <= EndOf(wire, Len(wire))
      /\ pos <= Len(wire) + 1
      /\ lo + used <= hi /\ lo + used <= EndOf(wire, pos - 1)
      /\ EndOf(wire, pos - 1) < lo + used + FullSize
  BY <1>1 DEF LagOK
<1>3. lo' = lo + used /\ lo' \in Nat /\ lo' <= hi
  BY <1>1, <1>2, SMTT(30)
<1>4. EndOf(wire, Len(wire))' = EndOf(wire, Len(wire)) /\ Len(wire) \in Nat
  BY <1>1, WireFacts DEF EndOf
<1>5. LagOK(wire)'
  <2>1. 0 <= Len(wire) + 1 /\ 0 \in Nat
    BY <1>4, SMTT(30)
  <2> QED BY <1>1, <1>2, <1>3, <1>4, <2>1 DEF LagOK
<1>6. ASSUME NEW g \in 1..Len(wire), FragAt(wire, g) PROVE FragAt(wire, g)'
  <2>1. /\ ~Complete(wire, g) /\ frag = FragOf(wire, g) /\ wire[g].end <= hi
        /\ g = pos - 1 \/ pos <= g
    BY <1>1, <1>6 DEF FragAt
  <2>2. Complete(wire, g)' = Complete(wire, g) /\ FragOf(wire, g)' = FragOf(wire, g)
    BY <1>1 DEF Complete, FragOf
  <2>3. ASSUME pos <= g PROVE FALSE
    <3>0. pos \in 1..Len(wire)
      BY <1>1, <1>2, <1>4, <2>3, SMTT(30)
    <3>1. pos \in 1..Len(wire) /\ wire[pos].end \in Nat /\ wire[g].at \in Nat /\ wire[g].end \in Nat
      BY <3>0, PacketFacts
    <3>2. wire[pos].end <= wire[g].end
      <4>1. CASE pos = g
        BY <3>1, <4>1, SMTT(30)
      <4>2. CASE pos # g
        <5>1. pos < g
          BY <1>2, <2>3, <4>2, SMTT(30)
        <5>2. wire[pos].end <= wire[g].at /\ wire[g].at < wire[g].end
          BY <3>1, <5>1, PacketFacts DEF Before
        <5> QED BY <3>1, <5>2, SMTT(30)
      <4> QED BY <4>1, <4>2
    <3> QED BY <1>1, <1>2, <2>1, <3>1, <3>2, SMTT(30) DEF Whole
  <2>4. g = pos - 1 /\ EndOf(wire, pos - 1) = wire[g].end
    BY <2>1, <2>3, SMTT(30) DEF EndOf
  <2> QED BY <1>1, <1>2, <1>3, <2>1, <2>2, <2>4 DEF FragAt
<1> QED BY <1>1, <1>5, <1>6 DEF FragOK

\* The cursor moves over the packet that was handled.
LEMMA HandledLag ==
    ASSUME Wired, LagOK(wire), Whole, Handled
    PROVE  LagOK(wire)'
<1>1. /\ pos \in 1..Len(wire) /\ wire[pos].end <= hi /\ Len(wire) \in Nat
  BY WireFacts DEF Whole
<1>2. /\ used' = used + (wire[pos].end - wire[pos].at)
      /\ pos' = pos + 1 /\ lo' = lo /\ hi' = hi /\ wire' = wire /\ junk' = junk
  BY DEF Handled
<1> DEFINE a == wire[pos].at
           z == wire[pos].end
<1>3. a \in Nat /\ z \in Nat /\ a < z /\ a = EndOf(wire, pos - 1) /\ z <= hi
  BY <1>1, PacketFacts
<1>4. EndOf(wire, Len(wire))' = EndOf(wire, Len(wire))
  BY <1>2 DEF EndOf
<1>5. (EndOf(wire, pos - 1))' = z
  <2>1. pos + 1 - 1 = pos /\ pos # 0
    BY <1>1, SMTT(30)
  <2>2. pos' - 1 = pos /\ pos' - 1 # 0
    <3>1. pos' = pos + 1 /\ pos \in Nat
      BY <1>1, <1>2, SMTT(30)
    <3>2. pos' - 1 = pos
      BY <3>1, SMTT(30)
    <3> QED BY <2>1, <3>2
  <2>3. (EndOf(wire, pos - 1))' = wire'[pos' - 1].end
    BY <2>2 DEF EndOf
  <2> QED BY <1>2, <2>2, <2>3
<1>6. used' = used + (z - a)
  BY <1>2
<1> HIDE DEF a, z
<1>7. /\ lo \in Nat /\ hi \in Nat /\ used \in Nat /\ lo <= hi /\ hi <= EndOf(wire, Len(wire))
      /\ lo + used <= a /\ a < lo + used + FullSize
  BY <1>1, <1>3, SMTT(30) DEF LagOK
<1>8. FullSize \in Nat
  BY RxAssumption
<1>9. /\ used' \in Nat /\ lo + used' <= z /\ z < lo + used' + FullSize /\ lo + used' <= hi
  <2> DEFINE u == used'
  <2>1. u = used + (z - a)
    BY <1>6
  <2> HIDE DEF u
  <2>2. u \in Nat
    BY <1>3, <1>7, <2>1, SMTT(30)
  <2>3. lo + u <= z
    BY <1>3, <1>7, <2>1, SMTT(30)
  <2>4. z < lo + u + FullSize
    BY <1>3, <1>7, <1>8, <2>1, SMTT(30)
  <2>5. lo + u <= hi
    BY <1>3, <1>7, <2>2, <2>3, SMTT(30)
  <2> QED BY <2>2, <2>3, <2>4, <2>5 DEF u
<1>10. pos' \in Nat /\ pos' <= Len(wire) + 1
  BY <1>1, <1>2, SMTT(30)
<1> QED BY <1>2, <1>4, <1>5, <1>7, <1>9, <1>10 DEF LagOK

\* A fragment that lies before packet g, less than a full fragment before its
\* end, is never the one that would follow g.
LEMMA NotAgain ==
    ASSUME Wired, NEW x \in 1..Len(wire), NEW g \in 1..Len(wire), x <= g,
           ~Complete(wire, g), wire[g].end < wire[x].at + FullSize,
           wire[x].type = "FRAGMENT", wire[g].k = wire[x].k - 1
    PROVE  FALSE
<1> DEFINE d == wire[x]
           e == wire[g]
<1>1. /\ d.at \in Nat /\ d.end \in Nat /\ d.m \in Nat /\ d.k \in Nat /\ d.n \in Nat
      /\ d.at < d.end /\ Sized(d) /\ InTurn(wire, x)
      /\ e.at \in Nat /\ e.end \in Nat /\ e.m \in Nat /\ e.k \in Nat /\ e.n \in Nat
      /\ e.at < e.end /\ InTurn(wire, g)
  BY PacketFacts
<1>2. e.k >= 1
  <2>1. e.k # e.n
    BY DEF Complete
  <2>2. e.k = 1 \/ e.k > 1 \/ (e.k = 0 /\ e.n = 0)
    BY <1>1 DEF InTurn
  <2> HIDE DEF e
  <2> QED BY <1>1, <2>1, <2>2, SMTT(30)
<1>3. d.k = e.k + 1 /\ d.k > 1
  BY <1>1, <1>2, SMTT(30)
<1>4. x < g
  <2>1. x # g
    BY <1>1, <1>3, SMTT(30)
  <2> QED BY <2>1, SMTT(30)
<1>5. Before(d, e)
  BY <1>4, PacketFacts
<1>6. e.end < d.at + FullSize /\ FullSize \in Nat
  BY RxAssumption
<1> HIDE DEF d, e
<1>7. d.m < e.m
  BY <1>1, <1>3, <1>5, SMTT(30) DEF Before
<1>8. CASE d.k = d.n /\ d.n > 2
  <2>1. e.k > 1
    BY <1>1, <1>3, <1>8, SMTT(30)
  <2>2. d.end + FullSize <= e.end
    BY <1>5, <1>7, <2>1 DEF Before
  <2> QED BY <1>1, <1>6, <2>2, SMTT(30)
<1>9. CASE ~(d.k = d.n /\ d.n > 2)
  <2>1. d.end = d.at + FullSize /\ d.end <= e.at
    BY <1>1, <1>3, <1>5, <1>9 DEF Sized, Before
  <2> QED BY <1>1, <1>6, <2>1, SMTT(30)
<1> QED BY <1>8, <1>9

\* A fragment that fits buf_fragments follows the packet it came from.
LEMMA FragBefore ==
    ASSUME Wired, FragOK(wire), Whole, wire[pos].type = "FRAGMENT",
           frag.filled = wire[pos].k - 1
    PROVE  frag = FragOf(wire, pos - 1)
<1>1. pos \in 1..Len(wire) /\ pos # 0 /\ wire[pos].k \in Nat /\ InTurn(wire, pos)
  BY PacketFacts, SMTT(30) DEF Whole
<1>2. CASE frag = NoFrag
  <2>1. wire[pos].k = 1
    BY <1>1, <1>2, SMTT(30) DEF NoFrag
  <2>2. Complete(wire, pos - 1)
    BY <1>1, <2>1, SMTT(30) DEF InTurn
  <2> QED BY <1>2, <2>2 DEF FragOf
<1>3. ASSUME NEW g \in 1..Len(wire), FragAt(wire, g) PROVE frag = FragOf(wire, pos - 1)
  <2>1. /\ ~Complete(wire, g) /\ frag = FragOf(wire, g)
        /\ g = pos - 1 \/ (pos <= g /\ wire[g].end < wire[pos].at + FullSize)
    BY <1>1, <1>3 DEF FragAt
  <2>2. wire[g].k = wire[pos].k - 1
    BY <2>1 DEF FragOf
  <2>3. g = pos - 1
    BY <1>1, <2>1, <2>2, NotAgain
  <2> QED BY <2>1, <2>3
<1> QED BY <1>2, <1>3 DEF FragOK

\* What is passed to the channel is whole.
LEMMA DeliverWhole ==
    ASSUME AllWhole, NEW seq, NEW m \in Nat, Deliver(seq, m, {m})
    PROVE  AllWhole'
<1> DEFINE e == [m |-> m, from |-> {m}]
<1>1. /\ delivered \in Seq(Messages)
      /\ \A i \in 1..Len(delivered) : delivered[i].from = {delivered[i].m}
  BY DEF AllWhole
<1>2. e \in Messages /\ e.m = m /\ e.from = {m}
  BY DEF Messages
<1>3. delivered' = delivered \/ delivered' = Append(delivered, e)
  BY DEF Deliver
<1> HIDE DEF e
<1>4. CASE delivered' = delivered
  BY <1>1, <1>4 DEF AllWhole
<1>5. CASE delivered' = Append(delivered, e)
  <2>1. /\ delivered' \in Seq(Messages) /\ Len(delivered') = Len(delivered) + 1
        /\ \A i \in 1..Len(delivered) : delivered'[i] = delivered[i]
        /\ delivered'[Len(delivered) + 1] = e /\ Len(delivered) \in Nat
    BY <1>1, <1>2, <1>5, SMTT(30)
  <2>2. ASSUME NEW i \in 1..Len(delivered') PROVE delivered'[i].from = {delivered'[i].m}
    <3>1. CASE i \in 1..Len(delivered)
      BY <1>1, <2>1, <3>1
    <3>2. CASE i \notin 1..Len(delivered)
      <4>1. i = Len(delivered) + 1
        BY <2>1, <3>2, SMTT(30)
      <4> QED BY <1>2, <2>1, <4>1
    <3> QED BY <3>1, <3>2
  <2> QED BY <2>1, <2>2 DEF AllWhole
<1> QED BY <1>3, <1>4, <1>5

\* A packet that is not a fragment leaves buf_fragments; it is none of those
\* that came before what is in there.
LEMMA KeptFrag ==
    ASSUME Wired, FragOK(wire), Whole, Complete(wire, pos), Complete(wire, pos - 1),
           Handled, frag' = frag
    PROVE  FragOK(wire)'
<1>1. pos \in 1..Len(wire) /\ pos \in Nat /\ pos # 0 /\ Len(wire) \in Nat
  BY WireFacts, SMTT(30) DEF Whole
<1>2. pos' = pos + 1 /\ lo' = lo /\ hi' = hi /\ wire' = wire /\ pos' # 0
  BY <1>1, SMTT(30) DEF Handled
<1>3. ASSUME NEW g \in 1..Len(wire), FragAt(wire, g) PROVE FragAt(wire, g)'
  <2>1. /\ ~Complete(wire, g) /\ frag = FragOf(wire, g) /\ wire[g].end <= hi
        /\ g = pos - 1 \/ (pos <= g /\ wire[g].end < wire[pos].at + FullSize)
    BY <1>1, <1>3 DEF FragAt
  <2>2. g # pos /\ pos <= g /\ wire[g].end < wire[pos].at + FullSize
    BY <2>1
  <2>3. pos + 1 <= g /\ pos + 1 \in 1..Len(wire) /\ pos < pos + 1
    BY <1>1, <2>2, SMTT(30)
  <2>4. /\ wire[pos].end <= wire[pos + 1].at /\ wire[pos].at < wire[pos].end
        /\ wire[pos].at \in Nat /\ wire[pos].end \in Nat /\ wire[pos + 1].at \in Nat
        /\ wire[g].end \in Nat
    <3>1. Before(wire[pos], wire[pos + 1])
      BY <1>1, <2>3, PacketFacts
    <3>2. wire[pos].end <= wire[pos + 1].at
      BY <3>1 DEF Before
    <3> QED BY <1>1, <2>3, <3>2, PacketFacts
  <2>5. wire[g].end < wire[pos + 1].at + FullSize
    <3> DEFINE y == wire[g].end
               a == wire[pos].at
               z == wire[pos].end
               b == wire[pos + 1].at
    <3>1. /\ y \in Nat /\ a \in Nat /\ z \in Nat /\ b \in Nat
          /\ y < a + FullSize /\ a < z /\ z <= b
      BY <2>2, <2>4
    <3>2. FullSize \in Nat
      BY RxAssumption
    <3> HIDE DEF y, a, z, b
    <3>3. y < b + FullSize
      BY <3>1, <3>2, SMTT(30)
    <3> QED BY <3>3 DEF y, b
  <2>6. Complete(wire, g)' = Complete(wire, g) /\ FragOf(wire, g)' = FragOf(wire, g)
    BY <1>2 DEF Complete, FragOf
  <2> QED BY <1>2, <2>1, <2>3, <2>5, <2>6 DEF FragAt
<1> QED BY <1>2, <1>3 DEF FragOK

\* STREAM_PKT_TYPE_DATA_PACKET, whatever is in buf_fragments.
LEMMA ProcDataLag ==
    ASSUME Wired, LagOK(wire), FragOK(wire), AllWhole, ProcData
    PROVE  LagOK(wire)' /\ FragOK(wire)' /\ AllWhole'
<1>1. Whole /\ Handled /\ wire[pos].type = "DATA" /\ frag' = frag
  BY DEF ProcData
<1>2. pos \in 1..Len(wire) /\ InTurn(wire, pos) /\ wire[pos].m \in Nat
  BY <1>1, PacketFacts DEF Whole
<1>3. Complete(wire, pos) /\ Complete(wire, pos - 1)
  BY <1>1, <1>2 DEF InTurn, Complete
<1>4. AllWhole'
  BY <1>2, DeliverWhole DEF ProcData
<1> QED BY <1>1, <1>3, <1>4, HandledLag, KeptFrag

\* A control packet.
LEMMA ProcControlLag ==
    ASSUME Wired, LagOK(wire), FragOK(wire), AllWhole, ProcControl
    PROVE  LagOK(wire)' /\ FragOK(wire)' /\ AllWhole'
<1>1. Whole /\ Handled /\ wire[pos].n = 0 /\ frag' = frag /\ delivered' = delivered
  BY DEF ProcControl
<1>2. pos \in 1..Len(wire) /\ InTurn(wire, pos) /\ wire[pos].k \in Nat
  BY <1>1, PacketFacts DEF Whole
<1>3. Complete(wire, pos) /\ Complete(wire, pos - 1)
  <2>1. ~(wire[pos].n >= 1) /\ ~(wire[pos].k > 1 /\ wire[pos].k <= wire[pos].n)
    BY <1>1, <1>2, SMTT(30)
  <2> QED BY <1>1, <1>2, <2>1 DEF InTurn, Complete
<1>4. AllWhole'
  BY <1>1 DEF AllWhole
<1> QED BY <1>1, <1>3, <1>4, HandledLag, KeptFrag

\* A fragment that fits is of the message in buf_fragments.
LEMMA FilledLag ==
    ASSUME Wired, FragOK(wire), Whole, wire[pos].type = "FRAGMENT",
           frag.filled = wire[pos].k - 1
    PROVE  Filled(wire[pos]) =
             [hdr |-> wire[pos].m, size |-> wire[pos].n, from |-> {wire[pos].m},
              filled |-> wire[pos].k, total |-> wire[pos].n]
<1>1. /\ pos \in 1..Len(wire) /\ pos - 1 \in 0..Len(wire) /\ InTurn(wire, pos)
      /\ wire[pos] \in Packet
  <2>1. wire \in Seq(Packet) /\ Len(wire) \in Nat
    BY WireFacts
  <2>2. pos \in 1..Len(wire)
    BY DEF Whole
  <2>3. wire[pos] \in Packet /\ pos - 1 \in 0..Len(wire)
    BY <2>1, <2>2, SMTT(30)
  <2> QED BY <2>2, <2>3, PacketFacts
<1>2. frag = FragOf(wire, pos - 1)
  BY FragBefore
<1> QED BY <1>1, <1>2, FilledOK

\* STREAM_PKT_TYPE_FRAGMENT_PACKET, out of place or not the last one.
LEMMA ProcFragmentLag ==
    ASSUME Wired, LagOK(wire), FragOK(wire), AllWhole, ProcFragment
    PROVE  LagOK(wire)' /\ FragOK(wire)' /\ AllWhole'
<1>1. /\ Whole /\ Handled /\ wire[pos].type = "FRAGMENT" /\ delivered' = delivered
      /\ \/ frag' = NoFrag
         \/ /\ frag.filled = wire[pos].k - 1 /\ wire[pos].k < wire[pos].n
            /\ frag' = Filled(wire[pos])
  BY DEF ProcFragment
<1>2. LagOK(wire)' /\ AllWhole'
  BY <1>1, HandledLag DEF AllWhole
<1>3. CASE frag' = NoFrag
  BY <1>2, <1>3 DEF FragOK
<1>4. CASE /\ frag.filled = wire[pos].k - 1 /\ wire[pos].k < wire[pos].n
           /\ frag' = Filled(wire[pos])
  <2>1. pos \in 1..Len(wire) /\ pos # 0 /\ wire[pos].end <= hi
        /\ wire[pos].k \in Nat /\ wire[pos].n \in Nat
    <3>1. pos \in 1..Len(wire) /\ wire[pos].end <= hi
      BY <1>1 DEF Whole
    <3>2. pos # 0
      BY <3>1, SMTT(30)
    <3> QED BY <3>1, <3>2, PacketFacts
  <2>2. ~Complete(wire, pos)
    BY <1>4, <2>1, SMTT(30) DEF Complete
  <2>3. frag' = FragOf(wire, pos)
    BY <1>1, <1>4, <2>2, FilledLag DEF FragOf
  <2>4. pos' = pos + 1 /\ hi' = hi /\ wire' = wire /\ pos = pos' - 1 /\ pos' # 0
    BY <1>1, <2>1, SMTT(30) DEF Handled
  <2> DEFINE g == pos
  <2> HIDE DEF g
  <2>5. ~Complete(wire', g) /\ frag' = FragOf(wire', g) /\ wire'[g].end <= hi' /\ g = pos' - 1
    BY <2>1, <2>2, <2>3, <2>4 DEF g
  <2>6. g \in 1..Len(wire')
    BY <2>1, <2>4 DEF g
  <2>7. FragOK(wire)'
    BY <2>4, <2>5, <2>6 DEF FragOK, FragAt, Complete, FragOf
  <2> QED BY <1>2, <2>7
<1> QED BY <1>1, <1>3, <1>4

\* The last fragment: what is delivered is of one message.
LEMMA ProcLastFragmentLag ==
    ASSUME Wired, LagOK(wire), FragOK(wire), AllWhole, ProcLastFragment
    PROVE  LagOK(wire)' /\ FragOK(wire)' /\ AllWhole'
<1> DEFINE f == Filled(wire[pos])
<1>1. /\ Whole /\ Handled /\ wire[pos].type = "FRAGMENT" /\ frag' = NoFrag
      /\ frag.filled = wire[pos].k - 1
      /\ IF f.total = f.size THEN Deliver(SeqIdOf(f.hdr), f.hdr, f.from)
         ELSE UNCHANGED <<last, delivered>>
  BY DEF ProcLastFragment
<1>2. f.hdr = wire[pos].m /\ f.from = {wire[pos].m}
  <2>1. f = [hdr |-> wire[pos].m, size |-> wire[pos].n, from |-> {wire[pos].m},
             filled |-> wire[pos].k, total |-> wire[pos].n]
    BY <1>1, FilledLag
  <2> HIDE DEF f
  <2> QED BY <2>1
<1>3. wire[pos].m \in Nat
  BY <1>1, PacketFacts DEF Whole
<1> HIDE DEF f
<1>4. AllWhole'
  <2>1. CASE f.total = f.size
    BY <1>1, <1>2, <1>3, <2>1, DeliverWhole
  <2>2. CASE f.total # f.size
    BY <1>1, <2>2 DEF AllWhole
  <2> QED BY <2>1, <2>2
<1>5. FragOK(wire)'
  BY <1>1 DEF FragOK
<1> QED BY <1>1, <1>4, <1>5, HandledLag

\* Writing moves no packet.
LEMMA WrittenLag ==
    ASSUME Wired, Longer, LagOK(wire), FragOK(wire), AllWhole,
           UNCHANGED <<junk, lo, hi, pos, used, frag, delivered>>
    PROVE  LagOK(wire)' /\ FragOK(wire)' /\ AllWhole'
<1>1. /\ wire \in Seq(Packet) /\ Len(wire) \in Nat /\ WireOK(wire, seq_id) /\ junk \in Nat
      /\ EndOf(wire, Len(wire)) \in Nat
  BY WireFacts
<1>2. /\ wire' \in Seq(Packet) /\ Len(wire') \in Nat /\ WireOK(wire', seq_id')
      /\ Len(wire) <= Len(wire')
      /\ \A i \in 1..Len(wire) : wire'[i] = wire[i]
  BY SMTT(30) DEF Longer, WireOK
<1>3. \A p \in 0..Len(wire) : EndOf(wire', p) = EndOf(wire, p)
  BY <1>1, <1>2, SMTT(30) DEF EndOf
<1>4. EndOf(wire, Len(wire)) <= EndOf(wire', Len(wire')) /\ EndOf(wire', Len(wire')) \in Nat
  <2>1. EndOf(wire', Len(wire)) = EndOf(wire, Len(wire))
    BY <1>1, <1>3, SMTT(30)
  <2>2. Len(wire') \in 0..Len(wire') /\ EndOf(wire', Len(wire')) \in Nat
        /\ junk <= EndOf(wire', Len(wire'))
        /\ \A i \in 1..Len(wire') : i <= Len(wire') => wire'[i].end <= EndOf(wire', Len(wire'))
    BY <1>1, <1>2, EndBefore, SMTT(30)
  <2>3. CASE Len(wire) = 0
    BY <2>2, <2>3 DEF EndOf
  <2>4. CASE Len(wire) # 0
    <3>1. Len(wire) \in 1..Len(wire') /\ EndOf(wire', Len(wire)) = wire'[Len(wire)].end
      BY <1>1, <1>2, <2>4, SMTT(30) DEF EndOf
    <3> QED BY <1>2, <2>1, <2>2, <3>1
  <2> QED BY <2>2, <2>3, <2>4
<1>5. /\ EndOf(wire, Len(wire))' = EndOf(wire', Len(wire'))
      /\ (EndOf(wire, pos - 1))' = EndOf(wire', pos - 1)
  BY DEF EndOf
<1>6. LagOK(wire)'
  <2>1. /\ lo \in Nat /\ hi \in Nat /\ pos \in Nat /\ used \in Nat
        /\ lo <= hi /\ hi <= EndOf(wire, Len(wire)) /\ pos <= Len(wire) + 1
    BY DEF LagOK
  <2>2. pos # 0 => pos - 1 \in 0..Len(wire)
    BY <1>1, <2>1, SMTT(30)
  <2>3. hi <= EndOf(wire', Len(wire')) /\ pos <= Len(wire') + 1
    BY <1>1, <1>2, <1>4, <2>1, SMTT(30)
  <2> QED BY <1>3, <1>5, <2>1, <2>2, <2>3 DEF LagOK
<1>7. ASSUME NEW g \in 1..Len(wire), FragAt(wire, g) PROVE g \in 1..Len(wire') /\ FragAt(wire, g)'
  <2>1. g \in 1..Len(wire') /\ wire'[g] = wire[g]
    BY <1>1, <1>2, SMTT(30)
  <2>2. pos # 0 /\ pos <= g => wire'[pos] = wire[pos]
    BY <1>1, <1>2, SMTT(30) DEF LagOK
  <2>3. Complete(wire, g)' = Complete(wire, g) /\ FragOf(wire, g)' = FragOf(wire, g)
    BY <2>1 DEF Complete, FragOf
  <2> QED BY <1>7, <2>1, <2>2, <2>3 DEF FragAt
<1>8. AllWhole'
  BY DEF AllWhole
<1> QED BY <1>6, <1>7, <1>8 DEF FragOK

\* A step that touches neither the wire nor the buffers.
LEMMA UntouchedLag ==
    ASSUME LagOK(wire), FragOK(wire), AllWhole,
           UNCHANGED <<junk, wire, lo, hi, pos, used, frag, delivered>>
    PROVE  LagOK(wire)' /\ FragOK(wire)' /\ AllWhole'
<1>1. LagOK(wire)'
  BY DEF LagOK, EndOf
<1>2. FragOK(wire)'
  BY DEF FragOK, FragAt, FragOf, Complete
<1> QED BY <1>1, <1>2 DEF AllWhole

-----------------------------------------------------------------------------
\* A stream starts with nothing written and nothing read.
LEMMA InitOK == RxInit => RxInv
<1> SUFFICES ASSUME RxInit PROVE RxInv
  OBVIOUS
<1>1. junk \in Nat /\ junk \in Junks
  BY RxAssumption DEF RxInit
<1>2. wire = <<>> /\ wire \in Seq(Packet) /\ Len(wire) = 0 /\ delivered = <<>>
  BY SMTT(30) DEF RxInit
<1>3. Wired
  BY <1>1, <1>2, SMTT(30) DEF RxInit, WireOK, Complete, Done, Wired
<1>4. ReaderOK(wire, 0)
  <2>1. Done(wire, 0) = 0 /\ FragOf(wire, 0) = NoFrag /\ SeqIdOf(0) = 0
    BY DEF Done, FragOf, Complete, SeqIdOf
  <2>2. delivered \in Seq(Messages) /\ Len(delivered) = 0
    BY <1>2, SMTT(30)
  <2> QED BY <2>1, <2>2, SMTT(30) DEF RxInit, ReaderOK
<1>5. CursorOK(wire, 0)
  BY <1>1, SMTT(30) DEF RxInit, CursorOK, EndOf
<1>6. LagOK(wire) /\ FragOK(wire) /\ AllWhole
  BY <1>1, <1>2, SMTT(30) DEF RxInit, LagOK, FragOK, AllWhole, EndOf
<1> QED BY <1>2, <1>3, <1>4, <1>5, <1>6, SMTT(30) DEF RxInv, Placed

\* Every step keeps the invariant.
LEMMA NextOK == RxInv /\ [RxNext]_rxvars => RxInv'
<1> SUFFICES ASSUME RxInv, [RxNext]_rxvars PROVE RxInv'
  OBVIOUS
<1> USE DEF RxInv
<1>1. ASSUME Longer,
             UNCHANGED <<junk, lo, hi, pos, used, last, frag, delivered>>
      PROVE  RxInv'
  BY <1>1, WrittenPlaced, WrittenLag DEF Longer, ShortJunk
<1>2. CASE WriteData
  BY <1>1, <1>2, WriteDataOK DEF WriteData, rvars
<1>3. ASSUME NEW n \in Fragments, WriteFragments(n) PROVE RxInv'
  BY <1>1, <1>3, WriteFragmentsOK DEF WriteFragments, rvars
<1>4. CASE WriteKeepalive
  BY <1>1, <1>4, WriteControlOK DEF WriteKeepalive, rvars
<1>5. CASE WriteAlive
  BY <1>1, <1>5, WriteControlOK DEF WriteAlive
<1>6. CASE KeepaliveTimer
  BY <1>6, Untouched, UntouchedLag, Stepped DEF KeepaliveTimer, ShortJunk
<1>7. ASSUME NEW h \in 1..WireEnd, Recv(h) PROVE RxInv'
  <2>1. AllWhole'
    BY <1>7 DEF Recv, rvars, AllWhole
  <2> QED BY <1>7, <2>1, RecvOK, RecvLag, Stepped DEF Recv, ShortJunk
<1>8. CASE ProcData
  BY <1>8, ProcDataOK, ProcDataLag, Stepped DEF ProcData, Handled, ShortJunk
<1>9. CASE ProcFragment
  BY <1>9, ProcFragmentOK, ProcFragmentLag, Stepped
     DEF ProcFragment, Handled, ShortJunk
<1>10. CASE ProcLastFragment
  BY <1>10, ProcLastFragmentOK, ProcLastFragmentLag, Stepped
     DEF ProcLastFragment, Handled, ShortJunk
<1>11. CASE ProcControl
  BY <1>11, ProcControlOK, ProcControlLag, Stepped DEF ProcControl, Handled, ShortJunk
<1>12. CASE Shrink
  <2>1. AllWhole'
    BY <1>12 DEF Shrink, rvars, AllWhole
  <2> QED BY <1>12, <2>1, ShrinkOK, ShrinkLag, Stepped DEF Shrink, ShortJunk
<1>13. CASE UNCHANGED rxvars
  BY <1>13, Untouched, UntouchedLag, Stepped DEF rxvars, ShortJunk
<1> QED BY <1>2, <1>3, <1>4, <1>5, <1>6, <1>7, <1>8, <1>9, <1>10, <1>11, <1>12,
            <1>13
        DEF RxNext, Read

\* The messages a channel is given are those that were written, in order,
\* none missing in between, none twice (dap_stream.c:675-845 on what
\* dap_stream_ch_pkt_write_unsafe wrote), for any sizes of packets and any
\* numbers of fragments, however the bytes arrive.
THEOREM RxInOrder == RxSpec => []DeliveredInOrder
<1>1. RxInv => DeliveredInOrder
  BY DEF RxInv, Placed, ReaderOK, DeliveredInOrder
<1> QED BY <1>1, InitOK, NextOK, PTL DEF RxSpec

\* Each message delivered is made of its own fragments only, also behind a rest
\* that makes the reader handle packets again (dap_stream.c:741-758).
THEOREM RxWhole == RxSpec => []WholeMessages
<1>1. RxInv => WholeMessages
  BY DEF RxInv, AllWhole, WholeMessages
<1> QED BY <1>1, InitOK, NextOK, PTL DEF RxSpec

=============================================================================
