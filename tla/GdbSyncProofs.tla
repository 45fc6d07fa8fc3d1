---------------------------- MODULE GdbSyncProofs ----------------------------
(***************************************************************************)
(* Two invariants of the synchronisation of a group, for every number of   *)
(* nodes, keys and records, every page size, skew of the clocks and bound: *)
(* no reader passes over a key, and the newest record of a key survives.   *)
(*                                                                         *)
(* The first rests on the order of the hashes.  A record only gives way to *)
(* one with a larger hash, so that a key that is behind the last hash of a *)
(* reader stays behind it.  A record that is cleaned leaves no trace, but  *)
(* it was expired, and so is then the last hash, which is older: whatever  *)
(* is written under the key later is admitted only with a later time.      *)
(*                                                                         *)
(* The second rests on a history of what travels: nothing in a store or on *)
(* the way is newer than the newest record written.                        *)
(***************************************************************************)
EXTENDS GdbSync, FiniteSetTheorems, TLAPS

\* Leaves go to Zenon, with time to spare, unless they name the SMT solver.
USE ZenonT(30)

\* A record of key k, given what has been written.
AtMost(r, q) == r = q \/ HashLess(r, q)

Written(k, r, nw) == ~r.pin /\ nw[k] # NoRec /\ AtMost(r, nw[k])

StoreOK(d, nw) ==
    \A n \in Nodes, k \in Keys : d[n][k] # NoRec => Written(k, d[n][k], nw)

\* What is sent holds no key twice.
PackOK(S, nw) ==
    /\ \A e \in S : Written(e[1], e[2], nw)
    /\ \A e, f \in S : e[1] = f[1] => e = f

NetOK(nt, nw) == \A p \in nt : PackOK(p.data, nw)

NewestOK(nw) == \A k \in Keys : nw[k] # NoRec => ~nw[k].pin

Survives(d, nw, t) ==
    \A k \in Keys : nw[k] # NoRec =>
        \E n \in Nodes : d[n][k] = nw[k] \/ TooOld(nw[k], t + Skew[n])

\* What is under key k when l is the last hash and the clock shows c.
Behind(l, k, q, c) == IF q = NoRec THEN TooOld(l[2], c) ELSE Precedes(l, <<k, q>>)

CoverOK(rs, d, t) ==
    \A r \in rs : \A k \in r.due :
        r.last = Blank \/ Behind(r.last, k, d[r.at][k], t + Skew[r.at])

\* What a reader and a packet are.
Typed ==
    /\ now \in Nat
    /\ db \in [Nodes -> [Keys -> Record \cup {NoRec}]]
    /\ net \subseteq Packet
    /\ readers \subseteq Reader
    /\ newest \in [Keys -> Record \cup {NoRec}]

\* The inductive invariant.
IInv ==
    /\ Typed
    /\ StoreOK(db, newest) /\ NetOK(net, newest) /\ NewestOK(newest)
    /\ Survives(db, newest, now)
    /\ CoverOK(readers, db, now)

-----------------------------------------------------------------------------
(***************************************************************************)
(* The order of hashes                                                     *)
(***************************************************************************)
\* The parts of a record.
LEMMA RecordParts ==
    ASSUME NEW r \in Record
    PROVE  r.ts \in Nat /\ r.signer \in Signers /\ r.del \in BOOLEAN /\ r.pin \in BOOLEAN
           /\ Crc(r) \in Nat /\ r # NoRec
<1>1. r.ts \in Nat /\ r.signer \in Signers /\ r.del \in BOOLEAN /\ r.pin \in BOOLEAN
  BY DEF Record
<1>2. Crc(r) \in Nat
  BY <1>1, CrcAssumption, SMTT(30) DEF Crc
<1> QED BY <1>1, <1>2, NoRecAssumption

\* Hashes are ordered: any two, ...
LEMMA HashTotal ==
    ASSUME NEW r \in Record, NEW q \in Record
    PROVE  HashLess(r, q) \/ HashLess(q, r) \/ SameHash(r, q)
<1>1. r.ts \in Nat /\ Crc(r) \in Nat /\ q.ts \in Nat /\ Crc(q) \in Nat
  BY RecordParts
<1> QED BY <1>1, SMTT(30) DEF HashLess, SameHash

\* ... one way only, ...
LEMMA HashStrict ==
    ASSUME NEW r \in Record, NEW q \in Record, HashLess(r, q)
    PROVE  ~HashLess(q, r) /\ ~SameHash(q, r) /\ r # q
<1>1. r.ts \in Nat /\ Crc(r) \in Nat /\ q.ts \in Nat /\ Crc(q) \in Nat
  BY RecordParts
<1>2. ~HashLess(q, r)
  BY <1>1, SMTT(30) DEF HashLess
<1>3. ~SameHash(q, r)
  BY <1>1, SMTT(30) DEF HashLess, SameHash
<1> QED BY <1>2, <1>3

\* ... and transitively.
LEMMA HashTrans ==
    ASSUME NEW r \in Record, NEW q \in Record, NEW s \in Record,
           HashLess(r, q), HashLess(q, s)
    PROVE  HashLess(r, s)
<1>1. /\ r.ts \in Nat /\ Crc(r) \in Nat /\ q.ts \in Nat /\ Crc(q) \in Nat
      /\ s.ts \in Nat /\ Crc(s) \in Nat
  BY RecordParts
<1> QED BY <1>1, SMTT(30) DEF HashLess

\* Two records of a key with the same hash are the same.
LEMMA SameRecord ==
    ASSUME NEW r \in Record, NEW q \in Record, SameHash(r, q), r.pin = q.pin
    PROVE  r = q
<1>1. r.ts = q.ts /\ CrcOf[r.signer][r.del] = CrcOf[q.signer][q.del]
  BY DEF SameHash, Crc
<1>2. r.signer = q.signer /\ r.del = q.del
  BY <1>1, CrcAssumption, RecordParts, SMTT(30)
<1>3. r = [ts |-> r.ts, signer |-> r.signer, del |-> r.del, pin |-> r.pin]
  BY DEF Record
<1>4. q = [ts |-> q.ts, signer |-> q.signer, del |-> q.del, pin |-> q.pin]
  BY DEF Record
<1> QED BY <1>1, <1>2, <1>3, <1>4

\* What s_store_obj_apply admits under a key follows what is there.
LEMMA Follows ==
    ASSUME NEW old \in Record \cup {NoRec}, NEW r \in Record,
           ~IsHash(old, r), ~ReceivedIsOlder(old, r)
    PROVE  old # NoRec => HashLess(old, r)
<1> SUFFICES ASSUME old # NoRec PROVE HashLess(old, r)
  OBVIOUS
<1>1. old \in Record /\ ~SameHash(old, r) /\ ~HashLess(r, old)
  BY DEF IsHash, ReceivedIsOlder
<1> QED BY <1>1, HashTotal

\* Entries are ordered likewise: one way only, ...
LEMMA EntryStrict ==
    ASSUME NEW e \in Entry, NEW f \in Entry, Precedes(e, f)
    PROVE  ~Precedes(f, e) /\ e # f
<1>1. e[2] \in Record /\ f[2] \in Record /\ KeyRank[e[1]] \in Nat /\ KeyRank[f[1]] \in Nat
  BY SyncAssumption DEF Entry
<1>2. CASE HashLess(e[2], f[2])
  BY <1>1, <1>2, HashStrict DEF Precedes
<1>3. CASE SameHash(e[2], f[2]) /\ KeyRank[e[1]] < KeyRank[f[1]]
  <2>1. ~HashLess(f[2], e[2]) /\ ~(KeyRank[f[1]] < KeyRank[e[1]])
    <3>1. ~HashLess(f[2], e[2])
      BY <1>1, <1>3, HashStrict
    <3> QED BY <1>1, <1>3, <3>1, SMTT(30)
  <2>2. e # f
    BY <1>1, <1>3, SMTT(30)
  <2> QED BY <2>1, <2>2 DEF Precedes
<1> QED BY <1>2, <1>3 DEF Precedes

\* ... transitively, ...
LEMMA EntryTrans ==
    ASSUME NEW e \in Entry, NEW f \in Entry, NEW g \in Entry, Precedes(e, f), Precedes(f, g)
    PROVE  Precedes(e, g)
<1> DEFINE r == e[2]
           q == f[2]
           s == g[2]
           a == KeyRank[e[1]]
           b == KeyRank[f[1]]
           c == KeyRank[g[1]]
<1>1. r \in Record /\ q \in Record /\ s \in Record /\ a \in Nat /\ b \in Nat /\ c \in Nat
  BY SyncAssumption DEF Entry
<1>2. /\ r.ts \in Nat /\ Crc(r) \in Nat /\ q.ts \in Nat /\ Crc(q) \in Nat
      /\ s.ts \in Nat /\ Crc(s) \in Nat
  BY <1>1, RecordParts
<1>3. /\ HashLess(r, q) \/ (SameHash(r, q) /\ a < b)
      /\ HashLess(q, s) \/ (SameHash(q, s) /\ b < c)
  BY DEF Precedes
<1> HIDE DEF r, q, s, a, b, c
<1>4. HashLess(r, s) \/ (SameHash(r, s) /\ a < c)
  BY <1>1, <1>2, <1>3, SMTT(30) DEF HashLess, SameHash
<1> QED BY <1>4 DEF Precedes, r, s, a, c

\* ... and any two of different keys.
LEMMA EntryTotal ==
    ASSUME NEW e \in Entry, NEW f \in Entry, e[1] # f[1]
    PROVE  Precedes(e, f) \/ Precedes(f, e)
<1>1. e[2] \in Record /\ f[2] \in Record /\ e[1] \in Keys /\ f[1] \in Keys
  BY DEF Entry
<1>2. /\ KeyRank[e[1]] \in Nat /\ KeyRank[f[1]] \in Nat
      /\ KeyRank[e[1]] # KeyRank[f[1]]
  BY <1>1, SyncAssumption
<1>3. SameHash(e[2], f[2]) => SameHash(f[2], e[2])
  BY DEF SameHash
<1>4. HashLess(e[2], f[2]) \/ HashLess(f[2], e[2]) \/ SameHash(e[2], f[2])
  BY <1>1, HashTotal
<1>5. KeyRank[e[1]] < KeyRank[f[1]] \/ KeyRank[f[1]] < KeyRank[e[1]]
  BY <1>2, SMTT(30)
<1> QED BY <1>3, <1>4, <1>5 DEF Precedes

-----------------------------------------------------------------------------
(***************************************************************************)
(* Pages                                                                   *)
(***************************************************************************)
\* A set of entries with one record for a key.
Group(S) ==
    /\ S \subseteq Entry
    /\ IsFiniteSet(S)
    /\ \A e, f \in S : e[1] = f[1] => e = f

\* A non-empty set of naturals has a least element.
LEMMA Least ==
    ASSUME NEW T, T \subseteq Nat, T # {} PROVE \E x \in T : \A y \in T : x <= y
<1> DEFINE R == OpToRel(<, Nat)
<1>1. PICK x \in T : \A y \in T : ~(<<y, x>> \in R)
  BY NatLessThanWellFounded, WFMin
<1>2. ASSUME NEW y \in T PROVE x <= y
  <2>1. ~(<<y, x>> \in R)
    BY <1>1
  <2>2. ~(y < x)
    BY <2>1 DEF OpToRel
  <2> QED BY <2>2, SMTT(30)
<1> QED BY <1>2

\* A part of a group is one.
LEMMA PartOfGroup == ASSUME NEW S, Group(S), NEW T, T \subseteq S PROVE Group(T)
  BY FS_Subset DEF Group

\* The records under the keys of a node are a group.
LEMMA EntriesGroup ==
    ASSUME Typed, NEW n \in Nodes
    PROVE  Group(Entries(n)) /\ \A type : Group(Shown(type, n))
<1> DEFINE S == Entries(n)
<1>1. \A e \in S : e \in Entry /\ e[1] \in Keys /\ e[2] = db[n][e[1]] /\ e = <<e[1], e[2]>>
  BY SMTT(30) DEF Typed, Entries, Entry
<1>2. S \subseteq Entry /\ \A e, f \in S : e[1] = f[1] => e = f
  BY <1>1, SMTT(30)
<1>3. IsFiniteSet(S)
  <2> DEFINE f == [e \in S |-> e[1]]
  <2> HIDE DEF S
  <2>1. f \in [S -> Keys] /\ \A e \in S : f[e] = e[1]
    BY <1>1
  <2> HIDE DEF f
  <2>2. \A e, g \in S : f[e] = f[g] => e = g
    BY <1>2, <2>1, SMTT(30)
  <2>3. f \in Injection(S, Keys)
    BY <2>1, <2>2 DEF Injection, IsInjective
  <2> QED BY <2>3, FS_Injection, SyncAssumption
<1>4. Group(S)
  BY <1>2, <1>3 DEF Group
<1>5. ASSUME NEW type PROVE Group(Shown(type, n))
  <2>1. Shown(type, n) \subseteq S
    BY DEF Shown
  <2> QED BY <1>4, <2>1, PartOfGroup
<1> QED BY <1>4, <1>5

\* Two entries of a group are ordered.
LEMMA GroupTotal ==
    ASSUME NEW S, Group(S), NEW e \in S, NEW f \in S, e # f
    PROVE  e \in Entry /\ f \in Entry /\ (Precedes(e, f) \/ Precedes(f, e))
<1>1. e \in Entry /\ f \in Entry /\ e[1] # f[1]
  BY DEF Group
<1> QED BY <1>1, EntryTotal

\* A page has a last entry.
LEMMA LastFound ==
    ASSUME NEW S, Group(S), S # {}
    PROVE  LastOf(S) \in S /\ \A f \in S : f = LastOf(S) \/ Precedes(f, LastOf(S))
<1> DEFINE U(e) == {f \in S : Precedes(e, f)}
           T == {Cardinality(U(e)) : e \in S}
<1>1. S \subseteq Entry /\ IsFiniteSet(S)
  BY DEF Group
<1>2. ASSUME NEW e \in S PROVE IsFiniteSet(U(e)) /\ Cardinality(U(e)) \in Nat
  <2>1. IsFiniteSet(U(e))
    BY <1>1, FS_Subset
  <2> QED BY <2>1, FS_CardinalityType
<1>3. T \subseteq Nat /\ T # {}
  BY <1>2
<1>4. PICK x \in T : \A y \in T : x <= y
  <2> HIDE DEF T
  <2> QED BY <1>3, Least
<1>5. PICK e \in S : x = Cardinality(U(e))
  BY <1>4
<1>6. ASSUME NEW f \in S, f # e, ~Precedes(f, e) PROVE FALSE
  <2>1. Precedes(e, f) /\ e \in Entry /\ f \in Entry
    BY <1>6, GroupTotal
  <2>2. U(f) \subseteq U(e)
    <3> SUFFICES ASSUME NEW g \in S, Precedes(f, g) PROVE Precedes(e, g)
      OBVIOUS
    <3> QED BY <1>1, <2>1, EntryTrans
  <2>3. f \in U(e) /\ f \notin U(f)
    <3>1. ~Precedes(f, f)
      BY <2>1, EntryStrict
    <3> QED BY <1>6, <2>1, <3>1
  <2>4. Cardinality(U(f)) <= Cardinality(U(e)) /\ Cardinality(U(f)) # Cardinality(U(e))
    <3> DEFINE A == U(e)
               B == U(f)
    <3>1. IsFiniteSet(A) /\ B \in SUBSET A /\ A # B
      BY <1>2, <2>2, <2>3
    <3> HIDE DEF A, B
    <3>2. Cardinality(B) <= Cardinality(A) /\ Cardinality(B) # Cardinality(A)
      BY <3>1, FS_Subset
    <3> QED BY <3>2 DEF A, B
  <2>5. Cardinality(U(e)) <= Cardinality(U(f))
    BY <1>4, <1>5, <1>6
  <2>6. Cardinality(U(e)) \in Nat /\ Cardinality(U(f)) \in Nat
    BY <1>2, <1>6
  <2> HIDE DEF U
  <2> QED BY <2>4, <2>5, <2>6, SMTT(30)
<1>7. \E g \in S : \A f \in S : f = g \/ Precedes(f, g)
  BY <1>6
<1> HIDE DEF U, T
<1> QED BY <1>7 DEF LastOf

\* What is not in the page is behind what is.
LEMMA PageAhead ==
    ASSUME NEW S, Group(S), NEW g \in Page(S), NEW e \in S, e \notin Page(S)
    PROVE  Precedes(g, e)
<1> DEFINE B(h) == {f \in S : Precedes(f, h)}
<1>1. S \subseteq Entry /\ IsFiniteSet(S) /\ PageSize \in Nat
  BY SyncAssumption DEF Group
<1>2. g \in S /\ Cardinality(B(g)) < PageSize /\ ~(Cardinality(B(e)) < PageSize) /\ g # e
  BY DEF Page
<1>3. ASSUME Precedes(e, g) PROVE FALSE
  <2>1. B(e) \subseteq B(g)
    <3> SUFFICES ASSUME NEW f \in S, Precedes(f, e) PROVE Precedes(f, g)
      OBVIOUS
    <3> QED BY <1>1, <1>2, <1>3, EntryTrans
  <2>2. IsFiniteSet(B(g))
    BY <1>1, FS_Subset
  <2>3. Cardinality(B(e)) <= Cardinality(B(g)) /\ IsFiniteSet(B(e))
    <3> HIDE DEF B
    <3> QED BY <2>1, <2>2, FS_Subset
  <2>4. Cardinality(B(e)) \in Nat /\ Cardinality(B(g)) \in Nat
    <3> HIDE DEF B
    <3> QED BY <2>2, <2>3, FS_CardinalityType
  <2> HIDE DEF B
  <2> QED BY <1>1, <1>2, <2>3, <2>4, SMTT(30)
<1> QED BY <1>2, <1>3, GroupTotal

-----------------------------------------------------------------------------
(***************************************************************************)
(* Stores that change                                                      *)
(***************************************************************************)
\* What a step may do to the record q of a key, the clock showing c: nothing,
\* clean it, or put a later one there.
Cell(q, s, c) ==
    \/ s = q
    \/ q # NoRec /\ TooOld(q, c) /\ s = NoRec
    \/ s \in Record /\ ~TooOld(s, c) /\ (q # NoRec => HashLess(q, s))

\* What is expired stays so.
LEMMA TooOldLater ==
    ASSUME NEW r \in Record, NEW c \in Nat, NEW d \in Nat, c <= d, TooOld(r, c)
    PROVE  TooOld(r, d)
<1>1. r.ts \in Nat
  BY RecordParts
<1> QED BY <1>1, TtlAssumption, SMTT(30) DEF TooOld

\* A key behind the last hash stays there.
LEMMA BehindKept ==
    ASSUME NEW l \in Entry, NEW k \in Keys, NEW q \in Record \cup {NoRec},
           NEW s \in Record \cup {NoRec}, NEW c \in Nat, NEW d \in Nat, c <= d,
           Behind(l, k, q, c), Cell(q, s, c)
    PROVE  Behind(l, k, s, d)
<1> DEFINE r == l[2]
<1>1. r \in Record /\ r.ts \in Nat /\ Crc(r) \in Nat
  BY RecordParts DEF Entry
<1>2. CASE s = q
  <2>1. CASE q = NoRec
    BY <1>1, <1>2, <2>1, TooOldLater DEF Behind
  <2>2. CASE q # NoRec
    BY <1>2, <2>2 DEF Behind
  <2> QED BY <2>1, <2>2
<1>3. CASE q # NoRec /\ TooOld(q, c) /\ s = NoRec
  <2>1. q \in Record /\ q.ts \in Nat /\ Precedes(l, <<k, q>>)
    BY <1>3, RecordParts DEF Behind
  <2>2. r.ts <= q.ts
    BY <1>1, <2>1, SMTT(30) DEF Precedes, HashLess, SameHash
  <2>3. TooOld(r, c)
    <3> HIDE DEF r
    <3> QED BY <1>1, <1>3, <2>1, <2>2, TtlAssumption, SMTT(30) DEF TooOld
  <2> QED BY <1>1, <1>3, <2>3, TooOldLater DEF Behind
<1>4. CASE s \in Record /\ ~TooOld(s, c) /\ (q # NoRec => HashLess(q, s))
  <2>1. s.ts \in Nat /\ Crc(s) \in Nat /\ s # NoRec
    BY <1>4, RecordParts
  <2>2. CASE q = NoRec
    <3>1. TooOld(r, c)
      BY <2>2 DEF Behind
    <3>2. r.ts < s.ts
      <4> HIDE DEF r
      <4> QED BY <1>1, <1>4, <2>1, <3>1, TtlAssumption, SMTT(30) DEF TooOld
    <3> QED BY <2>1, <3>2 DEF Behind, Precedes, HashLess
  <2>3. CASE q # NoRec
    <3>1. q \in Record /\ q.ts \in Nat /\ Crc(q) \in Nat /\ HashLess(q, s)
      BY <1>4, <2>3, RecordParts
    <3>2. HashLess(r, q) \/ SameHash(r, q)
      BY <2>3 DEF Behind, Precedes
    <3>3. HashLess(r, s)
      <4> HIDE DEF r
      <4>1. CASE HashLess(r, q)
        BY <1>1, <1>4, <3>1, <4>1, HashTrans
      <4>2. CASE SameHash(r, q)
        BY <3>1, <4>2 DEF HashLess, SameHash
      <4> QED BY <3>2, <4>1, <4>2
    <3> QED BY <2>1, <3>3 DEF Behind, Precedes
  <2> QED BY <2>2, <2>3
<1> QED BY <1>2, <1>3, <1>4 DEF Cell

\* The clocks.
LEMMA Clocks ==
    ASSUME Typed, NEW n \in Nodes
    PROVE  Clock(n) = now + Skew[n] /\ Clock(n) \in Nat /\ Skew[n] \in Nat
  BY SyncAssumption, SMTT(30) DEF Typed, Clock

\* So no reader passes over a key when stores change.
LEMMA CoverKept ==
    ASSUME Typed, CoverOK(readers, db, now),
           NEW d \in [Nodes -> [Keys -> Record \cup {NoRec}]], NEW t \in Nat, now <= t,
           \A n \in Nodes, k \in Keys : Cell(db[n][k], d[n][k], now + Skew[n])
    PROVE  CoverOK(readers, d, t)
<1> SUFFICES ASSUME NEW r \in readers, NEW k \in r.due, r.last # Blank
             PROVE  Behind(r.last, k, d[r.at][k], t + Skew[r.at])
  BY DEF CoverOK
<1>1. r \in Reader
  BY DEF Typed
<1>2. r.at \in Nodes /\ r.last \in Entry /\ k \in Keys
  BY <1>1 DEF Reader
<1>3. /\ db[r.at][k] \in Record \cup {NoRec} /\ d[r.at][k] \in Record \cup {NoRec}
      /\ Cell(db[r.at][k], d[r.at][k], now + Skew[r.at])
  BY <1>2 DEF Typed
<1>4. now + Skew[r.at] \in Nat /\ t + Skew[r.at] \in Nat /\ now + Skew[r.at] <= t + Skew[r.at]
  <2>1. Skew[r.at] \in Nat /\ now \in Nat
    BY <1>2, SyncAssumption DEF Typed
  <2> QED BY <2>1, SMTT(30)
<1>5. Behind(r.last, k, db[r.at][k], now + Skew[r.at])
  BY DEF CoverOK
<1> DEFINE q == db[r.at][k]
           s == d[r.at][k]
           a == now + Skew[r.at]
           b == t + Skew[r.at]
<1>6. /\ q \in Record \cup {NoRec} /\ s \in Record \cup {NoRec} /\ Cell(q, s, a)
      /\ a \in Nat /\ b \in Nat /\ a <= b /\ Behind(r.last, k, q, a)
  BY <1>3, <1>4, <1>5
<1> HIDE DEF q, s, a, b
<1>7. Behind(r.last, k, s, b)
  BY <1>2, <1>6, BehindKept
<1> QED BY <1>7 DEF s, b

\* The newest record stays: nothing there is to put in its place.
LEMMA SurvivesKept ==
    ASSUME Typed, Survives(db, newest, now),
           NEW d \in [Nodes -> [Keys -> Record \cup {NoRec}]], NEW t \in Nat, now <= t,
           \A n \in Nodes, k \in Keys : Cell(db[n][k], d[n][k], now + Skew[n]),
           StoreOK(d, newest)
    PROVE  Survives(d, newest, t)
<1> SUFFICES ASSUME NEW k \in Keys, newest[k] # NoRec
             PROVE  \E n \in Nodes : d[n][k] = newest[k] \/ TooOld(newest[k], t + Skew[n])
  BY DEF Survives
<1> DEFINE w == newest[k]
<1>1. w \in Record
  BY DEF Typed
<1>2. PICK n \in Nodes : db[n][k] = w \/ TooOld(w, now + Skew[n])
  BY DEF Survives
<1>3. now + Skew[n] \in Nat /\ t + Skew[n] \in Nat /\ now + Skew[n] <= t + Skew[n]
  <2>1. Skew[n] \in Nat /\ now \in Nat
    BY SyncAssumption DEF Typed
  <2> QED BY <2>1, SMTT(30)
<1>4. ASSUME TooOld(w, now + Skew[n]) PROVE TooOld(w, t + Skew[n])
  BY <1>1, <1>3, <1>4, TooOldLater
<1>5. ASSUME db[n][k] = w
      PROVE  d[n][k] = w \/ TooOld(w, t + Skew[n])
  <2>1. Cell(w, d[n][k], now + Skew[n])
    BY <1>5
  <2>2. ASSUME d[n][k] \in Record, HashLess(w, d[n][k]) PROVE FALSE
    <3>1. AtMost(d[n][k], w)
      BY <2>2, RecordParts DEF StoreOK, Written
    <3> QED BY <1>1, <2>2, <3>1, HashStrict DEF AtMost
  <2> QED BY <1>1, <1>4, <2>1, <2>2, RecordParts DEF Cell
<1> QED BY <1>2, <1>4, <1>5

-----------------------------------------------------------------------------
(***************************************************************************)
(* The steps                                                               *)
(***************************************************************************)
\* A step that only reads and sends.
LEMMA Quiet ==
    ASSUME IInv, UNCHANGED <<now, db, newest>>, net' \subseteq Packet, readers' \subseteq Reader,
           NetOK(net', newest), CoverOK(readers', db, now)
    PROVE  IInv'
<1>1. Typed'
  BY DEF IInv, Typed
<1>2. StoreOK(db, newest)' /\ NewestOK(newest)' /\ Survives(db, newest, now)'
  BY DEF IInv, StoreOK, NewestOK, Survives, Written, AtMost
<1>3. NetOK(net, newest)' /\ CoverOK(readers, db, now)'
  BY DEF NetOK, CoverOK, PackOK, Written, AtMost, Behind
<1> QED BY <1>1, <1>2, <1>3 DEF IInv

\* A step of stores alone: time passes, records are cleaned or taken over.
LEMMA StoreStep ==
    ASSUME IInv, newest' = newest, readers' = readers, net' \subseteq net,
           db' \in [Nodes -> [Keys -> Record \cup {NoRec}]], now' \in Nat, now <= now',
           \A n \in Nodes, k \in Keys :
               Cell(db[n][k], db'[n][k], now + Skew[n]),
           StoreOK(db', newest)
    PROVE  IInv'
<1>1. Typed'
  BY DEF IInv, Typed
<1>2. CoverOK(readers, db', now')
  BY CoverKept DEF IInv
<1>3. Survives(db', newest, now')
  BY SurvivesKept DEF IInv
<1>4. NetOK(net', newest) /\ NewestOK(newest)
  BY DEF IInv, NetOK
<1>5. CoverOK(readers, db, now)' /\ Survives(db, newest, now)'
  BY <1>2, <1>3 DEF CoverOK, Survives, Behind
<1>6. StoreOK(db, newest)' /\ NetOK(net, newest)' /\ NewestOK(newest)'
  BY <1>4 DEF StoreOK, NetOK, NewestOK, PackOK, Written, AtMost
<1> QED BY <1>1, <1>5, <1>6 DEF IInv

\* A part of a pack is one, and so are the records of a node.
LEMMA Packs ==
    ASSUME IInv
    PROVE  /\ \A S, T : PackOK(S, newest) /\ T \subseteq S => PackOK(T, newest)
           /\ \A n \in Nodes : PackOK(Entries(n), newest)
<1>1. ASSUME NEW S, NEW T, PackOK(S, newest), T \subseteq S PROVE PackOK(T, newest)
  BY <1>1 DEF PackOK
<1>2. ASSUME NEW n \in Nodes PROVE PackOK(Entries(n), newest)
  <2>1. ASSUME NEW e \in Entries(n)
        PROVE  e[1] \in Keys /\ e[2] = db[n][e[1]] /\ e[2] # NoRec /\ e = <<e[1], e[2]>>
    BY SMTT(30) DEF Entries
  <2>2. ASSUME NEW e \in Entries(n) PROVE Written(e[1], e[2], newest)
    BY <2>1 DEF IInv, StoreOK
  <2>3. \A e, f \in Entries(n) : e[1] = f[1] => e = f
    BY <2>1, SMTT(30)
  <2> QED BY <2>2, <2>3 DEF PackOK
<1> QED BY <1>1, <1>2

LEMMA TickStep == ASSUME IInv, Tick PROVE IInv'
<1>1. now \in Nat /\ now' \in Nat /\ now <= now'
  BY SMTT(30) DEF IInv, Typed, Tick
<1>2. /\ newest' = newest /\ readers' = readers /\ net' = net /\ db' = db
      /\ db \in [Nodes -> [Keys -> Record \cup {NoRec}]] /\ StoreOK(db, newest)
  BY DEF Tick, IInv, Typed
<1>3. \A n \in Nodes, k \in Keys : Cell(db[n][k], db'[n][k], now + Skew[n])
  BY <1>2 DEF Cell
<1> QED BY <1>1, <1>2, <1>3, StoreStep

\* s_clean_old_obj_gdb_callback.
LEMMA CleanStep == ASSUME IInv, NEW n \in Nodes, Clean(n) PROVE IInv'
<1> DEFINE c == Clock(n)
<1>1. db \in [Nodes -> [Keys -> Record \cup {NoRec}]] /\ StoreOK(db, newest) /\ now \in Nat
  BY DEF IInv, Typed
<1>2. /\ db' = [db EXCEPT ![n] = [k \in Keys |->
             IF db[n][k] # NoRec /\ TooOld(db[n][k], c) THEN NoRec ELSE db[n][k]]]
      /\ newest' = newest /\ readers' = readers /\ net' = net /\ now' = now
  BY DEF Clean
<1>3. c = now + Skew[n]
  BY DEF Clock
<1> HIDE DEF c
<1>4. ASSUME NEW m \in Nodes, NEW k \in Keys
      PROVE  \/ db'[m][k] = db[m][k]
             \/ m = n /\ db[m][k] # NoRec /\ TooOld(db[m][k], c) /\ db'[m][k] = NoRec
  BY <1>1, <1>2
<1>5. db' \in [Nodes -> [Keys -> Record \cup {NoRec}]]
  BY <1>1, <1>2
<1>6. \A m \in Nodes, k \in Keys : Cell(db[m][k], db'[m][k], now + Skew[m])
  BY <1>3, <1>4 DEF Cell
<1>7. StoreOK(db', newest)
  BY <1>1, <1>4 DEF StoreOK
<1>8. now <= now'
  BY <1>1, <1>2, SMTT(30)
<1> QED BY <1>1, <1>2, <1>5, <1>6, <1>7, <1>8, StoreStep

\* s_process_records: a record of the pack is taken if it wins.
LEMMA RecordsStep == ASSUME IInv, NEW p \in net, Records(p) PROVE IInv'
<1> DEFINE n == p.to
           Won(k) == \E e \in p.data : e[1] = k /\ Wins(n, k, e[2])
           Of(k) == (CHOOSE e \in p.data : e[1] = k)[2]
<1>1. db \in [Nodes -> [Keys -> Record \cup {NoRec}]] /\ StoreOK(db, newest) /\ now \in Nat
  BY DEF IInv, Typed
<1>2. p \in Packet /\ n \in Nodes /\ p.data \subseteq Entry /\ PackOK(p.data, newest)
  BY DEF IInv, Typed, NetOK, Packet
<1>3. /\ db' = [db EXCEPT ![n] = [k \in Keys |-> IF Won(k) THEN Of(k) ELSE db[n][k]]]
      /\ newest' = newest /\ readers' = readers /\ net' \subseteq net /\ now' = now
  BY DEF Records
<1>4. ASSUME NEW k \in Keys, Won(k)
      PROVE  /\ Of(k) \in Record /\ Written(k, Of(k), newest)
             /\ ~TooOld(Of(k), Clock(n)) /\ (db[n][k] # NoRec => HashLess(db[n][k], Of(k)))
  <2>1. PICK e \in p.data : e[1] = k /\ Wins(n, k, e[2])
    BY <1>4
  <2>2. (CHOOSE f \in p.data : f[1] = k) = e
    <3>1. \A f \in p.data : f[1] = k => f = e
      BY <1>2, <2>1 DEF PackOK
    <3> QED BY <2>1, <3>1
  <2>3. Of(k) = e[2] /\ e[2] \in Record /\ Written(k, e[2], newest)
    BY <1>2, <2>1, <2>2 DEF PackOK, Entry
  <2>4. ~IsHash(db[n][k], e[2]) /\ ~ReceivedIsOlder(db[n][k], e[2]) /\ ~TooOld(e[2], Clock(n))
    BY <2>1 DEF Wins, Admitted
  <2>5. db[n][k] \in Record \cup {NoRec}
    BY <1>1, <1>2
  <2> HIDE DEF Of
  <2> QED BY <2>3, <2>4, <2>5, Follows
<1> HIDE DEF Won, Of, n
<1>5. ASSUME NEW m \in Nodes, NEW k \in Keys
      PROVE  db'[m][k] = db[m][k] \/ (m = n /\ Won(k) /\ db'[m][k] = Of(k))
  BY <1>1, <1>2, <1>3
<1>6. db' \in [Nodes -> [Keys -> Record \cup {NoRec}]]
  BY <1>1, <1>2, <1>3, <1>4
<1>7. \A m \in Nodes, k \in Keys : Cell(db[m][k], db'[m][k], now + Skew[m])
  <2>1. Clock(n) = now + Skew[n]
    BY DEF Clock
  <2> QED BY <1>4, <1>5, <2>1 DEF Cell
<1>8. StoreOK(db', newest)
  BY <1>1, <1>4, <1>5 DEF StoreOK
<1>9. now <= now' /\ now' \in Nat
  BY <1>1, <1>3, SMTT(30)
<1> QED BY <1>3, <1>6, <1>7, <1>8, <1>9, StoreStep

\* A record that is set has the time of the clock or a later one, and follows
\* the record that is there.
LEMMA SetFollows ==
    ASSUME NEW old \in Record \cup {NoRec}, NEW n \in Signers, NEW del \in BOOLEAN,
           NEW c \in Nat, NEW new \in Record, NEW obj,
           new = [ts |-> c, signer |-> n, del |-> del, pin |-> FALSE],
           obj = IF ReceivedIsOlder(old, new)
                 THEN [ts |-> old.ts + 1, signer |-> n, del |-> del, pin |-> FALSE] ELSE new,
           Admitted(old, new, c)
    PROVE  /\ obj \in Record /\ ~obj.pin /\ obj.ts >= c /\ obj.signer = n
           /\ old # NoRec => HashLess(old, obj)
<1>1. new.ts = c /\ new.signer = n /\ new.pin = FALSE
  OBVIOUS
<1>2. CASE ReceivedIsOlder(old, new)
  <2>1. old \in Record /\ old.ts \in Nat /\ HashLess(new, old)
    BY <1>2, RecordParts DEF ReceivedIsOlder
  <2>2. c <= old.ts
    BY <1>1, <2>1, SMTT(30) DEF HashLess
  <2>3. obj = [ts |-> old.ts + 1, signer |-> n, del |-> del, pin |-> FALSE]
    BY <1>2
  <2>4. /\ obj \in Record /\ obj.ts = old.ts + 1 /\ obj.pin = FALSE
        /\ obj.signer = n
    BY <2>1, <2>3, SMTT(30) DEF Record
  <2>5. HashLess(old, obj)
    BY <2>1, <2>4, SMTT(30) DEF HashLess
  <2> QED BY <2>1, <2>2, <2>4, <2>5, SMTT(30)
<1>3. CASE ~ReceivedIsOlder(old, new)
  <2>1. obj = new /\ ~IsHash(old, new)
    BY <1>3 DEF Admitted
  <2> QED BY <1>1, <1>3, <2>1, Follows, SMTT(30)
<1> QED BY <1>2, <1>3

\* dap_global_db_set and dap_global_db_del: what is written is later than what
\* was there, and the newest of all or older than that.
LEMMA SetStep ==
    ASSUME IInv, NEW n \in Nodes, NEW k \in Keys, NEW del \in BOOLEAN,
           NEW reached, reached \subseteq Nodes, Set(n, k, del, reached)
    PROVE  IInv'
<1> DEFINE old == db[n][k]
           new == [ts |-> Clock(n), signer |-> n, del |-> del, pin |-> FALSE]
           obj == IF ReceivedIsOlder(old, new) THEN [new EXCEPT !.ts = old.ts + 1] ELSE new
           w == newest[k]
           z == IF w = NoRec \/ HashLess(w, obj) THEN obj ELSE w
<1>1. /\ db \in [Nodes -> [Keys -> Record \cup {NoRec}]] /\ now \in Nat
      /\ newest \in [Keys -> Record \cup {NoRec}] /\ net \subseteq Packet /\ readers \subseteq Reader
      /\ old \in Record \cup {NoRec} /\ w \in Record \cup {NoRec}
  BY DEF IInv, Typed
<1>2. /\ Admitted(old, new, Clock(n))
      /\ db' = [db EXCEPT ![n][k] = obj]
      /\ net' = net \cup Broadcast(n, k, obj, reached)
      /\ now' = now /\ readers' = readers
      /\ newest' = [newest EXCEPT ![k] = z]
  BY DEF Set
<1>3. Clock(n) \in Nat /\ Clock(n) = now + Skew[n] /\ n \in Signers
  BY Clocks, SyncAssumption DEF IInv
<1>4. new \in Record /\ new.ts = Clock(n) /\ new.pin = FALSE
  BY <1>3 DEF Record
<1>4a. /\ new = [ts |-> Clock(n), signer |-> n, del |-> del, pin |-> FALSE]
       /\ obj = IF ReceivedIsOlder(old, new)
                THEN [ts |-> old.ts + 1, signer |-> n, del |-> del, pin |-> FALSE] ELSE new
  <2>1. ASSUME ReceivedIsOlder(old, new)
        PROVE  obj = [ts |-> old.ts + 1, signer |-> n, del |-> del, pin |-> FALSE]
    BY <2>1
  <2>2. ASSUME ~ReceivedIsOlder(old, new) PROVE obj = new
    BY <2>2
  <2>3. new = [ts |-> Clock(n), signer |-> n, del |-> del, pin |-> FALSE]
    OBVIOUS
  <2> HIDE DEF obj, new
  <2> QED BY <2>1, <2>2, <2>3
<1> HIDE DEF obj, new
<1>5. /\ obj \in Record /\ ~obj.pin /\ obj.ts >= Clock(n)
      /\ old # NoRec => HashLess(old, obj)
  BY <1>1, <1>2, <1>3, <1>4, <1>4a, SetFollows, SMTT(30)
<1>6. ~TooOld(obj, Clock(n))
  <2>1. obj.ts \in Nat
    BY <1>5, RecordParts
  <2> QED BY <1>3, <1>5, <2>1, TtlAssumption, SMTT(30) DEF TooOld
<1>7. /\ z \in Record /\ ~z.pin /\ AtMost(obj, z)
      /\ w # NoRec => AtMost(w, z)
      /\ z = obj \/ (z = w /\ w # NoRec /\ HashLess(obj, w))
  <2>1. CASE w = NoRec \/ HashLess(w, obj)
    BY <1>5, <2>1 DEF AtMost
  <2>2. CASE ~(w = NoRec \/ HashLess(w, obj))
    <3>1. w \in Record /\ ~w.pin /\ z = w
      BY <1>1, <2>2 DEF IInv, NewestOK
    <3>2. HashLess(obj, w) \/ SameHash(obj, w)
      BY <1>5, <2>2, <3>1, HashTotal DEF SameHash
    <3>3. obj.pin = w.pin
      BY <1>5, <3>1, RecordParts
    <3>4. HashLess(obj, w) \/ obj = w
      BY <1>5, <3>1, <3>2, <3>3, SameRecord
    <3> QED BY <2>2, <3>1, <3>4 DEF AtMost
  <2> QED BY <2>1, <2>2
<1> HIDE DEF z, w
<1>8. /\ newest' \in [Keys -> Record \cup {NoRec}] /\ newest'[k] = z
      /\ \A j \in Keys : j # k => newest'[j] = newest[j]
  BY <1>1, <1>2, <1>7
<1>9. /\ db' \in [Nodes -> [Keys -> Record \cup {NoRec}]] /\ db'[n][k] = obj
      /\ \A m \in Nodes, j \in Keys : m # n \/ j # k => db'[m][j] = db[m][j]
  BY <1>1, <1>2, <1>5
<1>10. ASSUME NEW j \in Keys, NEW r \in Record, Written(j, r, newest)
       PROVE  Written(j, r, newest')
  <2>1. CASE j # k
    BY <1>8, <1>10, <2>1 DEF Written
  <2>2. CASE j = k
    <3>1. ~r.pin /\ w # NoRec /\ AtMost(r, w) /\ w \in Record
      BY <1>1, <1>10, <2>2 DEF Written, w
    <3>2. AtMost(r, z)
      BY <1>7, <3>1, HashTrans DEF AtMost
    <3> QED BY <1>7, <1>8, <2>2, <3>1, <3>2, RecordParts DEF Written
  <2> QED BY <2>1, <2>2
<1>11. Written(k, obj, newest')
  BY <1>5, <1>7, <1>8, RecordParts DEF Written
<1>12. StoreOK(db', newest')
  <2> SUFFICES ASSUME NEW m \in Nodes, NEW j \in Keys, db'[m][j] # NoRec
               PROVE  Written(j, db'[m][j], newest')
    BY DEF StoreOK
  <2>1. CASE m = n /\ j = k
    BY <1>9, <1>11, <2>1
  <2>2. CASE ~(m = n /\ j = k)
    <3>1. db'[m][j] = db[m][j] /\ db[m][j] \in Record
      BY <1>1, <1>9, <2>2, SMTT(30)
    <3>2. Written(j, db[m][j], newest)
      BY <3>1 DEF IInv, StoreOK
    <3> QED BY <1>10, <3>1, <3>2
  <2> QED BY <2>1, <2>2
<1>13. net' \subseteq Packet
  <2>1. <<k, obj>> \in Entry
    BY <1>5 DEF Entry
  <2>2. Broadcast(n, k, obj, reached) \subseteq Packet
    BY <2>1, SMTT(30) DEF Broadcast, Msg, Packet
  <2> QED BY <1>1, <1>2, <2>2
<1>14. NetOK(net', newest')
  <2> SUFFICES ASSUME NEW p \in net' PROVE PackOK(p.data, newest')
    BY DEF NetOK
  <2>1. CASE p \in net
    <3>1. PackOK(p.data, newest) /\ p.data \subseteq Entry
      BY <1>1, <2>1 DEF IInv, NetOK, Packet
    <3>2. ASSUME NEW e \in p.data PROVE Written(e[1], e[2], newest')
      BY <1>10, <3>1 DEF PackOK, Entry
    <3> QED BY <3>1, <3>2 DEF PackOK
  <2>2. CASE p \in Broadcast(n, k, obj, reached)
    <3>1. p.data = {<<k, obj>>}
      BY <2>2, SMTT(30) DEF Broadcast, Msg
    <3> QED BY <1>11, <3>1, SMTT(30) DEF PackOK
  <2> QED BY <1>2, <2>1, <2>2
<1>15. NewestOK(newest')
  BY <1>7, <1>8 DEF IInv, NewestOK
<1>16. Survives(db', newest', now)
  <2> SUFFICES ASSUME NEW j \in Keys, newest'[j] # NoRec
               PROVE  \E m \in Nodes : db'[m][j] = newest'[j] \/ TooOld(newest'[j], now + Skew[m])
    BY DEF Survives
  <2>1. CASE j # k
    <3>1. newest'[j] = newest[j] /\ \A m \in Nodes : db'[m][j] = db[m][j]
      BY <1>8, <1>9, <2>1
    <3> QED BY <3>1 DEF IInv, Survives
  <2>2. CASE j = k /\ z = obj
    BY <1>8, <1>9, <2>2
  <2>3. CASE j = k /\ z = w /\ w # NoRec /\ HashLess(obj, w)
    <3>1. PICK m \in Nodes : db[m][k] = w \/ TooOld(w, now + Skew[m])
      BY <2>3 DEF IInv, Survives, w
    <3>2. ASSUME db[m][k] = w PROVE m # n
      <4>1. ASSUME m = n PROVE FALSE
        <5>1. old = w /\ HashLess(old, obj)
          BY <1>5, <2>3, <3>2, <4>1
        <5> QED BY <1>1, <1>5, <2>3, <5>1, HashStrict
      <4> QED BY <4>1
    <3> QED BY <1>8, <1>9, <2>3, <3>1, <3>2
  <2> QED BY <1>7, <2>1, <2>2, <2>3
<1>17. CoverOK(readers, db', now)
  <2>1. \A m \in Nodes, j \in Keys : Cell(db[m][j], db'[m][j], now + Skew[m])
    <3> SUFFICES ASSUME NEW m \in Nodes, NEW j \in Keys
                 PROVE  Cell(db[m][j], db'[m][j], now + Skew[m])
      OBVIOUS
    <3>1. CASE m = n /\ j = k
      BY <1>3, <1>5, <1>6, <1>9, <3>1 DEF Cell
    <3>2. CASE ~(m = n /\ j = k)
      BY <1>9, <3>2 DEF Cell
    <3> QED BY <3>1, <3>2
  <2>2. now <= now
    BY <1>1, SMTT(30)
  <2> QED BY <1>1, <1>9, <2>1, <2>2, CoverKept DEF IInv
<1>18. Typed'
  BY <1>1, <1>2, <1>8, <1>9, <1>13 DEF Typed
<1>19. Survives(db, newest, now)' /\ CoverOK(readers, db, now)'
  BY <1>2, <1>16, <1>17 DEF Survives, CoverOK, Behind
<1>20. StoreOK(db, newest)' /\ NetOK(net, newest)' /\ NewestOK(newest)'
  BY <1>12, <1>14, <1>15 DEF StoreOK, NetOK, NewestOK, PackOK, Written, AtMost
<1> QED BY <1>18, <1>19, <1>20 DEF IInv

-----------------------------------------------------------------------------
(***************************************************************************)
(* Readers and packets                                                     *)
(***************************************************************************)
\* A reader that begins has nothing behind it.
LEMMA NewReaderOK ==
    ASSUME IInv, NEW type \in {"START", "GROUP_REQUEST", "GET_ALL"},
           NEW n \in Nodes, NEW m \in Nodes,
           readers' = readers \cup {NewReader(type, n, m)}
    PROVE  readers' \subseteq Reader /\ CoverOK(readers', db, now)
<1> DEFINE r == NewReader(type, n, m)
<1>1. KeysOf(Shown(type, n)) \subseteq Keys
  BY SMTT(30) DEF KeysOf, Shown, Entries
<1>2. r \in Reader /\ r.last = Blank
  BY <1>1 DEF NewReader, Reader
<1>3. readers \subseteq Reader /\ CoverOK(readers, db, now)
  BY DEF IInv, Typed
<1> HIDE DEF r
<1>4. readers' = readers \cup {r}
  BY DEF r
<1> QED BY <1>2, <1>3, <1>4 DEF CoverOK

\* A key that is due and shown is behind the last hash.
LEMMA DueBehind ==
    ASSUME IInv, NEW r \in readers, NEW e \in Shown(r.type, r.at), e[1] \in r.due
    PROVE  e \in After(r)
<1>1. e[1] \in Keys /\ e[2] = db[r.at][e[1]] /\ e[2] # NoRec /\ e = <<e[1], e[2]>>
  BY SMTT(30) DEF Shown, Entries
<1>2. r.last = Blank \/ Behind(r.last, e[1], db[r.at][e[1]], now + Skew[r.at])
  BY DEF IInv, CoverOK
<1>3. r.last = Blank \/ Precedes(r.last, e)
  BY <1>1, <1>2 DEF Behind
<1> QED BY <1>3 DEF After

\* A reader that turned a page has passed over no key.
LEMMA TurnedOK ==
    ASSUME IInv, NEW r \in readers, NEW page, page = Page(After(r)), page # {}
    PROVE  /\ Turned(r, page) \in Reader
           /\ \A k \in Turned(r, page).due :
                Behind(Turned(r, page).last, k, db[r.at][k], now + Skew[r.at])
           /\ Turned(r, page).at = r.at
<1> DEFINE S == After(r)
           u == Turned(r, page)
           l == LastOf(page)
<1>1. r \in Reader /\ Typed
  BY DEF IInv, Typed
<1>2. r.at \in Nodes /\ r.to \in Nodes /\ r.due \subseteq Keys
      /\ r.type \in {"START", "GROUP_REQUEST", "GET_ALL"}
  BY <1>1 DEF Reader
<1>3. Group(S)
  <2>1. Group(Shown(r.type, r.at))
    BY <1>1, <1>2, EntriesGroup
  <2>2. S \subseteq Shown(r.type, r.at)
    BY DEF After
  <2> QED BY <2>1, <2>2, PartOfGroup
<1>4. page \subseteq S /\ Group(page)
  <2>1. page \subseteq S
    BY DEF Page
  <2> QED BY <1>3, <2>1, PartOfGroup
<1>5. l \in page /\ l \in Entry
  <2>1. l \in page
    BY <1>4, LastFound
  <2> QED BY <1>4, <2>1 DEF Group
<1>6. /\ u.at = r.at /\ u.to = r.to /\ u.type = r.type /\ u.last = l
      /\ u.due = (r.due \ KeysOf(page)) \cap KeysOf(Shown(r.type, r.at))
      /\ u \in Reader
  <2> DEFINE D == (r.due \ KeysOf(page)) \cap KeysOf(Shown(r.type, r.at))
  <2>1. D \subseteq Keys
    BY <1>2
  <2>2. u = [r EXCEPT !.last = l, !.due = D]
    BY DEF Turned
  <2> HIDE DEF D, u, l
  <2>3. u.at = r.at /\ u.to = r.to /\ u.type = r.type /\ u.last = l /\ u.due = D /\ u \in Reader
    BY <1>1, <1>5, <2>1, <2>2 DEF Reader
  <2> QED BY <2>3 DEF D
<1> HIDE DEF u
<1>7. ASSUME NEW k \in u.due PROVE Behind(u.last, k, db[r.at][k], now + Skew[r.at])
  <2>1. k \in r.due /\ k \notin KeysOf(page) /\ k \in KeysOf(Shown(r.type, r.at))
    BY <1>6
  <2>2. PICK e \in Shown(r.type, r.at) : k = e[1]
    BY <2>1 DEF KeysOf
  <2>3. e[2] = db[r.at][k] /\ e[2] # NoRec /\ e = <<k, db[r.at][k]>>
    BY <2>2, SMTT(30) DEF Shown, Entries
  <2>4. e \in S /\ e \notin page
    <3>1. e \in S
      BY <2>1, <2>2, DueBehind
    <3>2. e \notin page
      BY <2>1, <2>2 DEF KeysOf
    <3> QED BY <3>1, <3>2
  <2>5. Precedes(l, e)
    <3> HIDE DEF S, l
    <3>1. page = Page(S)
      BY DEF S
    <3> QED BY <1>3, <1>5, <2>4, <3>1, PageAhead
  <2> QED BY <1>6, <2>3, <2>5 DEF Behind
<1> QED BY <1>6, <1>7 DEF u

\* What becomes of the readers when one has read a page.
LEMMA ReadersTurn ==
    ASSUME IInv, NEW r \in readers, NEW page, NEW full \in BOOLEAN,
           full => page = Page(After(r)) /\ page # {},
           readers' = (readers \ {r}) \cup (IF full THEN {Turned(r, page)} ELSE {})
    PROVE  readers' \subseteq Reader /\ CoverOK(readers', db, now)
<1>1. readers \subseteq Reader /\ CoverOK(readers, db, now)
  BY DEF IInv, Typed
<1>2. CASE ~full
  <2>1. readers' \subseteq readers
    BY <1>2
  <2> QED BY <1>1, <2>1 DEF CoverOK
<1>3. CASE full
  <2> DEFINE u == Turned(r, page)
  <2>1. /\ u \in Reader /\ u.at = r.at
        /\ \A k \in u.due : Behind(u.last, k, db[r.at][k], now + Skew[r.at])
    BY <1>3, TurnedOK
  <2>2. readers' \subseteq readers \cup {u}
    BY <1>3
  <2> HIDE DEF u
  <2> QED BY <1>1, <2>1, <2>2 DEF CoverOK
<1> QED BY <1>2, <1>3

\* A full page is not empty.
LEMMA FullPage == ASSUME NEW page, Cardinality(page) = PageSize PROVE page # {}
  BY FS_EmptySet, SyncAssumption

\* A packet more, or fewer, with a pack in it.
LEMMA SendOK ==
    ASSUME IInv, NEW q, q \in Packet, PackOK(q.data, newest), net' \subseteq net \cup {q}
    PROVE  net' \subseteq Packet /\ NetOK(net', newest)
<1>1. net \subseteq Packet /\ NetOK(net, newest)
  BY DEF IInv, Typed
<1> QED BY <1>1 DEF NetOK

\* Fewer packets.
LEMMA DropOK ==
    ASSUME IInv, net' \subseteq net
    PROVE  net' \subseteq Packet /\ NetOK(net', newest)
  BY DEF IInv, Typed, NetOK

\* The readers as they are.
LEMMA ReadersSame ==
    ASSUME IInv, readers' \subseteq readers
    PROVE  readers' \subseteq Reader /\ CoverOK(readers', db, now)
  BY DEF IInv, Typed, CoverOK

\* What a packet carries.
LEMMA PacketParts ==
    ASSUME IInv, NEW p \in net
    PROVE  p.from \in Nodes /\ p.to \in Nodes /\ p.data \subseteq Entry /\ PackOK(p.data, newest)
  BY DEF IInv, Typed, NetOK, Packet

\* A message between two nodes.
LEMMA MsgParts ==
    ASSUME NEW type \in {"START", "GROUP_REQUEST", "HASHES", "REQUEST", "RECORD_PACK", "GOSSIP"},
           NEW n \in Nodes, NEW m \in Nodes, NEW data, data \subseteq Entry
    PROVE  Msg(type, n, m, data) \in Packet /\ Msg(type, n, m, data).data = data
  BY DEF Msg, Packet

\* The records of a node are entries.
LEMMA EntriesTyped == ASSUME IInv, NEW n \in Nodes PROVE Entries(n) \subseteq Entry
  BY EntriesGroup DEF IInv, Group

\* s_gdb_cluster_sync_timer_callback.
LEMMA StartStep == ASSUME IInv, NEW n \in Nodes, NEW m \in Nodes, Start(n, m) PROVE IInv'
<1> DEFINE q == Msg("START", n, m, {})
<1>1. q \in Packet /\ q.data = {}
  BY MsgParts, SMTT(30)
<1>2. net' \subseteq net \cup {q} /\ readers' = readers /\ UNCHANGED <<now, db, newest>>
  BY DEF Start
<1> HIDE DEF q
<1>3. PackOK(q.data, newest)
  BY <1>1 DEF PackOK
<1> QED BY <1>1, <1>2, <1>3, SendOK, ReadersSame, Quiet

LEMMA GetAllStep == ASSUME IInv, NEW n \in Nodes, GetAll(n) PROVE IInv'
<1>1. /\ readers' = readers \cup {NewReader("GET_ALL", n, n)} /\ net' = net
      /\ UNCHANGED <<now, db, newest>>
  BY DEF GetAll
<1>2. readers' \subseteq Reader /\ CoverOK(readers', db, now)
  BY <1>1, NewReaderOK
<1> QED BY <1>1, <1>2, DropOK, Quiet

LEMMA BeginReaderStep == ASSUME IInv, NEW p \in net, BeginReader(p) PROVE IInv'
<1>1. /\ p.type \in {"START", "GROUP_REQUEST", "GET_ALL"} /\ net' \subseteq net
      /\ readers' = readers \cup {NewReader(p.type, p.to, p.from)}
      /\ UNCHANGED <<now, db, newest>>
  BY DEF BeginReader
<1>2. readers' \subseteq Reader /\ CoverOK(readers', db, now)
  BY <1>1, NewReaderOK, PacketParts
<1> QED BY <1>1, <1>2, DropOK, Quiet

\* s_process_hashes
LEMMA HashesStep == ASSUME IInv, NEW p \in net, Hashes(p) PROVE IInv'
<1> DEFINE S == Missing(p.to, p.data)
           q == Msg("REQUEST", p.to, p.from, S)
<1>1. S \subseteq p.data
  BY DEF Missing
<1>2. net' \subseteq net \cup {q} /\ readers' = readers /\ UNCHANGED <<now, db, newest>>
  BY DEF Hashes
<1>3. PackOK(S, newest) /\ S \subseteq Entry
  BY <1>1, Packs, PacketParts
<1> HIDE DEF S
<1>4. q \in Packet /\ q.data = S
  BY <1>3, MsgParts, PacketParts, SMTT(30)
<1> HIDE DEF q
<1> QED BY <1>2, <1>3, <1>4, SendOK, ReadersSame, Quiet

\* s_process_request
LEMMA RequestStep == ASSUME IInv, NEW p \in net, Request(p) PROVE IInv'
<1> DEFINE S == GetByHash(p.to, p.data)
           q == Msg("RECORD_PACK", p.to, p.from, S)
<1>1. S \subseteq p.data
  BY DEF GetByHash
<1>2. net' \subseteq net \cup {q} /\ readers' = readers /\ UNCHANGED <<now, db, newest>>
  BY DEF Request
<1>3. PackOK(S, newest) /\ S \subseteq Entry
  BY <1>1, Packs, PacketParts
<1> HIDE DEF S
<1>4. q \in Packet /\ q.data = S
  BY <1>3, MsgParts, PacketParts, SMTT(30)
<1> HIDE DEF q
<1> QED BY <1>2, <1>3, <1>4, SendOK, ReadersSame, Quiet

\* One page of s_proc_thread_reader.
LEMMA ReadPageStep == ASSUME IInv, NEW r \in readers, ReadPage(r) PROVE IInv'
<1> DEFINE page == Page(After(r))
           S == {e \in page : ~TooOld(e[2], Clock(r.at))}
           full == Cardinality(page) = PageSize
           q == Msg("HASHES", r.at, r.to, S)
<1>1. /\ page # {} /\ net' \subseteq net \cup {q}
      /\ readers' = (readers \ {r}) \cup (IF full THEN {Turned(r, page)} ELSE {})
      /\ UNCHANGED <<now, db, newest>>
  BY DEF ReadPage
<1>2. r.at \in Nodes /\ r.to \in Nodes
  BY DEF IInv, Typed, Reader
<1>3. S \subseteq Entries(r.at)
  BY DEF Page, After, Shown
<1>4. PackOK(S, newest) /\ S \subseteq Entry
  BY <1>2, <1>3, Packs, EntriesTyped
<1>5. readers' \subseteq Reader /\ CoverOK(readers', db, now)
  <2>1. full \in BOOLEAN /\ page = Page(After(r))
    OBVIOUS
  <2> HIDE DEF full, page
  <2> QED BY <1>1, <2>1, ReadersTurn
<1> HIDE DEF S, full, page
<1>6. q \in Packet /\ q.data = S
  BY <1>2, <1>4, MsgParts, SMTT(30)
<1> HIDE DEF q
<1> QED BY <1>1, <1>4, <1>5, <1>6, SendOK, Quiet

LEMMA ReadNothingStep == ASSUME IInv, NEW r \in readers, ReadNothing(r) PROVE IInv'
<1> DEFINE q == Msg("GROUP_REQUEST", r.at, r.to, {})
<1>1. net' \subseteq net \cup {q} /\ readers' \subseteq readers /\ UNCHANGED <<now, db, newest>>
  BY DEF ReadNothing
<1>2. r.at \in Nodes /\ r.to \in Nodes
  BY DEF IInv, Typed, Reader
<1>3. q \in Packet /\ q.data = {}
  BY <1>2, MsgParts, SMTT(30)
<1> HIDE DEF q
<1>4. PackOK(q.data, newest)
  BY <1>3 DEF PackOK
<1> QED BY <1>1, <1>3, <1>4, SendOK, ReadersSame, Quiet

\* One page of s_msg_opcode_get_all.
LEMMA GetAllPageStep ==
    ASSUME IInv, NEW r \in readers, NEW more \in BOOLEAN, GetAllPage(r, more) PROVE IInv'
<1> DEFINE page == IF r.last = Blank /\ Count(r.type, r.at) = 0 THEN {} ELSE Page(After(r))
           full == more /\ Cardinality(page) = PageSize
<1>1. /\ net' = net /\ UNCHANGED <<now, db, newest>>
      /\ readers' = (readers \ {r}) \cup (IF full THEN {Turned(r, page)} ELSE {})
  BY DEF GetAllPage
<1>2. full => page = Page(After(r)) /\ page # {}
  <2>1. page = {} \/ page = Page(After(r))
    OBVIOUS
  <2>2. full => page # {}
    <3> HIDE DEF page
    <3> QED BY FullPage
  <2> QED BY <2>1, <2>2
<1>3. full \in BOOLEAN
  OBVIOUS
<1> HIDE DEF page, full
<1>4. readers' \subseteq Reader /\ CoverOK(readers', db, now)
  BY <1>1, <1>2, <1>3, ReadersTurn
<1> QED BY <1>1, <1>4, DropOK, Quiet

-----------------------------------------------------------------------------
LEMMA InitOK == Init => IInv
<1> SUFFICES ASSUME Init PROVE IInv
  OBVIOUS
<1>1. Typed
  BY DEF Init, Typed
<1>2. StoreOK(db, newest) /\ NewestOK(newest) /\ Survives(db, newest, now)
  BY DEF Init, StoreOK, NewestOK, Survives
<1>3. NetOK(net, newest) /\ CoverOK(readers, db, now)
  BY DEF Init, NetOK, CoverOK
<1> QED BY <1>1, <1>2, <1>3 DEF IInv

\* Every step keeps the invariant.
LEMMA NextOK == IInv /\ [Next]_vars => IInv'
<1> SUFFICES ASSUME IInv, [Next]_vars PROVE IInv'
  OBVIOUS
<1>1. CASE Tick
  BY <1>1, TickStep
<1>2. ASSUME NEW n \in Nodes, NEW k \in Keys, NEW del \in DelFlags, NEW reached \in Reach,
             Set(n, k, del, reached \ {n})
      PROVE  IInv'
  <2>1. del \in BOOLEAN /\ reached \ {n} \subseteq Nodes
    BY SyncAssumption
  <2> QED BY <1>2, <2>1, SetStep
<1>3. ASSUME NEW n \in Nodes, Clean(n) \/ Idle(n) \/ GetAll(n) PROVE IInv'
  <2>1. CASE Clean(n)
    BY <2>1, CleanStep
  <2>2. CASE Idle(n)
    <3>1. net' = net /\ readers' = readers /\ UNCHANGED <<now, db, newest>>
      BY <2>2 DEF Idle
    <3> QED BY <3>1, DropOK, ReadersSame, Quiet
  <2>3. CASE GetAll(n)
    BY <2>3, GetAllStep
  <2> QED BY <1>3, <2>1, <2>2, <2>3
<1>4. ASSUME NEW n \in Nodes, NEW m \in Nodes, Start(n, m) PROVE IInv'
  BY <1>4, StartStep
<1>5. ASSUME NEW p \in net, PacketIn(p) \/ Lose(p) PROVE IInv'
  <2>1. CASE Lose(p)
    <3>1. net' \subseteq net /\ readers' = readers /\ UNCHANGED <<now, db, newest>>
      BY <2>1 DEF Lose
    <3> QED BY <3>1, DropOK, ReadersSame, Quiet
  <2>2. CASE PacketIn(p)
    BY <2>2, BeginReaderStep, HashesStep, RequestStep, RecordsStep DEF PacketIn
  <2> QED BY <1>5, <2>1, <2>2
<1>6. ASSUME NEW r \in readers, ProcThread(r) PROVE IInv'
  BY <1>6, ReadPageStep, ReadNothingStep, GetAllPageStep DEF ProcThread
<1>7. CASE UNCHANGED vars
  <2>1. net' = net /\ readers' = readers /\ UNCHANGED <<now, db, newest>>
    BY <1>7 DEF vars
  <2> QED BY <2>1, DropOK, ReadersSame, Quiet
<1> QED BY <1>1, <1>2, <1>3, <1>4, <1>5, <1>6, <1>7 DEF Next

\* While records are set, deleted, replaced by those of peers and cleaned under
\* it, no reader of s_proc_thread_reader and of s_msg_opcode_get_all passes over
\* a key that keeps a record: for every page size, number of keys and nodes.
THEOREM PagingCovers == Spec => []ReaderCovers
<1>1. IInv => ReaderCovers
  BY DueBehind DEF ReaderCovers
<1> QED BY <1>1, InitOK, NextOK, PTL DEF Spec

\* However packets are lost or late and however clocks differ, some store keeps
\* the newest record of a key until it is expired there (s_store_obj_apply on
\* what s_process_records gives it).
THEOREM NewestRecordSurvives == Spec => []NewestSurvives
<1>1. IInv => NewestSurvives
  BY DEF IInv, Survives, NewestSurvives, Clock
<1> QED BY <1>1, InitOK, NextOK, PTL DEF Spec

-----------------------------------------------------------------------------
(***************************************************************************)
(* The promise of GdbStore, for every node and key                         *)
(***************************************************************************)
\* History: the last record that was under a key of a node.
VARIABLE past

PastInit == past = [n \in Nodes |-> [k \in Keys |-> NoRec]]

PastNext ==
    past' = [n \in Nodes |-> [k \in Keys |->
                IF db'[n][k] = NoRec THEN past[n][k] ELSE db'[n][k]]]

PastSpec == PastInit /\ [][PastNext]_<<vars, past>>

Store(n, k) ==
    INSTANCE GdbStore WITH
        rec <- db[n][k], last <- past[n][k], clock <- Clock(n), MayDrop <- FALSE

\* A key without a record had none, or one that has expired on its node.
PastOK ==
    /\ past \in [Nodes -> [Keys -> Record \cup {NoRec}]]
    /\ \A n \in Nodes, k \in Keys :
          IF db[n][k] # NoRec THEN past[n][k] = db[n][k]
          ELSE past[n][k] # NoRec => TooOld(past[n][k], Clock(n))

\* A record that is taken is not expired, follows the one that is there and is
\* signed by one who may put it there.
Taken(n, k) ==
    /\ db'[n][k] \in Record /\ ~TooOld(db'[n][k], Clock(n))
    /\ db[n][k] # NoRec => HashLess(db[n][k], db'[n][k])
    /\ MayWrite(db'[n][k]) /\ MayRewrite(db[n][k], db'[n][k])

Cleaned(n, k) == db[n][k] # NoRec /\ TooOld(db[n][k], Clock(n)) /\ db'[n][k] = NoRec

Moves(n, k) == db'[n][k] = db[n][k] \/ Cleaned(n, k) \/ Taken(n, k)

\* dap_global_db_set and dap_global_db_del.
LEMMA SetMoves ==
    ASSUME IInv, NEW n \in Nodes, NEW k \in Keys, NEW del \in BOOLEAN, NEW reached,
           Set(n, k, del, reached), NEW m \in Nodes, NEW j \in Keys
    PROVE  Moves(m, j)
<1> DEFINE old == db[n][k]
           new == [ts |-> Clock(n), signer |-> n, del |-> del, pin |-> FALSE]
           obj == IF ReceivedIsOlder(old, new) THEN [new EXCEPT !.ts = old.ts + 1] ELSE new
<1>1. db \in [Nodes -> [Keys -> Record \cup {NoRec}]] /\ old \in Record \cup {NoRec}
  BY DEF IInv, Typed
<1>2. Admitted(old, new, Clock(n)) /\ db' = [db EXCEPT ![n][k] = obj]
  BY DEF Set
<1>3. Clock(n) \in Nat /\ n \in Signers
  BY Clocks, SyncAssumption DEF IInv
<1>4. new \in Record /\ new.ts = Clock(n) /\ new.signer = n
  BY <1>3 DEF Record
<1>5. /\ new = [ts |-> Clock(n), signer |-> n, del |-> del, pin |-> FALSE]
      /\ obj = IF ReceivedIsOlder(old, new)
               THEN [ts |-> old.ts + 1, signer |-> n, del |-> del, pin |-> FALSE] ELSE new
  <2>1. ASSUME ReceivedIsOlder(old, new)
        PROVE  obj = [ts |-> old.ts + 1, signer |-> n, del |-> del, pin |-> FALSE]
    BY <2>1
  <2>2. ASSUME ~ReceivedIsOlder(old, new) PROVE obj = new
    BY <2>2
  <2>3. new = [ts |-> Clock(n), signer |-> n, del |-> del, pin |-> FALSE]
    OBVIOUS
  <2> HIDE DEF obj, new
  <2> QED BY <2>1, <2>2, <2>3
<1> HIDE DEF obj, new
<1>6. /\ obj \in Record /\ obj.ts >= Clock(n) /\ obj.signer = n
      /\ old # NoRec => HashLess(old, obj)
  BY <1>1, <1>2, <1>3, <1>4, <1>5, SetFollows, SMTT(30)
<1>7. ~TooOld(obj, Clock(n))
  <2>1. obj.ts \in Nat
    BY <1>6, RecordParts
  <2> QED BY <1>3, <1>6, <2>1, TtlAssumption, SMTT(30) DEF TooOld
<1>8. MayWrite(obj) /\ MayRewrite(old, obj)
  BY <1>2, <1>4, <1>6 DEF Admitted, MayWrite, MayRewrite, OwnsAsRoot
<1> HIDE DEF old
<1>9. CASE m = n /\ j = k
  <2>1. db'[m][j] = obj /\ db[m][j] = old
    BY <1>1, <1>2, <1>9 DEF old
  <2> QED BY <1>6, <1>7, <1>8, <1>9, <2>1 DEF Moves, Taken
<1>10. CASE ~(m = n /\ j = k)
  <2>1. db'[m][j] = db[m][j]
    BY <1>1, <1>2, <1>10
  <2> QED BY <2>1 DEF Moves
<1> QED BY <1>9, <1>10

\* s_process_records.
LEMMA RecordsMoves ==
    ASSUME IInv, NEW p \in net, Records(p), NEW m \in Nodes, NEW k \in Keys
    PROVE  Moves(m, k)
<1> DEFINE n == p.to
           Won == \E e \in p.data : e[1] = k /\ Wins(n, k, e[2])
           Of == (CHOOSE e \in p.data : e[1] = k)[2]
<1>1. db \in [Nodes -> [Keys -> Record \cup {NoRec}]]
  BY DEF IInv, Typed
<1>2. n \in Nodes /\ p.data \subseteq Entry /\ PackOK(p.data, newest)
  BY DEF IInv, Typed, NetOK, Packet
<1>3. db'[m][k] = IF m = n /\ Won THEN Of ELSE db[m][k]
  BY <1>1, <1>2, SMTT(30) DEF Records
<1>4. CASE m = n /\ Won
  <2>1. PICK e \in p.data : e[1] = k /\ Wins(n, k, e[2])
    BY <1>4
  <2>2. \A f \in p.data : f[1] = k => f = e
    BY <1>2, <2>1 DEF PackOK
  <2>3. (CHOOSE f \in p.data : f[1] = k) = e
    BY <2>1, <2>2
  <2>4. db'[m][k] = e[2] /\ e[2] \in Record
    BY <1>2, <1>3, <1>4, <2>3 DEF Entry
  <2>5. /\ ~IsHash(db[n][k], e[2]) /\ ~ReceivedIsOlder(db[n][k], e[2])
        /\ ~TooOld(e[2], Clock(n)) /\ MayWrite(e[2]) /\ MayRewrite(db[n][k], e[2])
    BY <2>1 DEF Wins, Admitted
  <2>6. db[n][k] \in Record \cup {NoRec}
    BY <1>1, <1>2
  <2> HIDE DEF n, Won, Of
  <2>7. db[n][k] # NoRec => HashLess(db[n][k], e[2])
    BY <2>4, <2>5, <2>6, Follows
  <2> QED BY <1>4, <2>4, <2>5, <2>7 DEF Moves, Taken
<1>5. CASE ~(m = n /\ Won)
  <2>1. db'[m][k] = db[m][k]
    BY <1>3, <1>5
  <2> QED BY <2>1 DEF Moves
<1> QED BY <1>4, <1>5

\* s_clean_old_obj_gdb_callback.
LEMMA CleanMoves ==
    ASSUME IInv, NEW n \in Nodes, Clean(n), NEW m \in Nodes, NEW k \in Keys
    PROVE  Moves(m, k)
<1>1. db \in [Nodes -> [Keys -> Record \cup {NoRec}]]
  BY DEF IInv, Typed
<1>2. db' = [db EXCEPT ![n] = [j \in Keys |->
          IF db[n][j] # NoRec /\ TooOld(db[n][j], Clock(n)) THEN NoRec ELSE db[n][j]]]
  BY DEF Clean
<1>3. \/ db'[m][k] = db[m][k]
      \/ m = n /\ db[m][k] # NoRec /\ TooOld(db[m][k], Clock(n)) /\ db'[m][k] = NoRec
  BY <1>1, <1>2
<1> QED BY <1>3 DEF Moves, Cleaned

\* No other step touches a store, and the clocks go forward.
LEMMA NextMoves ==
    ASSUME IInv, Next, NEW n \in Nodes, NEW k \in Keys
    PROVE  Moves(n, k)
<1>1. ASSUME NEW m \in Nodes, NEW j \in Keys, NEW del \in DelFlags, NEW reached \in Reach,
             Set(m, j, del, reached \ {m})
      PROVE  Moves(n, k)
  <2>1. del \in BOOLEAN
    BY SyncAssumption
  <2> QED BY <1>1, <2>1, SetMoves
<1>2. ASSUME NEW m \in Nodes, Clean(m) PROVE Moves(n, k)
  BY <1>2, CleanMoves
<1>3. ASSUME NEW p \in net, Records(p) PROVE Moves(n, k)
  BY <1>3, RecordsMoves
<1>4. ASSUME db' = db PROVE Moves(n, k)
  BY <1>4 DEF Moves
<1>5. CASE Tick
  BY <1>4, <1>5 DEF Tick
<1>6. ASSUME NEW m \in Nodes, Idle(m) \/ GetAll(m) PROVE Moves(n, k)
  BY <1>4, <1>6 DEF Idle, GetAll
<1>7. ASSUME NEW m \in Nodes, NEW l \in Nodes, Start(m, l) PROVE Moves(n, k)
  BY <1>4, <1>7 DEF Start
<1>8. ASSUME NEW p \in net, BeginReader(p) \/ Hashes(p) \/ Request(p) \/ Lose(p)
      PROVE  Moves(n, k)
  BY <1>4, <1>8 DEF BeginReader, Hashes, Request, Lose
<1>9. ASSUME NEW r \in readers, ProcThread(r) PROVE Moves(n, k)
  BY <1>4, <1>9 DEF ProcThread, ReadPage, ReadNothing, GetAllPage
<1> QED BY <1>1, <1>2, <1>3, <1>5, <1>6, <1>7, <1>8, <1>9 DEF Next, PacketIn

\* The clock of a node never goes back.
LEMMA ClockOn ==
    ASSUME IInv, [Next]_vars, NEW n \in Nodes
    PROVE  Clock(n) \in Nat /\ Clock(n)' \in Nat /\ Clock(n) <= Clock(n)'
<1>1. now \in Nat /\ Skew[n] \in Nat
  BY SyncAssumption DEF IInv, Typed
<1>2. now' \in {now, now + 1}
  <2>1. CASE Tick
    BY <2>1 DEF Tick
  <2>2. ASSUME NEW m \in Nodes, NEW j \in Keys, NEW del, NEW reached, Set(m, j, del, reached)
        PROVE  now' = now
    BY <2>2 DEF Set
  <2>3. ASSUME NEW m \in Nodes, Clean(m) \/ Idle(m) \/ GetAll(m) PROVE now' = now
    BY <2>3 DEF Clean, Idle, GetAll
  <2>4. ASSUME NEW m \in Nodes, NEW l \in Nodes, Start(m, l) PROVE now' = now
    BY <2>4 DEF Start
  <2>5. ASSUME NEW p \in net, PacketIn(p) \/ Lose(p) PROVE now' = now
    BY <2>5 DEF PacketIn, BeginReader, Hashes, Request, Records, Lose
  <2>6. ASSUME NEW r \in readers, ProcThread(r) PROVE now' = now
    BY <2>6 DEF ProcThread, ReadPage, ReadNothing, GetAllPage
  <2>7. CASE UNCHANGED vars
    BY <2>7 DEF vars
  <2> QED BY <2>1, <2>2, <2>3, <2>4, <2>5, <2>6, <2>7 DEF Next
<1> QED BY <1>1, <1>2, SMTT(30) DEF Clock

\* The history is right after a step.
LEMMA PastStep ==
    ASSUME IInv, PastOK, [Next]_vars, [PastNext]_<<vars, past>>
    PROVE  PastOK'
<1>1. db \in [Nodes -> [Keys -> Record \cup {NoRec}]]
  BY DEF IInv, Typed
<1>2. db' \in [Nodes -> [Keys -> Record \cup {NoRec}]]
  BY NextOK DEF IInv, Typed
<1>3. \A n \in Nodes, k \in Keys : past[n][k] \in Record \cup {NoRec}
  BY DEF PastOK
<1>4. CASE UNCHANGED <<vars, past>>
  BY <1>4 DEF PastOK, vars, Clock
<1>5. CASE PastNext
  <2>1. past' \in [Nodes -> [Keys -> Record \cup {NoRec}]]
    BY <1>2, <1>3, <1>5 DEF PastNext
  <2>2. ASSUME NEW n \in Nodes, NEW k \in Keys
        PROVE  IF db'[n][k] # NoRec THEN past'[n][k] = db'[n][k]
               ELSE past'[n][k] # NoRec => TooOld(past'[n][k], Clock(n)')
    <3>1. past'[n][k] = IF db'[n][k] = NoRec THEN past[n][k] ELSE db'[n][k]
      BY <1>5 DEF PastNext
    <3>2. Moves(n, k)
      BY NextMoves DEF vars, Moves
    <3>3. ASSUME db'[n][k] = NoRec, past[n][k] # NoRec PROVE TooOld(past[n][k], Clock(n))
      BY <3>2, <3>3, NoRecAssumption DEF Moves, Cleaned, Taken, PastOK
    <3>4. past[n][k] # NoRec => past[n][k] \in Record
      BY <1>3
    <3> QED BY <3>1, <3>3, <3>4, ClockOn, TooOldLater
  <2> QED BY <2>1, <2>2 DEF PastOK
<1> QED BY <1>4, <1>5

\* What is taken follows all that the key ever had: what is there, or what was
\* cleaned, which has expired while what is taken has not.
LEMMA PromiseStep ==
    ASSUME IInv, PastOK, [Next]_vars, [PastNext]_<<vars, past>>,
           NEW n \in Nodes, NEW k \in Keys
    PROVE  Store(n, k)!SNext \/ UNCHANGED Store(n, k)!cell
<1>1. /\ db[n][k] \in Record \cup {NoRec} /\ past[n][k] \in Record \cup {NoRec}
      /\ Clock(n) \in Nat
  BY ClockOn DEF IInv, Typed, PastOK
<1>2. CASE UNCHANGED <<vars, past>>
  <2>1. db' = db /\ past' = past
    BY <1>2 DEF vars
  <2> QED BY <2>1 DEF Store!cell
<1>3. CASE PastNext
  <2>1. past'[n][k] = IF db'[n][k] = NoRec THEN past[n][k] ELSE db'[n][k]
    BY <1>3 DEF PastNext
  <2>2. CASE db'[n][k] = db[n][k]
    <3>1. past'[n][k] = past[n][k]
      BY <2>1, <2>2 DEF PastOK
    <3> QED BY <2>2, <3>1 DEF Store!cell
  <2>3. CASE Cleaned(n, k)
    <3>1. /\ db[n][k] # NoRec /\ TooOld(db[n][k], Clock(n)) /\ db'[n][k] = NoRec
          /\ past'[n][k] = past[n][k]
      BY <2>1, <2>3 DEF Cleaned
    <3> QED BY <3>1 DEF Store!SNext, Store!Expire
  <2>4. CASE Taken(n, k)
    <3>1. db'[n][k] \in Record /\ past'[n][k] = db'[n][k]
      BY <2>1, <2>4, NoRecAssumption DEF Taken
    <3>2. past[n][k] # NoRec => HashLess(past[n][k], db'[n][k])
      <4>1. CASE db[n][k] # NoRec
        BY <2>4, <4>1 DEF Taken, PastOK
      <4>2. CASE db[n][k] = NoRec /\ past[n][k] # NoRec
        <5>1. TooOld(past[n][k], Clock(n)) /\ ~TooOld(db'[n][k], Clock(n))
          BY <2>4, <4>2 DEF Taken, PastOK
        <5>2. past[n][k].ts \in Nat /\ db'[n][k].ts \in Nat
          BY <1>1, <3>1, <4>2, RecordParts
        <5> QED BY <1>1, <5>1, <5>2, TtlAssumption, SMTT(30) DEF TooOld, HashLess
      <4> QED BY <4>1, <4>2
    <3>3. MayWrite(db'[n][k]) /\ MayRewrite(db[n][k], db'[n][k])
      BY <2>4 DEF Taken
    <3> QED BY <3>1, <3>2, <3>3 DEF Store!SNext, Store!Take
  <2>5. Moves(n, k)
    BY NextMoves DEF vars, Moves
  <2> QED BY <2>2, <2>3, <2>4, <2>5 DEF Moves
<1> QED BY <1>2, <1>3

\* Every store of the cluster keeps the promise of GdbStore for every key, as
\* GdbApplyProofs shows of the apply path taken apart: a record that was replaced
\* on a node or that its cleaner took does not come back to it from a peer, be it
\* offered again, requested late or gossiped by a node whose clock is behind.
THEOREM StoresKeepPromise ==
    ASSUME NEW n \in Nodes, NEW k \in Keys
    PROVE  Spec /\ PastSpec => Store(n, k)!SSpec
<1>1. Init /\ PastInit => PastOK /\ Store(n, k)!SInit
  BY SMTT(30) DEF Init, PastInit, PastOK, Store!SInit
<1>2. IInv /\ PastOK /\ [Next]_vars /\ [PastNext]_<<vars, past>> => PastOK'
  BY PastStep
<1>3. IInv /\ PastOK /\ [Next]_vars /\ [PastNext]_<<vars, past>>
        => [Store(n, k)!SNext]_(Store(n, k)!cell)
  BY PromiseStep
<1> QED BY <1>1, <1>2, <1>3, InitOK, NextOK, PTL DEF Spec, PastSpec, Store!SSpec

=============================================================================
