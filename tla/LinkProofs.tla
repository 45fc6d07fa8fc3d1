----------------------------- MODULE LinkProofs -----------------------------
(***************************************************************************)
(* The streams of a node (StreamTable) and the links that the link manager *)
(* makes of them (LinkManager).                                            *)
(*                                                                         *)
(* The table is sound for any number of streams and nodes, verified or     *)
(* not, as long as a stream that moves between workers is the only one to  *)
(* its node (MovesAlone).                                                  *)
(*                                                                         *)
(* For any number of nodes, nets and clusters: the clusters of a link are  *)
(* those its node is a member of, but for those whose net was switched off *)
(* between HASH_ADD and the callback, and its client is asked in step with *)
(* the state of the link.                                                  *)
(*                                                                         *)
(* Every handler is an operator from a link to a link, so the inductive    *)
(* invariant is a predicate LinkOK of one link, and there is a lemma for   *)
(* each operator.  ClustersAgree is kept by a handler that deletes because *)
(* it has links_lock, so no callback is due; it needs that nodes join      *)
(* clusters only through a link, one cluster at a time.  StateMatchesAsk   *)
(* says nothing of a link without a client; what makes a client given to   *)
(* such a link start right is that the link is DISCONNECTED and has no     *)
(* request and no client at work left over.                                *)
(***************************************************************************)
EXTENDS StreamTable, LinkManager, SequenceTheorems, TLAPS

\* Leaves go to Zenon, with time to spare, unless they name the SMT solver.
USE ZenonT(30)

(***************************************************************************)
(* The table                                                               *)
(***************************************************************************)
\* A stream that moves between workers is the only one to its node.
MovesAlone ==
    \A s \in Movable, r \in Streams : r # s /\ Node[s] # Blank => Node[r] # Node[s]

\* The list holds exactly the streams with status listed, each once.
ListInv ==
    /\ \A s \in Streams : status[s] = "moving" => s \in Movable
    /\ \A i \in DOMAIN list : status[list[i]] = "listed"
    /\ \A s \in Streams : status[s] = "listed" => \E i \in DOMAIN list : list[i] = s
    /\ \A i, j \in DOMAIN list : list[i] = list[j] => i = j

\* The entry of a node goes to it.  An authorized stream there is listed; one
\* that is not does not move, and stays when it is freed.
EntryInv(n) ==
    table[n] # None =>
        /\ Node[table[n]] = n
        /\ table[n] \in Authorized => status[table[n]] = "listed"
        /\ table[n] \notin Authorized =>
              table[n] \notin Movable /\ status[table[n]] \in {"listed", "freed"}

\* The cluster and the link manager have the nodes of the hashtable.
ToldInv(n) ==
    ~Dangling(n) => /\ n \in members <=> table[n] # None
                    /\ link[n] = "none" <=> table[n] = None

\* Of an authorized stream to the node the flag primary says that it is in the
\* hashtable, where one is if any is listed.
PrimaryInv(n) ==
    \A s \in Authorized : Node[s] = n =>
        /\ s \in primary => status[s] \in {"listed", "moving", "freed"}
        /\ status[s] = "listed" => table[n] # None /\ (s \in primary <=> table[n] = s)

\* Without unverified streams the hashtable has the first stream of the list to
\* the node, and the link manager its direction.
FirstInv(n) ==
    OnlyVerified(n) /\ table[n] # None =>
        /\ table[n] \in Authorized
        /\ link[n] = Direction(table[n])
        /\ \A i, j \in DOMAIN list :
              list[i] = table[n] /\ Node[list[j]] = n => ~(j < i)

NodeInv(n) == EntryInv(n) /\ ToldInv(n) /\ PrimaryInv(n) /\ FirstInv(n)

TableInv == TableTypeOK /\ ListInv /\ \A n \in Nodes : NodeInv(n)

\* What DL_DELETE leaves of a list.
LEMMA UnlinkedFacts ==
    ASSUME NEW S, NEW q \in Seq(S), NEW k \in DOMAIN q
    PROVE  /\ Unlinked(q, k) \in Seq(S)
           /\ DOMAIN Unlinked(q, k) = 1..(Len(q) - 1)
           /\ \A i \in 1..(Len(q) - 1) :
                 Unlinked(q, k)[i] = IF i < k THEN q[i] ELSE q[i + 1]
<1> DEFINE a == SubSeq(q, 1, k - 1)
           b == SubSeq(q, k + 1, Len(q))
<1>1. k \in 1..Len(q) /\ Len(q) \in Nat
  BY SMTT(30)
<1>2. a \in Seq(S) /\ Len(a) = k - 1 /\ \A i \in 1..(k - 1) : a[i] = q[i]
  BY <1>1, SMTT(30)
<1>3. b \in Seq(S) /\ Len(b) = Len(q) - k /\ \A i \in 1..(Len(q) - k) : b[i] = q[i + k]
  BY <1>1, SMTT(30)
<1> HIDE DEF a, b
<1>4. Unlinked(q, k) = a \o b
  BY DEF Unlinked, a, b
<1>5. Unlinked(q, k) \in Seq(S) /\ Len(Unlinked(q, k)) = Len(q) - 1
  BY <1>1, <1>2, <1>3, <1>4, SMTT(30)
<1>6. ASSUME NEW i \in 1..(Len(q) - 1)
      PROVE  Unlinked(q, k)[i] = IF i < k THEN q[i] ELSE q[i + 1]
  <2>1. CASE i < k
    BY <2>1, <1>1, <1>2, <1>3, <1>4, SMTT(30)
  <2>2. CASE ~(i < k)
    <3>1. (a \o b)[i] = b[i - (k - 1)]
      <4>1. i \in 1..(Len(a) + Len(b)) /\ ~(i <= Len(a)) /\ Len(a) = k - 1
        BY <2>2, <1>1, <1>2, <1>3, SMTT(30)
      <4>2. \A j \in 1..(Len(a) + Len(b)) :
               (a \o b)[j] = IF j <= Len(a) THEN a[j] ELSE b[j - Len(a)]
        BY <1>2, <1>3, ConcatProperties
      <4>3. (a \o b)[i] = b[i - Len(a)]
        BY <4>1, <4>2
      <4>4. QED
        BY <4>1, <4>3
    <3>2. i - (k - 1) \in 1..(Len(q) - k) /\ (i - (k - 1)) + k = i + 1
      BY <2>2, <1>1, SMTT(30)
    <3>3. QED
      BY <2>2, <3>1, <3>2, <1>3, <1>4
  <2>3. QED
    BY <2>1, <2>2
<1>7. QED
  BY <1>1, <1>5, <1>6, SMTT(30)

\* No stream, nothing in the hashtable.
THEOREM TableInitInv == TableInit => TableInv
<1> SUFFICES ASSUME TableInit PROVE TableInv
  OBVIOUS
<1>1. TableTypeOK /\ ListInv
  BY SMTT(30) DEF TableInit, TableTypeOK, ListInv
<1>2. ASSUME NEW n \in Nodes PROVE NodeInv(n)
  BY StreamAssumption
     DEF TableInit, NodeInv, EntryInv, ToldInv, PrimaryInv, FirstInv, Dangling
<1>3. QED
  BY <1>1, <1>2 DEF TableInv

\* A step leaves a node alone if it does so in the hashtable, the cluster and
\* the link manager, in the streams to the node and their order.
LEMMA OtherNode ==
    ASSUME TableInv, NEW m \in Nodes,
           table'[m] = table[m], link'[m] = link[m], m \in members' <=> m \in members,
           \A r \in Streams : Node[r] = m =>
               status'[r] = status[r] /\ (r \in primary' <=> r \in primary),
           \A i, j \in DOMAIN list' :
               Node[list'[i]] = m /\ Node[list'[j]] = m /\ j < i =>
                   \E e, f \in DOMAIN list : list[e] = list'[i] /\ list[f] = list'[j] /\ f < e
    PROVE  NodeInv(m)'
<1>1. NodeInv(m) /\ table[m] \in Streams \cup {None} /\ Authorized \subseteq Streams
  BY StreamAssumption DEF TableInv, TableTypeOK
<1>2. table[m] # None => Node[table[m]] = m /\ status'[table[m]] = status[table[m]]
  BY <1>1 DEF NodeInv, EntryInv
<1>3. EntryInv(m)'
  BY <1>1, <1>2 DEF NodeInv, EntryInv
<1>4. ToldInv(m)'
  BY <1>1, <1>2 DEF NodeInv, ToldInv, Dangling
<1>5. PrimaryInv(m)'
  BY <1>1 DEF NodeInv, PrimaryInv
<1>6. OnlyVerified(m)' => OnlyVerified(m)
  BY DEF OnlyVerified
<1>7. FirstInv(m)'
  <2> SUFFICES ASSUME OnlyVerified(m)', table'[m] # None PROVE FirstInv(m)'
    BY DEF FirstInv
  <2>1. /\ table[m] \in Authorized /\ link[m] = Direction(table[m])
        /\ \A i, j \in DOMAIN list : list[i] = table[m] /\ Node[list[j]] = m => ~(j < i)
    BY <1>1, <1>6 DEF NodeInv, FirstInv
  <2>2. ASSUME NEW i \in DOMAIN list', NEW j \in DOMAIN list',
               list'[i] = table[m], Node[list'[j]] = m
        PROVE  ~(j < i)
    <3>1. Node[list'[i]] = m
      BY <1>2, <2>1, <2>2
    <3>2. j < i => \E e, f \in DOMAIN list :
                       list[e] = list'[i] /\ list[f] = list'[j] /\ f < e
      BY <2>2, <3>1
    <3>3. QED
      BY <2>1, <2>2, <3>2
  <2>3. \A i, j \in DOMAIN list' : list'[i] = table[m] /\ Node[list'[j]] = m => ~(j < i)
    BY <2>2
  <2>4. link'[m] = Direction(table[m])'
    BY <2>1 DEF Direction
  <2>5. QED
    BY <2>1, <2>3, <2>4 DEF FirstInv
<1>8. QED
  BY <1>3, <1>4, <1>5, <1>7 DEF NodeInv

\* Listing a stream keeps the invariant, for the first time or on its new worker.
LEMMA AddKeeps ==
    ASSUME MovesAlone, TableInv, NEW s \in Streams,
           status[s] \in {"none", "created", "moving"}, AddToList(s)
    PROVE  TableInv'
<1> DEFINE n == Node[s]
           back == Len(list) + 1
<1>1. /\ list' \in Seq(Streams)
      /\ DOMAIN list' = 1..(Len(list) + 1)
      /\ DOMAIN list = 1..Len(list) /\ Len(list) \in Nat
      /\ \A i \in DOMAIN list : list'[i] = list[i] /\ list[i] \in Streams
      /\ list'[back] = s
  BY SMTT(30) DEF AddToList, TableInv, TableTypeOK
<1>2. /\ status' \in [Streams -> {"none", "created", "listed", "moving", "freed"}]
      /\ status'[s] = "listed" /\ \A r \in Streams : r # s => status'[r] = status[r]
  BY DEF AddToList, TableInv, TableTypeOK
<1>3. \A i \in DOMAIN list : list[i] # s
  BY DEF TableInv, ListInv
<1>4. \A i \in DOMAIN list' : i \in DOMAIN list \/ (i = back /\ list'[i] = s)
  BY <1>1, SMTT(30)
<1>5. back \in DOMAIN list' /\ \A i \in DOMAIN list : i \in DOMAIN list' /\ i # back /\ ~(back < i)
  BY <1>1, SMTT(30)
<1> HIDE DEF back
<1>6. ListInv'
  <2>1. \A r \in Streams : status'[r] = "moving" => r \in Movable
    BY <1>2 DEF TableInv, ListInv
  <2>2. \A i \in DOMAIN list' : status'[list'[i]] = "listed"
    BY <1>1, <1>2, <1>3, <1>4, SMTT(30) DEF TableInv, ListInv
  <2>3. ASSUME NEW r \in Streams, status'[r] = "listed"
        PROVE  \E i \in DOMAIN list' : list'[i] = r
    <3>1. CASE r = s
      BY <1>1, <1>5, <3>1
    <3>2. CASE r # s
      BY <1>1, <1>2, <1>5, <2>3, <3>2, SMTT(30) DEF TableInv, ListInv
    <3>3. QED
      BY <3>1, <3>2
  <2>4. \A i, j \in DOMAIN list' : list'[i] = list'[j] => i = j
    BY <1>1, <1>3, <1>4, SMTT(30) DEF TableInv, ListInv
  <2>5. QED
    BY <2>1, <2>2, <2>3, <2>4 DEF ListInv
<1>7. n \in Nodes => table[n] # s
  BY StreamAssumption DEF TableInv, NodeInv, EntryInv
\* The order of the streams that were there.
<1>8. ASSUME NEW i \in DOMAIN list', NEW j \in DOMAIN list', j < i, list'[i] # s
      PROVE  i \in DOMAIN list /\ j \in DOMAIN list /\ list[i] = list'[i] /\ list[j] = list'[j]
  BY <1>1, <1>4, <1>5, <1>8
\* What is left to show, where the hashtable changes for n alone.
<1>9. ASSUME \A m \in Nodes : m # n =>
                 /\ table'[m] = table[m] /\ link'[m] = link[m]
                 /\ m \in members' <=> m \in members,
             \A r \in Streams : r # s => (r \in primary' <=> r \in primary),
             TableTypeOK', n \in Nodes => NodeInv(n)'
      PROVE  TableInv'
  <2>1. ASSUME NEW m \in Nodes, m # n PROVE NodeInv(m)'
    <3>1. \A r \in Streams : Node[r] = m =>
               status'[r] = status[r] /\ (r \in primary' <=> r \in primary)
      BY <1>2, <1>9, <2>1
    <3>2. \A i, j \in DOMAIN list' :
               Node[list'[i]] = m /\ Node[list'[j]] = m /\ j < i =>
                   \E e, f \in DOMAIN list : list[e] = list'[i] /\ list[f] = list'[j] /\ f < e
      BY <1>8, <2>1
    <3>3. QED
      BY <1>9, <2>1, <3>1, <3>2, OtherNode
  <2>2. QED
    BY <1>6, <1>9, <2>1 DEF TableInv
\* An unverified stream is listed and no more.
<1>10. CASE s \notin Authorized
  <2>1. UNCHANGED <<primary, table, members, link>>
    BY <1>10 DEF AddToList
  <2>2. TableTypeOK'
    BY <1>1, <1>2, <2>1 DEF TableInv, TableTypeOK
  <2>3. ASSUME n \in Nodes PROVE NodeInv(n)'
    <3>1. NodeInv(n) /\ table[n] \in Streams \cup {None} /\ table[n] # s
      BY <1>7, <2>3 DEF TableInv, TableTypeOK
    <3>2. table[n] # None => status'[table[n]] = status[table[n]]
      BY <1>2, <3>1
    <3>3. ~OnlyVerified(n)'
      BY <1>2, <1>10 DEF OnlyVerified
    <3>4. EntryInv(n)' /\ ToldInv(n)' /\ FirstInv(n)'
      BY <2>1, <3>1, <3>2, <3>3 DEF NodeInv, EntryInv, ToldInv, Dangling, FirstInv
    <3>5. PrimaryInv(n)'
      BY <1>2, <1>10, <2>1, <3>1, StreamAssumption DEF NodeInv, PrimaryInv
    <3>6. QED
      BY <3>4, <3>5 DEF NodeInv
  <2>4. QED
    BY <1>9, <2>1, <2>2, <2>3
<1>11. CASE s \in Authorized
  <2>1. n \in Nodes /\ n # Blank /\ s # None
    BY <1>11, StreamAssumption
  <2>2. PICK d \in Found(table, n) :
           /\ AddToHashtable(s, table, d)
           /\ link' = IF d = None THEN StreamAdded(link, s) ELSE link
    BY <1>11 DEF AddToList
  <2>3. /\ NodeInv(n) /\ table[n] \in Streams \cup {None} /\ table[n] # s
        /\ d \in {table[n], None} /\ (d = None => table[n] = None \/ Dangling(n))
    BY <1>7, <2>1, <2>2 DEF TableInv, TableTypeOK, Found, Dangling
  <2>4. table[n] # None => status'[table[n]] = status[table[n]] /\ Node[table[n]] = n
    BY <1>2, <2>3 DEF NodeInv, EntryInv
  <2>5. OnlyVerified(n)' => OnlyVerified(n)
    BY <1>2, <1>11, StreamAssumption DEF OnlyVerified
  \* A stream that comes from another worker finds its place free.
  <2>6. table[n] # None => s \notin primary
    <3>1. s \in primary => s \in Movable
      BY <1>11, <2>3 DEF NodeInv, PrimaryInv, TableInv, ListInv
    <3>2. QED
      BY <2>1, <2>3, <2>4, <3>1 DEF MovesAlone
  \* The place is taken.
  <2>7. CASE d # None
    <3>1. UNCHANGED <<primary, table, members, link>> /\ table[n] # None
      BY <2>2, <2>3, <2>7 DEF AddToHashtable
    <3>2. TableTypeOK'
      BY <1>1, <1>2, <3>1 DEF TableInv, TableTypeOK
    <3>3. EntryInv(n)' /\ ToldInv(n)'
      BY <2>3, <2>4, <3>1 DEF NodeInv, EntryInv, ToldInv, Dangling
    <3>4. PrimaryInv(n)'
      BY <1>2, <2>3, <2>6, <3>1, StreamAssumption DEF NodeInv, PrimaryInv
    <3>5. FirstInv(n)'
      <4> SUFFICES ASSUME OnlyVerified(n)' PROVE FirstInv(n)'
        BY DEF FirstInv
      <4>1. /\ table[n] \in Authorized /\ link[n] = Direction(table[n])
            /\ \A i, j \in DOMAIN list : list[i] = table[n] /\ Node[list[j]] = n => ~(j < i)
        BY <2>3, <2>5, <3>1 DEF NodeInv, FirstInv
      <4>2. \A i, j \in DOMAIN list' : list'[i] = table[n] /\ Node[list'[j]] = n => ~(j < i)
        BY <1>8, <2>3, <4>1
      <4>3. QED
        BY <3>1, <4>1, <4>2 DEF FirstInv, Direction
    <3>6. QED
      BY <1>9, <3>1, <3>2, <3>3, <3>4, <3>5 DEF NodeInv
  \* It is free, or what a freed stream left of it is not found.
  <2>8. CASE d = None
    <3>1. /\ primary' = primary \cup {s}
          /\ table' = [table EXCEPT ![n] = s]
          /\ members' = members \cup {n}
          /\ link' = StreamAdded(link, s)
      BY <2>2, <2>8 DEF AddToHashtable
    <3>2. Direction(s) \in {"uplink", "downlink"}
      BY DEF Direction
    <3>3. /\ link' \in [Nodes -> {"none", "uplink", "downlink"}]
          /\ link'[n] # "none" /\ (link[n] = "none" => link'[n] = Direction(s))
          /\ \A m \in Nodes : m # n => link'[m] = link[m]
      BY <2>1, <3>1, <3>2 DEF TableInv, TableTypeOK, StreamAdded
    <3>4. /\ table' \in [Nodes -> Streams \cup {None}]
          /\ table'[n] = s /\ \A m \in Nodes : m # n => table'[m] = table[m]
      BY <2>1, <3>1 DEF TableInv, TableTypeOK
    <3>5. TableTypeOK'
      BY <1>1, <1>2, <2>1, <3>1, <3>3, <3>4 DEF TableInv, TableTypeOK
    <3>6. EntryInv(n)' /\ ToldInv(n)'
      BY <1>2, <1>11, <2>1, <3>1, <3>3, <3>4 DEF EntryInv, ToldInv
    \* Whatever is left of the place, no listed stream has it.
    <3>7. \A r \in Authorized : Node[r] = n /\ status[r] = "listed" =>
             table[n] # None /\ r \notin primary
      <4>1. ASSUME NEW r \in Authorized, Node[r] = n, status[r] = "listed"
            PROVE  table[n] # None /\ r \notin primary
        <5>1. table[n] # None /\ (r \in primary <=> table[n] = r)
          BY <2>3, <4>1 DEF NodeInv, PrimaryInv
        <5>2. table[n] # r
          BY <2>3, <2>8, <4>1, <5>1 DEF Dangling
        <5>3. QED
          BY <5>1, <5>2
      <4>2. QED
        BY <4>1
    <3>8. PrimaryInv(n)'
      <4> SUFFICES ASSUME NEW r \in Authorized, Node[r] = n
                   PROVE  /\ r \in primary' => status'[r] \in {"listed", "moving", "freed"}
                          /\ status'[r] = "listed" =>
                                table'[n] # None /\ (r \in primary' <=> table'[n] = r)
        BY DEF PrimaryInv
      <4>1. CASE r = s
        BY <1>2, <2>1, <3>1, <3>4, <4>1
      <4>2. CASE r # s
        BY <1>2, <2>1, <2>3, <3>1, <3>4, <3>7, <4>2, StreamAssumption DEF NodeInv, PrimaryInv
      <4>3. QED
        BY <4>1, <4>2
    <3>9. FirstInv(n)'
      <4> SUFFICES ASSUME OnlyVerified(n)' PROVE FirstInv(n)'
        BY DEF FirstInv
      <4>1. table[n] = None
        BY <2>3, <2>5, <2>8 DEF Dangling, NodeInv, FirstInv, EntryInv
      <4>2. link'[n] = Direction(s)
        BY <2>3, <3>3, <4>1 DEF NodeInv, ToldInv, Dangling
      <4>3. \A j \in DOMAIN list : Node[list[j]] # n
        <5> SUFFICES ASSUME NEW j \in DOMAIN list, Node[list[j]] = n PROVE FALSE
          OBVIOUS
        <5>1. list[j] \in Streams /\ status[list[j]] = "listed"
          BY <1>1 DEF TableInv, ListInv
        <5>2. list[j] \in Authorized
          BY <2>5, <5>1 DEF OnlyVerified
        <5>3. QED
          BY <3>7, <4>1, <5>1, <5>2
      <4>4. \A i, j \in DOMAIN list' : Node[list'[j]] = n => ~(j < i)
        <5> SUFFICES ASSUME NEW i \in DOMAIN list', NEW j \in DOMAIN list',
                            Node[list'[j]] = n, j < i
                     PROVE  FALSE
          OBVIOUS
        <5>1. j = back
          BY <1>1, <1>4, <4>3
        <5>2. i = back
          BY <1>4, <1>5, <5>1
        <5>3. QED
          BY <1>1, <5>1, <5>2, SMTT(30) DEF back
      <4>5. QED
        BY <1>11, <3>4, <4>2, <4>4 DEF FirstInv, Direction
    <3>10. \A m \in Nodes : m # n => (m \in members' <=> m \in members)
      BY <3>1
    <3>11. \A r \in Streams : r # s => (r \in primary' <=> r \in primary)
      BY <3>1
    <3>12. QED
      BY <1>9, <3>3, <3>4, <3>5, <3>6, <3>8, <3>9, <3>10, <3>11 DEF NodeInv
  <2>9. QED
    BY <2>7, <2>8
<1>12. QED
  BY <1>10, <1>11

\* What unlisting a stream leaves of the list: the other streams, in order.
LEMMA UnlistedFacts ==
    ASSUME TableTypeOK, ListInv, NEW s \in Streams, NEW rest \in Unlisted(s)
    PROVE  /\ rest \in Seq(Streams)
           /\ \A i \in DOMAIN rest : rest[i] \in Streams /\ rest[i] # s
           /\ \A i \in DOMAIN rest : \E e \in DOMAIN list : list[e] = rest[i]
           /\ \A e \in DOMAIN list : list[e] # s => \E i \in DOMAIN rest : rest[i] = list[e]
           /\ \A i, j \in DOMAIN rest : \A e, f \in DOMAIN list :
                 rest[i] = list[e] /\ rest[j] = list[f] => (j < i <=> f < e)
           /\ \A i, j \in DOMAIN rest : rest[i] = rest[j] => i = j
<1>1. CASE status[s] # "listed"
  <2>1. rest = list
    BY <1>1 DEF Unlisted
  <2>2. \A i \in DOMAIN list : list[i] \in Streams /\ list[i] # s
    BY <1>1, SMTT(30) DEF TableTypeOK, ListInv
  <2>3. QED
    BY <2>1, <2>2 DEF TableTypeOK, ListInv
<1>2. CASE status[s] = "listed"
  <2>1. PICK k \in DOMAIN list : list[k] = s /\ rest = Unlinked(list, k)
    BY <1>2 DEF Unlisted
  <2>2. /\ Len(list) \in Nat /\ DOMAIN list = 1..Len(list)
        /\ \A i \in DOMAIN list : list[i] \in Streams
    BY SMTT(30) DEF TableTypeOK
  <2>3. /\ rest \in Seq(Streams)
        /\ DOMAIN rest = 1..(Len(list) - 1)
        /\ \A i \in DOMAIN rest : rest[i] = IF i < k THEN list[i] ELSE list[i + 1]
    BY <2>1, UnlinkedFacts DEF TableTypeOK
  <2> DEFINE up(i) == IF i < k THEN i ELSE i + 1
  <2>4. \A i \in DOMAIN rest : up(i) \in DOMAIN list /\ up(i) # k /\ rest[i] = list[up(i)]
    BY <2>2, <2>3, SMTT(30)
  <2>5. \A i, j \in DOMAIN rest : j < i <=> up(j) < up(i)
    BY <2>2, <2>3, SMTT(30)
  <2>6. \A e \in DOMAIN list : e # k => \E i \in DOMAIN rest : up(i) = e
    <3> SUFFICES ASSUME NEW e \in DOMAIN list, e # k
                 PROVE  \E i \in DOMAIN rest : up(i) = e
      OBVIOUS
    <3>1. CASE e < k
      BY <2>2, <2>3, <3>1, SMTT(30)
    <3>2. CASE e > k
      <4>1. e - 1 \in DOMAIN rest /\ up(e - 1) = e
        BY <2>2, <2>3, <3>2, SMTT(30)
      <4>2. QED
        BY <4>1
    <3>3. QED
      BY <2>2, <3>1, <3>2, SMTT(30)
  <2>5a. \A i, j \in DOMAIN rest : up(i) = up(j) => i = j
    BY <2>2, <2>3, SMTT(30)
  <2> HIDE DEF up
  <2>7. \A e, f \in DOMAIN list : list[e] = list[f] => e = f
    BY DEF ListInv
  <2>8. \A i \in DOMAIN rest : rest[i] \in Streams /\ rest[i] # s
    BY <2>1, <2>2, <2>4, <2>7
  <2>9. \A i \in DOMAIN rest : \E e \in DOMAIN list : list[e] = rest[i]
    BY <2>4
  <2>10. \A e \in DOMAIN list : list[e] # s => \E i \in DOMAIN rest : rest[i] = list[e]
    BY <2>1, <2>4, <2>6
  <2>11. \A i \in DOMAIN rest : \A e \in DOMAIN list : rest[i] = list[e] => e = up(i)
    BY <2>4, <2>7
  <2>12. \A i, j \in DOMAIN rest : \A e, f \in DOMAIN list :
            rest[i] = list[e] /\ rest[j] = list[f] => (j < i <=> f < e)
    <3> SUFFICES ASSUME NEW i \in DOMAIN rest, NEW j \in DOMAIN rest,
                        NEW e \in DOMAIN list, NEW f \in DOMAIN list,
                        rest[i] = list[e], rest[j] = list[f]
                 PROVE  j < i <=> f < e
      OBVIOUS
    <3>1. e = up(i) /\ f = up(j)
      BY <2>11
    <3>2. QED
      BY <2>5, <3>1
  <2>13. \A i, j \in DOMAIN rest : rest[i] = rest[j] => i = j
    <3> SUFFICES ASSUME NEW i \in DOMAIN rest, NEW j \in DOMAIN rest, rest[i] = rest[j]
                 PROVE  i = j
      OBVIOUS
    <3>1. up(i) = up(j)
      BY <2>4, <2>7
    <3>2. QED
      BY <2>5a, <3>1
  <2>14. QED
    BY <2>3, <2>8, <2>9, <2>10, <2>12, <2>13
<1>3. QED
  BY <1>1, <1>2

\* Taking a stream off the list keeps the invariant, whether it is deleted or
\* moves: the first stream to its node that is left takes its place, verified or
\* not, unless the place is another's.
LEMMA DeleteKeeps ==
    ASSUME MovesAlone, TableInv, NEW s \in Streams, status[s] \in {"created", "listed"},
           DeleteFromList(s), NEW st \in {"moving", "freed"}, st = "moving" => s \in Movable,
           status' = [status EXCEPT ![s] = st]
    PROVE  TableInv'
<1> DEFINE n == Node[s]
<1>1. PICK rest \in Unlisted(s) :
        /\ list' = rest
        /\ IF s \notin Authorized
           THEN UNCHANGED <<primary, table, members, link>>
           ELSE \E t \in IF s \in primary THEN HashDel(s) ELSE {table} :
                    \/ \E i \in DOMAIN rest, l_double \in Found(t, n) :
                         /\ Successor(s, rest, i)
                         /\ AddToHashtable(rest[i], t, l_double)
                         /\ link' = [link EXCEPT ![n] = Direction(rest[i])]
                    \/ /\ \A i \in DOMAIN rest : Node[rest[i]] # n
                       /\ table' = t
                       /\ primary' = primary
                       /\ members' = members \ {n}
                       /\ link' = [link EXCEPT ![n] = "none"]
  BY DEF DeleteFromList
<1>2. /\ rest \in Seq(Streams)
      /\ \A i \in DOMAIN rest : rest[i] \in Streams /\ rest[i] # s
      /\ \A i \in DOMAIN rest : \E e \in DOMAIN list : list[e] = rest[i]
      /\ \A e \in DOMAIN list : list[e] # s => \E i \in DOMAIN rest : rest[i] = list[e]
      /\ \A i, j \in DOMAIN rest : \A e, f \in DOMAIN list :
            rest[i] = list[e] /\ rest[j] = list[f] => (j < i <=> f < e)
      /\ \A i, j \in DOMAIN rest : rest[i] = rest[j] => i = j
  BY UnlistedFacts DEF TableInv
<1>3. DOMAIN rest = 1..Len(rest) /\ Len(rest) \in Nat
  BY <1>2, SMTT(30)
<1>4. /\ status' \in [Streams -> {"none", "created", "listed", "moving", "freed"}]
      /\ status'[s] = st /\ st # "listed"
      /\ \A r \in Streams : r # s => status'[r] = status[r]
  BY DEF TableInv, TableTypeOK
<1>5. ListInv'
  <2>1. \A r \in Streams : status'[r] = "moving" => r \in Movable
    BY <1>4 DEF TableInv, ListInv
  <2>2. \A i \in DOMAIN rest : status'[rest[i]] = "listed"
    BY <1>2, <1>4, SMTT(30) DEF TableInv, ListInv
  <2>3. \A r \in Streams : status'[r] = "listed" => \E i \in DOMAIN rest : rest[i] = r
    BY <1>2, <1>4, SMTT(30) DEF TableInv, ListInv
  <2>4. QED
    BY <1>1, <1>2, <2>1, <2>2, <2>3 DEF ListInv
\* A stream that is left is listed before and after.
<1>6. \A i \in DOMAIN rest : status[rest[i]] = "listed" /\ status'[rest[i]] = "listed"
  BY <1>1, <1>2, <1>4, <1>5 DEF ListInv
<1>7. \A r \in Streams : status[r] = "listed" /\ r # s => \E i \in DOMAIN rest : rest[i] = r
  BY <1>1, <1>4, <1>5 DEF ListInv
<1>8. OnlyVerified(n)' => OnlyVerified(n) /\ s \in Authorized
  BY <1>4, StreamAssumption DEF OnlyVerified
\* What is left to show, where the hashtable changes for n alone.
<1>9. ASSUME \A m \in Nodes : m # n =>
                 /\ table'[m] = table[m] /\ link'[m] = link[m]
                 /\ m \in members' <=> m \in members,
             \A r \in Streams : Node[r] # n => (r \in primary' <=> r \in primary),
             TableTypeOK', n \in Nodes => NodeInv(n)'
      PROVE  TableInv'
  <2>1. ASSUME NEW m \in Nodes, m # n PROVE NodeInv(m)'
    <3>1. \A r \in Streams : Node[r] = m =>
               status'[r] = status[r] /\ (r \in primary' <=> r \in primary)
      BY <1>4, <1>9, <2>1
    <3>2. \A i, j \in DOMAIN list' :
               Node[list'[i]] = m /\ Node[list'[j]] = m /\ j < i =>
                   \E e, f \in DOMAIN list : list[e] = list'[i] /\ list[f] = list'[j] /\ f < e
      <4> SUFFICES ASSUME NEW i \in DOMAIN rest, NEW j \in DOMAIN rest, j < i
                   PROVE  \E e, f \in DOMAIN list :
                              list[e] = rest[i] /\ list[f] = rest[j] /\ f < e
        BY <1>1
      <4>1. PICK e \in DOMAIN list : list[e] = rest[i]
        BY <1>2
      <4>2. PICK f \in DOMAIN list : list[f] = rest[j]
        BY <1>2
      <4>3. f < e
        BY <1>2, <4>1, <4>2
      <4>4. QED
        BY <4>1, <4>2, <4>3
    <3>3. QED
      BY <1>9, <2>1, <3>1, <3>2, OtherNode
  <2>2. QED
    BY <1>5, <1>9, <2>1 DEF TableInv
\* An unverified stream stays in the hashtable, if it is there.
<1>10. CASE s \notin Authorized
  <2>1. UNCHANGED <<primary, table, members, link>>
    BY <1>1, <1>10
  <2>2. TableTypeOK'
    BY <1>1, <1>2, <1>4, <2>1 DEF TableInv, TableTypeOK
  <2>3. ASSUME n \in Nodes PROVE NodeInv(n)'
    <3>1. NodeInv(n) /\ table[n] \in Streams \cup {None} /\ Authorized \subseteq Streams
      BY <2>3, StreamAssumption DEF TableInv, TableTypeOK
    <3>2. table[n] # None =>
             IF table[n] = s THEN status'[s] = "freed" /\ s \notin Movable
             ELSE status'[table[n]] = status[table[n]]
      BY <1>4, <1>10, <3>1 DEF NodeInv, EntryInv
    <3>3. EntryInv(n)'
      BY <1>10, <2>1, <3>1, <3>2 DEF NodeInv, EntryInv
    <3>4. ToldInv(n)'
      BY <1>10, <2>1, <3>1, <3>2 DEF NodeInv, ToldInv, Dangling
    <3>5. PrimaryInv(n)'
      BY <1>4, <1>10, <2>1, <3>1 DEF NodeInv, PrimaryInv
    <3>6. FirstInv(n)'
      BY <1>8, <1>10 DEF FirstInv
    <3>7. QED
      BY <3>3, <3>4, <3>5, <3>6 DEF NodeInv
  <2>4. QED
    BY <1>9, <2>1, <2>2, <2>3
<1>11. CASE s \in Authorized
  <2>1. n \in Nodes /\ n # Blank /\ s # None
    BY <1>11, StreamAssumption
  <2>2. /\ NodeInv(n) /\ table \in [Nodes -> Streams \cup {None}]
        /\ Authorized \subseteq Streams
        /\ link \in [Nodes -> {"none", "uplink", "downlink"}]
    BY <2>1, StreamAssumption DEF TableInv, TableTypeOK
  <2>3. table[n] = s => status[s] = "listed" /\ s \in primary
    BY <1>11, <2>1, <2>2 DEF NodeInv, EntryInv, PrimaryInv
  <2>4. table[n] # s => s \notin primary
    BY <1>11, <2>1, <2>2 DEF NodeInv, PrimaryInv
  <2> DEFINE t == IF table[n] = s THEN [table EXCEPT ![n] = None] ELSE table
  <2>5. /\ t \in [Nodes -> Streams \cup {None}]
        /\ \A m \in Nodes : m # n => t[m] = table[m]
        /\ table[n] = s => t[n] = None
        /\ table[n] # s => t[n] = table[n]
    BY <2>1, <2>2
  <2>6. (IF s \in primary THEN HashDel(s) ELSE {table}) = {t}
    BY <2>3, <2>4 DEF HashDel
  <2> HIDE DEF t
  <2>7. t[n] # None => t[n] = table[n] /\ table[n] # s /\ table[n] \in Streams
                       /\ status'[t[n]] = status[t[n]] /\ Node[t[n]] = n
    BY <1>4, <2>1, <2>2, <2>5 DEF NodeInv, EntryInv
  \* Nobody else has the flag, if the place is free or a freed stream's.
  <2>8. ASSUME NEW r \in Authorized, Node[r] = n, status'[r] = "listed",
               t[n] = None \/ status[t[n]] = "freed"
        PROVE  r \notin primary /\ (t[n] = None => table[n] = s)
    <3>1. r # s /\ status[r] = "listed"
      BY <1>4, <2>2, <2>8
    <3>2. table[n] # None /\ (r \in primary <=> table[n] = r)
      BY <2>2, <2>8, <3>1 DEF NodeInv, PrimaryInv
    <3>3. QED
      BY <2>2, <2>5, <2>7, <2>8, <3>1, <3>2
  <2>9. CASE \E i \in DOMAIN rest, l_double \in Found(t, n) :
                 /\ Successor(s, rest, i)
                 /\ AddToHashtable(rest[i], t, l_double)
                 /\ link' = [link EXCEPT ![n] = Direction(rest[i])]
    <3>1. PICK i \in DOMAIN rest, d \in Found(t, n) :
                 /\ Successor(s, rest, i)
                 /\ AddToHashtable(rest[i], t, d)
                 /\ link' = [link EXCEPT ![n] = Direction(rest[i])]
      BY <2>9
    <3> DEFINE r == rest[i]
    <3>2. /\ r \in Streams /\ r # s /\ r # None /\ Node[r] = n /\ r \notin Movable
          /\ status[r] = "listed" /\ status'[r] = "listed"
      <4>1. r \in Streams /\ r # s /\ status[r] = "listed" /\ status'[r] = "listed"
        BY <1>2, <1>6
      <4>2. Node[r] = n
        BY <3>1 DEF Successor
      <4>3. r # None
        BY <4>1, StreamAssumption
      <4>4. r \notin Movable
        BY <2>1, <4>1, <4>2 DEF MovesAlone
      <4>5. QED
        BY <4>1, <4>2, <4>3, <4>4
    <3>3. \A j \in DOMAIN rest : Node[rest[j]] = n => ~(j < i)
      BY <1>3, <3>1, SMTT(30) DEF Successor
    <3>4. Direction(r) \in {"uplink", "downlink"}
      BY DEF Direction
    <3>5. /\ link' \in [Nodes -> {"none", "uplink", "downlink"}]
          /\ link'[n] = Direction(r) /\ link'[n] # "none"
          /\ \A m \in Nodes : m # n => link'[m] = link[m]
      BY <2>1, <2>2, <3>1, <3>4
    <3>6. d \in {t[n], None} /\ (d = None => t[n] = None \/ status[t[n]] = "freed")
      BY <3>1 DEF Found
    \* The place is another's.
    <3>7. CASE d # None
      <4>1. table' = t /\ UNCHANGED <<primary, members>>
        BY <3>1, <3>7 DEF AddToHashtable
      <4>2. t[n] # None /\ table'[n] = table[n] /\ table[n] # None
        BY <2>7, <3>6, <3>7, <4>1
      <4>3. TableTypeOK'
        BY <1>1, <1>2, <1>4, <2>5, <3>5, <4>1 DEF TableInv, TableTypeOK
      <4>4. EntryInv(n)' /\ ToldInv(n)'
        BY <2>2, <2>7, <3>5, <4>1, <4>2 DEF NodeInv, EntryInv, ToldInv, Dangling
      <4>5. PrimaryInv(n)'
        BY <1>4, <2>2, <4>1, <4>2 DEF NodeInv, PrimaryInv
      <4>6. FirstInv(n)'
        <5> SUFFICES ASSUME OnlyVerified(n)' PROVE FirstInv(n)'
          BY DEF FirstInv
        <5>1. /\ table[n] \in Authorized
              /\ \A e, f \in DOMAIN list : list[e] = table[n] /\ Node[list[f]] = n => ~(f < e)
          BY <1>8, <2>2, <4>2 DEF NodeInv, FirstInv
        <5>2. table[n] # s /\ Node[table[n]] = n /\ status[table[n]] = "listed"
          BY <2>2, <2>7, <4>2, <5>1 DEF NodeInv, EntryInv
        <5>3. PICK k \in DOMAIN rest : rest[k] = table[n]
          BY <1>7, <2>2, <5>1, <5>2
        <5>4. ASSUME NEW j \in DOMAIN rest, Node[rest[j]] = n PROVE ~(j < k)
          <6>1. PICK e \in DOMAIN list : list[e] = rest[k]
            BY <1>2
          <6>2. PICK f \in DOMAIN list : list[f] = rest[j]
            BY <1>2
          <6>3. ~(f < e)
            BY <5>1, <5>3, <5>4, <6>1, <6>2
          <6>4. j < k <=> f < e
            BY <1>2, <6>1, <6>2
          <6>5. QED
            BY <6>3, <6>4
        <5>5. i = k
          <6>1. ~(i < k) /\ ~(k < i)
            BY <3>2, <3>3, <5>2, <5>3, <5>4
          <6>2. QED
            BY <1>3, <6>1, SMTT(30)
        <5>6. \A e \in DOMAIN rest : rest[e] = table[n] => e = k
          BY <1>2, <5>3
        <5>7. QED
          BY <1>1, <3>5, <4>2, <5>1, <5>3, <5>4, <5>5, <5>6 DEF FirstInv, Direction
      <4>7. QED
        BY <1>9, <2>5, <3>5, <4>1, <4>3, <4>4, <4>5, <4>6 DEF NodeInv
    \* The place is free, or what a freed stream left of it is not found.
    <3>8. CASE d = None
      <4>1. /\ primary' = primary \cup {r}
            /\ table' = [t EXCEPT ![n] = r]
            /\ members' = members \cup {n}
        BY <3>1, <3>2, <3>8 DEF AddToHashtable
      <4> HIDE DEF r
      <4>2. /\ table' \in [Nodes -> Streams \cup {None}]
            /\ table'[n] = r /\ \A m \in Nodes : m # n => table'[m] = table[m]
        BY <2>1, <2>5, <3>2, <4>1
      <4>3. TableTypeOK'
        BY <1>1, <1>2, <1>4, <2>1, <3>2, <3>5, <4>1, <4>2 DEF TableInv, TableTypeOK
      <4>4. EntryInv(n)' /\ ToldInv(n)'
        BY <2>1, <3>2, <3>5, <4>1, <4>2 DEF EntryInv, ToldInv
      <4>5. PrimaryInv(n)'
        <5> SUFFICES ASSUME NEW q \in Authorized, Node[q] = n
                     PROVE  /\ q \in primary' => status'[q] \in {"listed", "moving", "freed"}
                            /\ status'[q] = "listed" =>
                                  table'[n] # None /\ (q \in primary' <=> table'[n] = q)
          BY DEF PrimaryInv
        <5>1. q \in primary' => status'[q] \in {"listed", "moving", "freed"}
          BY <1>4, <2>2, <3>2, <4>1 DEF NodeInv, PrimaryInv
        <5>2. status'[q] = "listed" => q \notin primary
          BY <2>8, <3>6, <3>8
        <5>3. QED
          BY <3>2, <4>1, <4>2, <5>1, <5>2
      <4>6. FirstInv(n)'
        <5> SUFFICES ASSUME OnlyVerified(n)' PROVE FirstInv(n)'
          BY DEF FirstInv
        <5>1. r \in Authorized
          BY <3>2 DEF OnlyVerified
        <5>2. \A e, f \in DOMAIN rest : rest[e] = r /\ Node[rest[f]] = n => ~(f < e)
          <6>1. \A e \in DOMAIN rest : rest[e] = r => e = i
            BY <1>2 DEF r
          <6>2. QED
            BY <3>3, <6>1
        <5>3. QED
          BY <1>1, <3>5, <4>2, <5>1, <5>2 DEF FirstInv, Direction
      <4>7. \A m \in Nodes : m # n => (m \in members' <=> m \in members)
        BY <4>1
      <4>8. \A q \in Streams : Node[q] # n => (q \in primary' <=> q \in primary)
        BY <3>2, <4>1
      <4>9. QED
        BY <1>9, <3>5, <4>2, <4>3, <4>4, <4>5, <4>6, <4>7, <4>8 DEF NodeInv
    <3>9. QED
      BY <3>7, <3>8
  <2>10. CASE /\ \A i \in DOMAIN rest : Node[rest[i]] # n
              /\ table' = t
              /\ primary' = primary
              /\ members' = members \ {n}
              /\ link' = [link EXCEPT ![n] = "none"]
    <3>1. /\ link' \in [Nodes -> {"none", "uplink", "downlink"}]
          /\ link'[n] = "none" /\ \A m \in Nodes : m # n => link'[m] = link[m]
      BY <2>1, <2>2, <2>10
    <3>2. \A r \in Streams : status'[r] = "listed" => Node[r] # n
      BY <1>4, <1>7, <2>10
    <3>3. TableTypeOK'
      BY <1>1, <1>2, <1>4, <2>5, <2>10, <3>1 DEF TableInv, TableTypeOK
    \* Only a freed stream can be left there.
    <3>4. table'[n] # None => Dangling(n)' /\ table'[n] \notin Authorized
      BY <2>2, <2>7, <2>10, <3>2 DEF NodeInv, EntryInv, Dangling
    <3>5. EntryInv(n)'
      BY <2>2, <2>7, <2>10 DEF NodeInv, EntryInv
    <3>6. ToldInv(n)'
      BY <2>10, <3>1, <3>4 DEF ToldInv
    <3>7. PrimaryInv(n)'
      BY <1>4, <2>2, <2>10, <3>2 DEF NodeInv, PrimaryInv
    <3>8. FirstInv(n)'
      BY <2>7, <2>10, <3>4, <3>5 DEF FirstInv, OnlyVerified, Dangling
    <3>9. \A m \in Nodes : m # n => (m \in members' <=> m \in members)
      BY <2>10
    <3>10. QED
      BY <1>9, <2>5, <2>10, <3>1, <3>3, <3>5, <3>6, <3>7, <3>8, <3>9 DEF NodeInv
  <2>11. QED
    BY <1>1, <1>11, <2>6, <2>9, <2>10
<1>12. QED
  BY <1>10, <1>11

\* Every step keeps the invariant.
LEMMA TableNextInv ==
    ASSUME MovesAlone, TableInv, [TableNext]_tvars
    PROVE  TableInv'
<1>1. CASE UNCHANGED tvars
  <2>1. TableTypeOK' /\ ListInv'
    BY <1>1 DEF tvars, TableInv, TableTypeOK, ListInv
  <2>2. ASSUME NEW m \in Nodes PROVE NodeInv(m)'
    BY <1>1, OtherNode DEF tvars
  <2>3. QED
    BY <2>1, <2>2 DEF TableInv
<1>2. ASSUME NEW s \in Streams, ServerNew(s) PROVE TableInv'
  BY <1>2, AddKeeps DEF ServerNew
<1>3. ASSUME NEW s \in Streams, ClientNew(s) PROVE TableInv'
  <2>1. /\ status[s] = "none" /\ status'[s] = "created"
        /\ status' \in [Streams -> {"none", "created", "listed", "moving", "freed"}]
        /\ \A r \in Streams : r # s => status'[r] = status[r]
        /\ UNCHANGED <<list, primary, table, members, link>>
    BY <1>3 DEF ClientNew, TableInv, TableTypeOK
  <2>2. TableTypeOK'
    BY <2>1 DEF TableInv, TableTypeOK
  <2>3. ListInv'
    BY <2>1, SMTT(30) DEF TableInv, TableTypeOK, ListInv
  <2>4. ASSUME NEW n \in Nodes PROVE NodeInv(n)'
    <3>1. NodeInv(n) /\ table[n] \in Streams \cup {None} /\ Authorized \subseteq Streams
      BY StreamAssumption DEF TableInv, TableTypeOK
    <3>2. table[n] # None => table[n] # s /\ status'[table[n]] = status[table[n]]
      BY <2>1, <3>1 DEF NodeInv, EntryInv
    <3>3. EntryInv(n)' /\ ToldInv(n)'
      BY <2>1, <3>1, <3>2 DEF NodeInv, EntryInv, ToldInv, Dangling
    <3>4. PrimaryInv(n)'
      BY <2>1, <3>1 DEF NodeInv, PrimaryInv
    <3>5. OnlyVerified(n)' => OnlyVerified(n)
      BY <2>1 DEF OnlyVerified
    <3>6. FirstInv(n)'
      BY <2>1, <3>1, <3>5 DEF NodeInv, FirstInv, Direction
    <3>7. QED
      BY <3>3, <3>4, <3>6 DEF NodeInv
  <2>5. QED
    BY <2>2, <2>3, <2>4 DEF TableInv
<1>4. ASSUME NEW s \in Streams, TargetReached(s) PROVE TableInv'
  BY <1>4, AddKeeps DEF TargetReached
<1>5. ASSUME NEW s \in Streams, Delete(s) PROVE TableInv'
  BY <1>5, DeleteKeeps DEF Delete
<1>6. ASSUME NEW s \in Streams, Unassign(s) PROVE TableInv'
  BY <1>6, DeleteKeeps DEF Unassign
<1>7. ASSUME NEW s \in Streams, Assign(s) PROVE TableInv'
  BY <1>7, AddKeeps DEF Assign
<1>8. QED
  BY <1>1, <1>2, <1>3, <1>4, <1>5, <1>6, <1>7 DEF TableNext

\* For any streams, verified or not, as long as none is moved between workers
\* but one that is alone to its node: what dap_stream_find_by_addr finds goes to
\* the node asked for and is alive if it is authorized; until an unverified
\* stream is freed in the hashtable the members of the global cluster and the
\* links in use are the nodes of the hashtable; one listed authorized stream is
\* enough for its node to be found; and the link manager knows the direction of
\* the primary stream until an unverified one to the node is listed.
THEOREM StreamTableSafety ==
    ASSUME MovesAlone
    PROVE  TableSpec => [](/\ TableTypeOK
                           /\ TableAlive
                           /\ MembersInTable
                           /\ NodeReachable
                           /\ LinkDirection)
<1>1. TableInit => TableInv
  BY TableInitInv
<1>2. TableInv /\ [TableNext]_tvars => TableInv'
  BY TableNextInv
<1>3. TableInv => /\ TableTypeOK /\ TableAlive
                  /\ MembersInTable /\ NodeReachable /\ LinkDirection
  <2> SUFFICES ASSUME TableInv
               PROVE  TableAlive /\ MembersInTable /\ NodeReachable /\ LinkDirection
    BY DEF TableInv
  <2>1. TableAlive /\ MembersInTable /\ LinkDirection
    BY DEF TableInv, NodeInv, EntryInv, ToldInv, FirstInv,
           TableAlive, MembersInTable, LinkDirection
  <2>2. NodeReachable
    BY StreamAssumption DEF TableInv, NodeInv, PrimaryInv, NodeReachable
  <2>3. QED
    BY <2>1, <2>2
<1>4. QED
  BY <1>1, <1>2, <1>3, PTL DEF TableSpec

(***************************************************************************)
(* The links                                                               *)
(***************************************************************************)
States == {"DISCONNECTED", "CONNECTING", "ESTABLISHED"}
Asks == {"begin", "stream"}

Links ==
    [known : BOOLEAN, client : BOOLEAN, state : States, nets : SUBSET Nets,
     delay : BOOLEAN, ready : BOOLEAN, port : BOOLEAN, attempts : Nat,
     is_uplink : BOOLEAN, static_clusters : SUBSET Clusters,
     stream_is_destroyed : BOOLEAN, active_clusters : [Clusters -> Nat],
     members : SUBSET Clusters, joins : SUBSET Clusters, called : SUBSET Clusters,
     stale : SUBSET Clusters, asks : Seq(Asks), asked : Asks, update : BOOLEAN,
     orphan : BOOLEAN]

Clients ==
    [phase : {"rest", "trying", "up", "failed"},
     said : {"nothing", "error", "last", "connected"}]

HighRequests ==
    [op : {"drop", "add", "replace", "delete"}, addr : Addrs, flag : BOOLEAN]

NormalRequests == [addr : Addrs, net : Nets, ok : BOOLEAN]

Agree(l) ==
    /\ l.members # {} \/ l.joins # {} => l.known
    /\ \A c \in l.called : l.called = {c}
    /\ \A c \in l.members \ l.called : l.active_clusters[c] > 0
    /\ \A c \in Clusters \ l.stale :
          l.active_clusters[c] = IF c \in l.members \ l.called THEN 1 ELSE 0

InStep(l) ==
    /\ l.client /\ l.state = "DISCONNECTED" => l.asked = "begin"
    /\ l.client /\ l.state = "CONNECTING" => l.asked = "stream"

Idle(l) ==
    ~l.client => l.state = "DISCONNECTED" /\ l.asked = "begin" /\ l.asks = <<>>

LinkOK(l) == l \in Links /\ Agree(l) /\ InStep(l) /\ Idle(l)

TypeOK ==
    /\ node \in [Addrs -> Links]
    /\ client \in [Addrs -> Clients]
    /\ streams \in [Addrs -> Seq(BOOLEAN)]
    /\ active \subseteq Nets
    /\ leaving \subseteq Nets
    /\ enabled \subseteq Clusters
    /\ high \in Seq(HighRequests)
    /\ normal \in Seq(NormalRequests)
    /\ wakeup \in BOOLEAN
    /\ ops \in Nat

\* The inductive invariant.
IInv ==
    /\ TypeOK
    /\ \A a \in Addrs : LinkOK(node[a])
    /\ \A a \in Addrs : node[a].client \/ client[a] = NewClient

-----------------------------------------------------------------------------
\* The clusters of a net are clusters.
LEMMA ClusterTypes ==
    MainCluster \in [Nets -> Clusters] /\ Associates \in [Nets -> SUBSET Clusters]
  BY LinkAssumption

\* HASH_ADD makes a member whose callback is to come.
LEMMA HashAddOK ==
    ASSUME NEW l, LinkOK(l), l.called = {}, NEW c \in l.joins
    PROVE  LinkOK(HashAdd(l, c)) /\ HashAdd(l, c).client = l.client
<1> DEFINE m == HashAdd(l, c)
<1>1. l \in Links /\ c \in Clusters /\ l.known
  BY DEF LinkOK, Links, Agree
<1>2. m \in Links
  BY <1>1 DEF HashAdd, Links
<1>3. /\ m.known = l.known /\ m.client = l.client /\ m.state = l.state
      /\ m.asked = l.asked /\ m.asks = l.asks
      /\ m.active_clusters = l.active_clusters /\ m.stale = l.stale
      /\ m.members \ m.called = l.members
      /\ m.called = {} \/ m.called = {c}
  <2>1. CASE c \in l.members
    BY <1>1, <2>1 DEF HashAdd, Links
  <2>2. CASE c \notin l.members
    BY <1>1, <2>2 DEF HashAdd, Links
  <2> QED BY <2>1, <2>2
<1> HIDE DEF m
<1>4. l.members \ l.called = l.members
  OBVIOUS
<1>5. Agree(m)
  BY <1>1, <1>3, <1>4 DEF LinkOK, Agree
<1> QED BY <1>2, <1>3, <1>5 DEF LinkOK, InStep, Idle, m

\* The callback lists the cluster, of a member or of one that was deleted.
LEMMA AddCallbackOK ==
    ASSUME NEW l, LinkOK(l), NEW c \in l.called,
           NEW m \in AddCallback(l, c)
    PROVE  LinkOK(m) /\ m.client = l.client
<1>1. /\ l \in Links /\ c \in Clusters /\ l.active_clusters \in [Clusters -> Nat]
      /\ l.called = {c}
  BY DEF LinkOK, Links, Agree
<1> DEFINE t == l.active_clusters[c] + 1
           ac == [l.active_clusters EXCEPT ![c] = t]
           st == IF c \in l.members THEN l.stale ELSE l.stale \cup {c}
           k == [l EXCEPT !.called = {}, !.active_clusters = ac, !.stale = st]
           e == [l EXCEPT !.called = {}]
<1>2. l.active_clusters[c] \in Nat /\ t \in Nat /\ t > 0 /\ (l.active_clusters[c] = 0 => t = 1)
  BY <1>1, SMTT(30)
<1>3. CASE m = k
  <2>1. ac \in [Clusters -> Nat] /\ ac[c] = t
        /\ \A d \in Clusters : d # c => ac[d] = l.active_clusters[d]
    BY <1>1, <1>2
  <2>2. st \in SUBSET Clusters /\ l.stale \subseteq st /\ (c \notin l.members => c \in st)
    BY <1>1 DEF Links
  <2> HIDE DEF ac, st, t
  <2>3. m \in Links
    BY <1>1, <1>3, <2>1, <2>2 DEF Links
  <2>4. /\ m.known = l.known /\ m.client = l.client /\ m.state = l.state
        /\ m.asked = l.asked /\ m.asks = l.asks /\ m.joins = l.joins
        /\ m.members = l.members /\ m.called = {} /\ m.stale = st
        /\ m.active_clusters = ac
    BY <1>1, <1>3 DEF Links
  <2>5. \A d \in m.members \ m.called : m.active_clusters[d] > 0
    <3> SUFFICES ASSUME NEW d \in l.members PROVE ac[d] > 0
      BY <2>4
    <3>1. d \in Clusters
      BY <1>1 DEF Links
    <3>2. CASE d = c
      BY <1>2, <2>1, <3>2
    <3>3. CASE d # c
      BY <1>1, <2>1, <3>1, <3>3 DEF LinkOK, Agree
    <3> QED BY <3>2, <3>3
  <2>6. ASSUME NEW d \in Clusters \ m.stale
        PROVE  m.active_clusters[d] = IF d \in m.members \ m.called THEN 1 ELSE 0
    <3>1. l.active_clusters[d] = IF d \in l.members \ l.called THEN 1 ELSE 0
      BY <2>2, <2>4 DEF LinkOK, Agree
    <3>2. CASE d = c
      <4>1. c \in l.members /\ l.active_clusters[c] = 0
        BY <1>1, <2>2, <2>4, <3>1, <3>2
      <4> QED BY <1>2, <2>1, <2>4, <3>2, <4>1
    <3>3. CASE d # c
      BY <1>1, <2>1, <2>4, <3>1, <3>3
    <3> QED BY <3>2, <3>3
  <2>7. Agree(m)
    BY <2>4, <2>5, <2>6 DEF LinkOK, Agree
  <2> QED BY <2>3, <2>4, <2>7 DEF LinkOK, InStep, Idle
<1>4. CASE c \notin l.members /\ m = e
  <2>1. m \in Links
    BY <1>1, <1>4 DEF Links
  <2>2. /\ m.known = l.known /\ m.client = l.client /\ m.state = l.state
        /\ m.asked = l.asked /\ m.asks = l.asks /\ m.joins = l.joins
        /\ m.members = l.members /\ m.called = {} /\ m.stale = l.stale
        /\ m.active_clusters = l.active_clusters
    BY <1>1, <1>4 DEF Links
  <2>3. m.members \ m.called = l.members \ l.called
    BY <1>1, <1>4, <2>2
  <2>4. Agree(m)
    BY <2>2, <2>3 DEF LinkOK, Agree
  <2> QED BY <2>1, <2>2, <2>4 DEF LinkOK, InStep, Idle
<1>5. m = k \/ (c \notin l.members /\ m = e)
  BY <1>1 DEF AddCallback, Links
<1> QED BY <1>3, <1>4, <1>5

\* dap_cluster_member_delete and the callback do.
LEMMA MemberDeleteOK ==
    ASSUME NEW l, LinkOK(l), NEW cs \in SUBSET Clusters
    PROVE  /\ LinkOK(MemberDelete(l, cs))
           /\ MemberDelete(l, cs).client = l.client
           /\ MemberDelete(l, cs).known = l.known
           /\ MemberDelete(l, cs).members = l.members \ cs
           /\ MemberDelete(l, cs).called = l.called
           /\ MemberDelete(l, cs).joins = l.joins
<1> DEFINE m == MemberDelete(l, cs)
<1>1. m \in Links
  <2> DEFINE ac == [c \in Clusters |->
                      IF c \in cs \cap l.members /\ l.active_clusters[c] > 0
                      THEN l.active_clusters[c] - 1 ELSE l.active_clusters[c]]
  <2>1. l \in Links /\ l.active_clusters \in [Clusters -> Nat]
    BY DEF LinkOK, Links
  <2>2. ac \in [Clusters -> Nat]
    BY <2>1, SMTT(30)
  <2>3. m = [l EXCEPT !.members = l.members \ cs, !.active_clusters = ac]
    BY <2>1 DEF MemberDelete, Links
  <2> HIDE DEF ac, m
  <2> QED BY <2>1, <2>2, <2>3 DEF Links
<1>2. /\ m.members = l.members \ cs
      /\ m.known = l.known /\ m.client = l.client /\ m.state = l.state
      /\ m.asked = l.asked /\ m.asks = l.asks
      /\ m.joins = l.joins /\ m.called = l.called /\ m.stale = l.stale
  BY DEF LinkOK, Links, MemberDelete
<1>3. ASSUME NEW c \in Clusters
      PROVE  /\ c \in m.members \ m.called => m.active_clusters[c] > 0
             /\ c \notin m.stale =>
                   m.active_clusters[c] = IF c \in m.members \ m.called THEN 1 ELSE 0
  <2>1. m.active_clusters[c] =
            IF c \in cs \cap l.members /\ l.active_clusters[c] > 0
            THEN l.active_clusters[c] - 1 ELSE l.active_clusters[c]
    BY DEF LinkOK, Links, MemberDelete
  <2>2. /\ c \in l.members \ l.called => l.active_clusters[c] > 0
        /\ c \notin l.stale =>
              l.active_clusters[c] = IF c \in l.members \ l.called THEN 1 ELSE 0
    BY DEF LinkOK, Agree
  <2>3. l.active_clusters[c] \in Nat
    BY DEF LinkOK, Links
  <2> QED BY <2>1, <2>2, <2>3, <1>2, SMTT(30)
<1>4. Agree(m)
  <2>1. m.members # {} \/ m.joins # {} => m.known
    BY <1>2 DEF LinkOK, Agree
  <2>2. m.members \subseteq Clusters
    BY <1>1 DEF Links
  <2>3. \A c \in m.called : m.called = {c}
    BY <1>2 DEF LinkOK, Agree
  <2> QED BY <1>3, <2>1, <2>2, <2>3 DEF Agree
<1> QED BY <1>1, <1>2, <1>4 DEF LinkOK, InStep, Idle

-----------------------------------------------------------------------------
\* A request for the beginning suits every state but CONNECTING.
LEMMA AskBeginOK ==
    ASSUME NEW l, l \in Links
    PROVE  /\ AskBegin(l) \in Links
           /\ AskBegin(l).known = l.known
           /\ AskBegin(l).client = l.client
           /\ AskBegin(l).state = l.state
           /\ AskBegin(l).active_clusters = l.active_clusters
           /\ AskBegin(l).members = l.members
           /\ AskBegin(l).joins = l.joins
           /\ AskBegin(l).called = l.called
           /\ AskBegin(l).stale = l.stale
           /\ l.client => AskBegin(l).asked = "begin"
           /\ ~l.client => AskBegin(l) = l
<1>1. CASE ~l.client
  BY <1>1 DEF AskBegin
<1>2. CASE l.client
  <2> DEFINE q == Append(l.asks, "begin")
  <2>1. q \in Seq(Asks)
    BY SMTT(30) DEF Links, Asks
  <2>2. AskBegin(l) = [l EXCEPT !.asks = q, !.asked = "begin"]
    BY <1>2 DEF AskBegin, Links
  <2> HIDE DEF q
  <2>3. AskBegin(l) \in Links
    BY <2>1, <2>2 DEF Links, Asks
  <2> QED BY <2>2, <2>3, <1>2 DEF Links
<1> QED BY <1>1, <1>2 DEF Links

\* LinkOK depends on few of the fields.
LEMMA SameOK ==
    ASSUME NEW l, LinkOK(l), NEW m, m \in Links,
           m.known = l.known, m.client = l.client, m.members = l.members,
           m.active_clusters = l.active_clusters,
           m.joins = l.joins, m.called = l.called, m.stale = l.stale,
           m.state = l.state, m.asked = l.asked, m.asks = l.asks
    PROVE  LinkOK(m)
  BY DEF LinkOK, Agree, InStep, Idle

\* A client that is asked for the beginning and a link that is DISCONNECTED.
LEMMA StoppedOK ==
    ASSUME NEW l, LinkOK(l), NEW m, m \in Links,
           m.known = l.known, m.client = l.client, m.members = l.members,
           m.active_clusters = l.active_clusters,
           m.joins = l.joins, m.called = l.called, m.stale = l.stale,
           m.state = "DISCONNECTED",
           m.client => m.asked = "begin",
           ~m.client => m.asked = l.asked /\ m.asks = l.asks
    PROVE  LinkOK(m)
  BY DEF LinkOK, Agree, InStep, Idle

\* s_link_connect: only with a client.
LEMMA LinkConnectOK ==
    ASSUME NEW l, LinkOK(l), l.client
    PROVE  LinkOK(LinkConnect(l)) /\ LinkConnect(l).client
<1>1. LinkConnect(l) \in Links
  <2> DEFINE q == Append(l.asks, "stream")
  <2>1. l \in Links /\ q \in Seq(Asks)
    BY SMTT(30) DEF LinkOK, Links, Asks
  <2>2. LinkConnect(l) = [l EXCEPT !.state = "CONNECTING", !.asks = q, !.asked = "stream"]
    BY <2>1 DEF LinkConnect, Links
  <2>3. "CONNECTING" \in States /\ "stream" \in Asks
    BY DEF States, Asks
  <2> HIDE DEF q
  <2> QED BY <2>1, <2>2, <2>3 DEF Links
<1>2. /\ LinkConnect(l).state = "CONNECTING" /\ LinkConnect(l).asked = "stream"
      /\ LinkConnect(l).client = l.client /\ LinkConnect(l).known = l.known
      /\ LinkConnect(l).members = l.members
      /\ LinkConnect(l).active_clusters = l.active_clusters
      /\ LinkConnect(l).joins = l.joins /\ LinkConnect(l).called = l.called
      /\ LinkConnect(l).stale = l.stale
  BY DEF LinkOK, Links, LinkConnect
<1> QED BY <1>1, <1>2 DEF LinkOK, Agree, InStep, Idle

\* No link at all is sound.
LEMMA NoLinkOK == LinkOK(NoLink)
<1>1. NoLink \in Links
  BY SMTT(30) DEF NoLink, Links, States, Asks
<1> QED BY <1>1 DEF NoLink, LinkOK, Agree, InStep, Idle

\* A link that is freed is in no cluster any more.
LEMMA FreedOK ==
    ASSUME NEW l, l \in Links, l.members = {}
    PROVE  LinkOK(Freed(l)) /\ ~Freed(l).client
<1>1. LinkOK(NoLink) /\ NoLink \in Links
  BY NoLinkOK DEF LinkOK
<1>2. Freed(l) \in Links
  BY <1>1 DEF Links, Freed
<1>3. /\ Freed(l).members = NoLink.members
      /\ Freed(l).known = NoLink.known /\ Freed(l).client = FALSE
      /\ NoLink.client = FALSE
      /\ Freed(l).active_clusters = NoLink.active_clusters
      /\ Freed(l).joins = NoLink.joins /\ Freed(l).called = NoLink.called
      /\ Freed(l).stale = NoLink.stale
      /\ Freed(l).state = NoLink.state /\ Freed(l).asked = NoLink.asked
      /\ Freed(l).asks = NoLink.asks
  BY DEF Freed, NoLink
<1> QED BY <1>1, <1>2, <1>3, SameOK

\* s_link_delete: what is listed is what the node is a member of, so that no
\* membership outlives the link.
LEMMA LinkDeleteOK ==
    ASSUME NEW l, LinkOK(l), l.called = {}, NEW p \in BOOLEAN
    PROVE  LinkOK(LinkDelete(l, p))
<1> DEFINE d == MemberDelete(l, Listed(l))
<1>1. Listed(l) \in SUBSET Clusters
  BY DEF Listed
<1>2. l.members \subseteq Listed(l)
  BY SMTT(30) DEF Listed, LinkOK, Links, Agree
<1>3. LinkOK(d) /\ d.members = {} /\ d.client = l.client
  BY <1>1, <1>2, MemberDeleteOK, SMTT(30)
<1> HIDE DEF d
<1>4. d \in Links
  BY <1>3 DEF LinkOK
<1>5. CASE ~(p \/ d.static_clusters # {})
  BY <1>3, <1>4, <1>5, FreedOK DEF LinkDelete, d
<1>6. CASE (p \/ d.static_clusters # {}) /\ (d.stream_is_destroyed \/ ~d.client)
  BY <1>3, <1>6 DEF LinkDelete, d
<1>7. CASE /\ p \/ d.static_clusters # {}
           /\ ~(d.stream_is_destroyed \/ ~d.client)
           /\ d.state = "DISCONNECTED"
  <2> DEFINE m == [d EXCEPT !.nets = {}]
  <2>1. LinkDelete(l, p) = m
    BY <1>7 DEF LinkDelete, d
  <2>2. m \in Links
    BY <1>4 DEF Links
  <2>3. /\ m.known = d.known /\ m.client = d.client /\ m.members = d.members
        /\ m.active_clusters = d.active_clusters
        /\ m.joins = d.joins /\ m.called = d.called /\ m.stale = d.stale
        /\ m.state = d.state /\ m.asked = d.asked /\ m.asks = d.asks
    BY <1>4 DEF Links
  <2> HIDE DEF m
  <2> QED BY <2>1, <2>2, <2>3, <1>3, SameOK
<1>8. CASE /\ p \/ d.static_clusters # {}
           /\ ~(d.stream_is_destroyed \/ ~d.client)
           /\ d.state # "DISCONNECTED"
  <2> DEFINE b == AskBegin(d)
             m == [b EXCEPT !.nets = {}, !.state = "DISCONNECTED"]
  <2>1. LinkDelete(l, p) = m
    BY <1>8 DEF LinkDelete, d
  <2>2. /\ b \in Links /\ b.known = d.known /\ b.client = d.client
        /\ b.members = d.members /\ b.active_clusters = d.active_clusters
        /\ b.joins = d.joins /\ b.called = d.called /\ b.stale = d.stale
        /\ b.asked = "begin"
    BY <1>4, <1>8, AskBeginOK
  <2> HIDE DEF b
  <2>3. m \in Links
    BY <2>2 DEF Links, States
  <2>4. /\ m.known = d.known /\ m.client = d.client /\ m.members = d.members
        /\ m.active_clusters = d.active_clusters
        /\ m.joins = d.joins /\ m.called = d.called /\ m.stale = d.stale
        /\ m.state = "DISCONNECTED" /\ m.asked = "begin"
    BY <2>2 DEF Links
  <2> HIDE DEF m
  <2> QED BY <2>1, <2>3, <2>4, <1>3, <1>8, StoppedOK
<1> QED BY <1>5, <1>6, <1>7, <1>8

\* A link with no static role is freed whatever its client was asked for.
LEMMA LinkFreedOK ==
    ASSUME NEW l, l \in Links, Agree(l), l.called = {}, l.static_clusters = {}
    PROVE  LinkOK(LinkDelete(l, FALSE))
<1> DEFINE d == MemberDelete(l, Listed(l))
           ac == [c \in Clusters |->
                    IF c \in Listed(l) \cap l.members /\ l.active_clusters[c] > 0
                    THEN l.active_clusters[c] - 1 ELSE l.active_clusters[c]]
<1>1. l.active_clusters \in [Clusters -> Nat] /\ l.members \subseteq Clusters
  BY DEF Links
<1>2. ac \in [Clusters -> Nat]
  BY <1>1, SMTT(30)
<1>3. d = [l EXCEPT !.members = l.members \ Listed(l), !.active_clusters = ac]
  BY DEF MemberDelete, Links
<1>4. l.members \subseteq Listed(l)
  BY <1>1, SMTT(30) DEF Listed, Agree
<1> HIDE DEF ac, d
<1>5. d \in Links /\ d.members = l.members \ Listed(l) /\ d.static_clusters = {}
  BY <1>2, <1>3 DEF Links
<1>6. LinkDelete(l, FALSE) = Freed(d)
  BY <1>5 DEF LinkDelete, d
<1> QED BY <1>4, <1>5, <1>6, FreedOK

\* s_link_drop, the last attempt: the client is always asked for the
\* beginning, or goes with the link.
LEMMA LinkDropLastOK ==
    ASSUME NEW l, LinkOK(l), l.called = {}, NEW permanent
    PROVE  LinkOK(LinkDropLast(l, permanent))
<1> DEFINE k == [l EXCEPT !.state = "DISCONNECTED", !.delay = TRUE, !.attempts = @ + 1]
           m == [k EXCEPT !.nets = @ \cap active \cap permanent, !.attempts = 0]
<1>1. l \in Links
  BY DEF LinkOK
<1>2. k \in Links
  <2> DEFINE t == l.attempts + 1
  <2>1. t \in Nat
    BY <1>1, SMTT(30) DEF Links
  <2>2. k = [l EXCEPT !.state = "DISCONNECTED", !.delay = TRUE, !.attempts = t]
    BY <1>1 DEF Links
  <2> HIDE DEF t, k
  <2> QED BY <1>1, <2>1, <2>2 DEF Links, States
<1>3. /\ k.known = l.known /\ k.client = l.client /\ k.members = l.members
      /\ k.active_clusters = l.active_clusters /\ k.state = "DISCONNECTED"
      /\ k.joins = l.joins /\ k.called = l.called /\ k.stale = l.stale
      /\ k.asked = l.asked /\ k.asks = l.asks
  BY <1>1 DEF Links
<1>4. LinkDropLast(l, permanent) =
        IF k.attempts < max_attempts_num THEN AskBegin(k)
        ELSE IF ~InUse(m) /\ m.nets = {} /\ m.static_clusters = {}
             THEN LinkDelete(m, FALSE) ELSE AskBegin(m)
  BY DEF LinkDropLast
<1> HIDE DEF k
<1>5. m \in Links
  BY <1>2 DEF Links
<1>6. /\ m.known = l.known /\ m.client = l.client /\ m.members = l.members
      /\ m.active_clusters = l.active_clusters /\ m.state = "DISCONNECTED"
      /\ m.joins = l.joins /\ m.called = l.called /\ m.stale = l.stale
      /\ m.asked = l.asked /\ m.asks = l.asks
  BY <1>2, <1>3 DEF Links
<1> HIDE DEF m
<1>7. LinkOK(AskBegin(k))
  BY <1>2, <1>3, AskBeginOK, StoppedOK
<1>8. LinkOK(AskBegin(m))
  BY <1>5, <1>6, AskBeginOK, StoppedOK
<1>9. Agree(m)
  BY <1>6, SMTT(30) DEF Agree, LinkOK
<1>10. m.static_clusters = {} => LinkOK(LinkDelete(m, FALSE))
  BY <1>5, <1>6, <1>9, LinkFreedOK
<1> QED BY <1>4, <1>7, <1>8, <1>10

\* s_link_drop, any other error.
LEMMA LinkDropErrorOK ==
    ASSUME NEW l, LinkOK(l), l.called = {}
    PROVE  LinkOK(LinkDropError(l))
<1>1. l \in Links
  BY DEF LinkOK
<1>2. CASE l.state = "ESTABLISHED"
  <2> DEFINE m == [l EXCEPT !.stream_is_destroyed = TRUE]
  <2>1. m \in Links
    BY <1>1 DEF Links
  <2>2. /\ m.known = l.known /\ m.client = l.client /\ m.members = l.members
        /\ m.active_clusters = l.active_clusters
        /\ m.joins = l.joins /\ m.called = l.called /\ m.stale = l.stale
        /\ m.state = l.state /\ m.asked = l.asked /\ m.asks = l.asks
    BY <1>1 DEF Links
  <2>3. LinkDropError(l) = LinkDelete(m, TRUE)
    BY <1>2 DEF LinkDropError
  <2> HIDE DEF m
  <2>4. LinkOK(m)
    BY <2>1, <2>2, SameOK
  <2> QED BY <2>2, <2>3, <2>4, LinkDeleteOK
<1>3. CASE l.state # "ESTABLISHED" /\ InUse(l)
  <2> DEFINE b == AskBegin(l)
             m == [b EXCEPT !.state = "DISCONNECTED"]
  <2>1. /\ b \in Links /\ b.known = l.known /\ b.client = l.client
        /\ b.members = l.members /\ b.active_clusters = l.active_clusters
        /\ b.joins = l.joins /\ b.called = l.called /\ b.stale = l.stale
        /\ l.client => b.asked = "begin"
        /\ ~l.client => b = l
    BY <1>1, AskBeginOK
  <2>2. LinkDropError(l) = m
    BY <1>3 DEF LinkDropError
  <2> HIDE DEF b
  <2>3. m \in Links
    BY <2>1 DEF Links, States
  <2>4. /\ m.known = l.known /\ m.client = l.client /\ m.members = l.members
        /\ m.active_clusters = l.active_clusters /\ m.state = "DISCONNECTED"
        /\ m.joins = l.joins /\ m.called = l.called /\ m.stale = l.stale
        /\ m.asked = b.asked /\ m.asks = b.asks
    BY <2>1 DEF Links
  <2> HIDE DEF m
  <2> QED BY <2>1, <2>2, <2>3, <2>4, StoppedOK
<1>4. CASE l.state # "ESTABLISHED" /\ ~InUse(l)
  BY <1>4 DEF LinkDropError
<1> QED BY <1>2, <1>3, <1>4

\* s_stream_add_callback.
LEMMA StreamAddOK ==
    ASSUME NEW l, LinkOK(l), NEW up \in BOOLEAN
    PROVE  LinkOK(StreamAdd(l, up))
<1> DEFINE k == [l EXCEPT !.known = TRUE]
           cs == l.static_clusters \cap enabled
           m == [k EXCEPT !.joins = cs, !.is_uplink = up]
<1>1. CASE (~l.known /\ up) \/ InUse(l)
  BY <1>1 DEF StreamAdd
<1>2. CASE ~((~l.known /\ up) \/ InUse(l))
  <2>1. l \in Links
    BY DEF LinkOK
  <2>2. cs \in SUBSET Clusters
    BY <2>1 DEF Links
  <2>3. StreamAdd(l, up) = m
    BY <1>2 DEF StreamAdd
  <2> HIDE DEF cs
  <2>4. m \in Links
    BY <2>1, <2>2 DEF Links
  <2>5. /\ m.known /\ m.client = l.client /\ m.members = l.members
        /\ m.active_clusters = l.active_clusters
        /\ m.called = l.called /\ m.stale = l.stale
        /\ m.state = l.state /\ m.asked = l.asked /\ m.asks = l.asks
    BY <2>1 DEF Links
  <2> HIDE DEF m
  <2> QED BY <2>3, <2>4, <2>5 DEF LinkOK, Agree, InStep, Idle
<1> QED BY <1>1, <1>2

\* s_stream_replace_callback.
LEMMA StreamReplaceOK ==
    ASSUME NEW l, LinkOK(l), NEW up \in BOOLEAN
    PROVE  LinkOK(StreamReplace(l, up))
<1>1. l \in Links
  BY DEF LinkOK
<1>2. CASE ~l.known \/ ~InUse(l)
  BY <1>2 DEF StreamReplace
<1>3. CASE l.known /\ InUse(l) /\ l.is_uplink /\ ~up
  <2> DEFINE b == AskBegin(l)
             m == [b EXCEPT !.state = "DISCONNECTED", !.is_uplink = up]
  <2>1. /\ b \in Links /\ b.known = l.known /\ b.client = l.client
        /\ b.members = l.members /\ b.active_clusters = l.active_clusters
        /\ b.joins = l.joins /\ b.called = l.called /\ b.stale = l.stale
        /\ l.client => b.asked = "begin"
        /\ ~l.client => b = l
    BY <1>1, AskBeginOK
  <2>2. StreamReplace(l, up) = m
    BY <1>3 DEF StreamReplace
  <2> HIDE DEF b
  <2>3. m \in Links
    BY <2>1 DEF Links, States
  <2>4. /\ m.known = l.known /\ m.client = l.client /\ m.members = l.members
        /\ m.active_clusters = l.active_clusters /\ m.state = "DISCONNECTED"
        /\ m.joins = l.joins /\ m.called = l.called /\ m.stale = l.stale
        /\ m.asked = b.asked /\ m.asks = b.asks
    BY <2>1 DEF Links
  <2> HIDE DEF m
  <2> QED BY <2>1, <2>2, <2>3, <2>4, StoppedOK
<1>4. CASE l.known /\ InUse(l) /\ ~(l.is_uplink /\ ~up)
  <2> DEFINE m == [l EXCEPT !.is_uplink = up]
  <2>1. m \in Links
    BY <1>1 DEF Links
  <2>2. /\ m.known = l.known /\ m.client = l.client /\ m.members = l.members
        /\ m.active_clusters = l.active_clusters
        /\ m.joins = l.joins /\ m.called = l.called /\ m.stale = l.stale
        /\ m.state = l.state /\ m.asked = l.asked /\ m.asks = l.asks
    BY <1>1 DEF Links
  <2>3. StreamReplace(l, up) = m
    BY <1>4 DEF StreamReplace
  <2> HIDE DEF m
  <2> QED BY <2>1, <2>2, <2>3, SameOK
<1> QED BY <1>2, <1>3, <1>4

\* s_stream_delete_callback.
LEMMA StreamDeleteOK ==
    ASSUME NEW l, LinkOK(l), l.called = {}
    PROVE  LinkOK(StreamDelete(l))
<1> DEFINE k == [l EXCEPT !.stream_is_destroyed = TRUE]
           d == MemberDelete(k, Listed(l))
<1>1. l \in Links
  BY DEF LinkOK
<1>2. k \in Links
  BY <1>1 DEF Links
<1>3. /\ k.known = l.known /\ k.client = l.client /\ k.members = l.members
      /\ k.active_clusters = l.active_clusters
      /\ k.joins = l.joins /\ k.called = l.called /\ k.stale = l.stale
      /\ k.state = l.state /\ k.asked = l.asked /\ k.asks = l.asks
  BY <1>1 DEF Links
<1>4. StreamDelete(l) =
        IF ~l.known \/ ~InUse(l) THEN l
        ELSE IF d.client THEN d ELSE LinkDelete(d, FALSE)
  BY DEF StreamDelete
<1> HIDE DEF k
<1>5. LinkOK(k)
  BY <1>2, <1>3, SameOK
<1>6. LinkOK(d) /\ d.called = {}
  <2>1. Listed(l) \in SUBSET Clusters
    BY DEF Listed
  <2> QED BY <1>3, <1>5, <2>1, MemberDeleteOK
<1> HIDE DEF d
<1>7. LinkOK(LinkDelete(d, FALSE))
  BY <1>6, LinkDeleteOK
<1> QED BY <1>4, <1>6, <1>7

\* s_link_accounting_callback with no_error.
LEMMA AccountingJoinOK ==
    ASSUME NEW l, LinkOK(l), NEW n \in Nets
    PROVE  LinkOK(AccountingJoin(l, n))
<1> DEFINE cs == {MainCluster[n]} \cup (Associates[n] \cap l.static_clusters)
           m == [l EXCEPT !.joins = cs]
<1>1. l \in Links
  BY DEF LinkOK
<1>2. cs \in SUBSET Clusters
  BY <1>1, ClusterTypes DEF Links
<1>3. AccountingJoin(l, n) = IF l.known THEN m ELSE l
  BY DEF AccountingJoin
<1> HIDE DEF cs
<1>4. m \in Links
  BY <1>1, <1>2 DEF Links
<1>5. /\ m.known = l.known /\ m.client = l.client /\ m.members = l.members
      /\ m.active_clusters = l.active_clusters
      /\ m.called = l.called /\ m.stale = l.stale
      /\ m.state = l.state /\ m.asked = l.asked /\ m.asks = l.asks
  BY <1>1 DEF Links
<1> HIDE DEF m
<1>6. l.known => LinkOK(m)
  BY <1>4, <1>5 DEF LinkOK, Agree, InStep, Idle
<1> QED BY <1>3, <1>6

\* s_link_accounting_callback without.
LEMMA AccountingLeaveOK ==
    ASSUME NEW l, LinkOK(l), l.called = {}, NEW n \in Nets, NEW permanent \in BOOLEAN
    PROVE  LinkOK(AccountingLeave(l, n, permanent))
<1> DEFINE d == MemberDelete(l, LinkClusters(n))
           k == [d EXCEPT !.delay = TRUE]
           m == [k EXCEPT !.nets = @ \ {n}]
<1>1. LinkOK(d) /\ d.called = {}
  <2>1. LinkClusters(n) \in SUBSET Clusters
    BY ClusterTypes DEF LinkClusters
  <2> QED BY <2>1, MemberDeleteOK
<1>2. AccountingLeave(l, n, permanent) =
        IF ~l.known THEN l
        ELSE IF permanent THEN k
        ELSE IF m.client /\ m.nets = {} /\ m.static_clusters = {}
             THEN LinkDelete(m, FALSE)
             ELSE m
  BY DEF AccountingLeave
<1> HIDE DEF d
<1>3. d \in Links
  BY <1>1 DEF LinkOK
<1>4. k \in Links
  BY <1>3 DEF Links
<1>5. /\ k.known = d.known /\ k.client = d.client /\ k.members = d.members
      /\ k.active_clusters = d.active_clusters
      /\ k.joins = d.joins /\ k.called = d.called /\ k.stale = d.stale
      /\ k.state = d.state /\ k.asked = d.asked /\ k.asks = d.asks
  BY <1>3 DEF Links
<1> HIDE DEF k
<1>6. m \in Links
  BY <1>4 DEF Links
<1>7. /\ m.known = k.known /\ m.client = k.client /\ m.members = k.members
      /\ m.active_clusters = k.active_clusters
      /\ m.joins = k.joins /\ m.called = k.called /\ m.stale = k.stale
      /\ m.state = k.state /\ m.asked = k.asked /\ m.asks = k.asks
  BY <1>4 DEF Links
<1> HIDE DEF m
<1>8. LinkOK(k)
  BY <1>1, <1>4, <1>5, SameOK
<1>9. LinkOK(m)
  BY <1>6, <1>7, <1>8, SameOK
<1>10. LinkOK(LinkDelete(m, FALSE))
  BY <1>1, <1>5, <1>7, <1>9, LinkDeleteOK
<1> QED BY <1>2, <1>8, <1>9, <1>10

\* What one report makes of a link.
LEMMA HandledOK ==
    ASSUME NEW l, LinkOK(l), l.called = {}, NEW r \in HighRequests,
           NEW m \in Handled(l, r)
    PROVE  LinkOK(m)
<1>1. r.op \in {"drop", "add", "replace", "delete"} /\ r.flag \in BOOLEAN
  BY DEF HighRequests
<1>2. CASE r.op = "drop"
  <2>1. m \in LinkDrop(l, r.flag)
    BY <1>2 DEF Handled
  <2> QED BY <2>1, LinkDropLastOK, LinkDropErrorOK DEF LinkDrop
<1>3. CASE r.op = "add"
  BY <1>1, <1>3, StreamAddOK DEF Handled
<1>4. CASE r.op = "replace"
  BY <1>1, <1>4, StreamReplaceOK DEF Handled
<1>5. CASE r.op = "delete"
  BY <1>5, StreamDeleteOK DEF Handled
<1> QED BY <1>1, <1>2, <1>3, <1>4, <1>5

-----------------------------------------------------------------------------
\* The part of the invariant that is about links and clients.
NodesOK ==
    /\ node \in [Addrs -> Links]
    /\ client \in [Addrs -> Clients]
    /\ \A a \in Addrs : LinkOK(node[a])
    /\ \A a \in Addrs : node[a].client \/ client[a] = NewClient

\* The rest of it.
RestOK ==
    /\ streams \in [Addrs -> Seq(BOOLEAN)]
    /\ active \subseteq Nets
    /\ leaving \subseteq Nets
    /\ enabled \subseteq Clusters
    /\ high \in Seq(HighRequests)
    /\ normal \in Seq(NormalRequests)
    /\ wakeup \in BOOLEAN
    /\ ops \in Nat

\* The two parts are the invariant.
LEMMA Split == IInv <=> NodesOK /\ RestOK
  BY DEF IInv, TypeOK, NodesOK, RestOK

\* A client that was just made.
LEMMA NewClientOK == NewClient \in Clients
  BY DEF NewClient, Clients

\* A handler that leaves a sound link behind.
LEMMA SettleOK ==
    ASSUME NodesOK, NEW b \in Addrs, NEW l, LinkOK(l), Settle(b, l)
    PROVE  NodesOK'
<1>1. l \in Links
  BY DEF LinkOK
<1>2. node' = [node EXCEPT ![b] = l] /\ node' \in [Addrs -> Links]
  BY <1>1 DEF NodesOK, Settle
<1>3. client' \in [Addrs -> Clients]
  BY NewClientOK DEF NodesOK, Settle
<1>4. ASSUME NEW a \in Addrs PROVE LinkOK(node[a]')
  BY <1>2 DEF NodesOK
<1>5. ASSUME NEW a \in Addrs PROVE node'[a].client \/ client'[a] = NewClient
  <2>1. CASE a = b
    BY <1>2, <2>1 DEF NodesOK, Settle
  <2>2. CASE a # b
    BY <1>2, <2>2 DEF NodesOK, Settle
  <2> QED BY <2>1, <2>2
<1> QED BY <1>2, <1>3, <1>4, <1>5 DEF NodesOK

\* A step that goes over all links.
LEMMA AllSettleOK ==
    ASSUME NodesOK, DOMAIN node' = Addrs, node' = [a \in Addrs |-> node'[a]],
           \A a \in Addrs : LinkOK(node'[a]),
           client' = [a \in Addrs |-> IF node'[a].client THEN client[a] ELSE NewClient]
    PROVE  NodesOK'
<1>1. \A a \in Addrs : node'[a] \in Links
  BY DEF LinkOK
<1>2. node' \in [Addrs -> Links]
  BY <1>1
<1>3. client' \in [Addrs -> Clients]
  BY NewClientOK DEF NodesOK
<1> QED BY <1>2, <1>3 DEF NodesOK

\* A step that changes one link and leaves its client alone.
LEMMA OneOK ==
    ASSUME NodesOK, NEW b \in Addrs, NEW l, LinkOK(l),
           node' = [node EXCEPT ![b] = l],
           l.client = node[b].client \/ l.client, client' = client
    PROVE  NodesOK'
<1>1. l \in Links
  BY DEF LinkOK
<1>2. node' \in [Addrs -> Links]
  BY <1>1 DEF NodesOK
<1>3. ASSUME NEW a \in Addrs PROVE LinkOK(node'[a])
  BY DEF NodesOK
<1>4. ASSUME NEW a \in Addrs PROVE node'[a].client \/ client'[a] = NewClient
  BY DEF NodesOK
<1> QED BY <1>2, <1>3, <1>4 DEF NodesOK

\* A step of a client whose link has one.
LEMMA ClientOK ==
    ASSUME NodesOK, NEW b \in Addrs, node[b].client, NEW c \in Clients,
           client' = [client EXCEPT ![b] = c], node' = node
    PROVE  NodesOK'
<1>1. client' \in [Addrs -> Clients]
  BY DEF NodesOK
<1>2. ASSUME NEW a \in Addrs PROVE node'[a].client \/ client'[a] = NewClient
  BY DEF NodesOK
<1> QED BY <1>1, <1>2 DEF NodesOK

\* A step of a client together with its link.
LEMMA BothOK ==
    ASSUME NodesOK, NEW b \in Addrs, NEW l, LinkOK(l), l.client, NEW c \in Clients,
           node' = [node EXCEPT ![b] = l], client' = [client EXCEPT ![b] = c]
    PROVE  NodesOK'
<1>1. l \in Links
  BY DEF LinkOK
<1>2. node' \in [Addrs -> Links] /\ client' \in [Addrs -> Clients]
  BY <1>1 DEF NodesOK
<1>3. ASSUME NEW a \in Addrs
      PROVE  LinkOK(node'[a]) /\ (node'[a].client \/ client'[a] = NewClient)
  BY DEF NodesOK
<1> QED BY <1>2, <1>3 DEF NodesOK

\* A client that is not at rest belongs to a link.
LEMMA BusyClient ==
    ASSUME NodesOK, NEW b \in Addrs, client[b].phase # "rest"
    PROVE  node[b].client
  BY SMTT(30) DEF NodesOK, NewClient

\* The streams left when one ends, and what is reported then.
LEMMA StreamsOK ==
    ASSUME RestOK, NEW b \in Addrs, NEW i \in DOMAIN streams[b]
    PROVE  /\ Without(streams[b], i) \in Seq(BOOLEAN)
           /\ Reports(b, i) \in Seq(HighRequests)
<1> DEFINE q == streams[b]
           w == Without(q, i)
<1>1. q \in Seq(BOOLEAN) /\ i \in 1..Len(q) /\ Len(q) \in Nat
  BY SMTT(30) DEF RestOK
<1> HIDE DEF q
<1>2. SubSeq(q, 1, i - 1) \in Seq(BOOLEAN)
  BY <1>1, SMTT(30)
<1>3. SubSeq(q, i + 1, Len(q)) \in Seq(BOOLEAN)
  BY <1>1, SMTT(30)
<1>4. w \in Seq(BOOLEAN)
  BY <1>2, <1>3, SMTT(30) DEF Without
<1> HIDE DEF w
<1>5. w # <<>> => w[1] \in BOOLEAN
  BY <1>4, SMTT(30)
<1>6. ASSUME NEW f \in BOOLEAN, NEW o \in {"drop", "add", "replace", "delete"}
      PROVE  Request(o, b, f) \in HighRequests
  BY DEF Request, HighRequests
<1>7. <<Request("delete", b, FALSE)>> \in Seq(HighRequests)
  <2> DEFINE e == Request("delete", b, FALSE)
  <2>1. e \in HighRequests
    BY DEF Request, HighRequests
  <2> HIDE DEF e
  <2>2. <<e>> \in Seq(HighRequests)
    BY <2>1, SMTT(30)
  <2> QED BY <2>2 DEF e
<1>8. w # <<>> => <<Request("replace", b, w[1])>> \in Seq(HighRequests)
  BY <1>5, <1>6, SMTT(30)
<1>9. w # <<>> =>
        <<Request("add", b, w[1]), Request("replace", b, w[1])>> \in Seq(HighRequests)
  <2>1. HAVE w # <<>>
  <2>2. Request("add", b, w[1]) \in HighRequests /\ Request("replace", b, w[1]) \in HighRequests
    BY <1>5, <1>6, <2>1
  <2> QED BY <2>2, SMTT(30)
<1>10. Reports(b, i) =
         IF w = <<>> THEN <<Request("delete", b, FALSE)>>
         ELSE IF i = 1
              THEN <<Request("add", b, w[1]), Request("replace", b, w[1])>>
              ELSE <<Request("replace", b, w[1])>>
  BY DEF Reports, w, q
<1>11. Reports(b, i) \in Seq(HighRequests)
  BY <1>7, <1>8, <1>9, <1>10
<1> QED BY <1>4, <1>11 DEF w, q

-----------------------------------------------------------------------------
\* One lemma for each group of actions.
LEMMA RunHighOK == ASSUME IInv, RunHigh PROVE IInv'
<1>1. NodesOK /\ RestOK
  BY Split
<1> DEFINE r == Head(high)
<1>2. r \in HighRequests /\ r.addr \in Addrs /\ Tail(high) \in Seq(HighRequests)
  <2>1. high \in Seq(HighRequests) /\ high # <<>>
    BY <1>1 DEF RestOK, RunHigh
  <2>2. r \in HighRequests /\ Tail(high) \in Seq(HighRequests)
    BY <2>1, SMTT(30)
  <2> HIDE DEF r
  <2> QED BY <2>2 DEF HighRequests
<1>3. PICK l \in Handled(node[r.addr], r) : Settle(r.addr, l)
  BY DEF RunHigh
<1> HIDE DEF r
<1>4. LinkOK(node[r.addr]) /\ node[r.addr].called = {}
  BY <1>1, <1>2 DEF NodesOK, RunHigh, Unlocked
<1>5. LinkOK(l)
  BY <1>2, <1>3, <1>4, HandledOK
<1>6. NodesOK'
  BY <1>1, <1>2, <1>3, <1>5, SettleOK
<1>7. RestOK'
  BY <1>1, <1>2 DEF RestOK, RunHigh
<1> QED BY <1>6, <1>7, Split, PTL

\* s_link_accounting_callback.
LEMMA RunNormalOK == ASSUME IInv, RunNormal PROVE IInv'
<1>1. NodesOK /\ RestOK
  BY Split
<1> DEFINE r == Head(normal)
<1>2. r.addr \in Addrs /\ r.net \in Nets /\ Tail(normal) \in Seq(NormalRequests)
  <2>1. normal \in Seq(NormalRequests) /\ normal # <<>>
    BY <1>1 DEF RestOK, RunNormal
  <2>2. r \in NormalRequests /\ Tail(normal) \in Seq(NormalRequests)
    BY <2>1, SMTT(30)
  <2> HIDE DEF r
  <2> QED BY <2>2 DEF NormalRequests
<1>3. \/ Settle(r.addr, AccountingJoin(node[r.addr], r.net))
      \/ \E permanent \in BOOLEAN :
            Settle(r.addr, AccountingLeave(node[r.addr], r.net, permanent))
  BY DEF RunNormal
<1> HIDE DEF r
<1>4. LinkOK(node[r.addr]) /\ node[r.addr].called = {}
  BY <1>1, <1>2 DEF NodesOK, RunNormal, Unlocked
<1>5. LinkOK(AccountingJoin(node[r.addr], r.net))
  BY <1>2, <1>4, AccountingJoinOK
<1>6. \A permanent \in BOOLEAN : LinkOK(AccountingLeave(node[r.addr], r.net, permanent))
  BY <1>2, <1>4, AccountingLeaveOK
<1>7. NodesOK'
  BY <1>1, <1>2, <1>3, <1>5, <1>6, SettleOK
<1>8. RestOK'
  BY <1>1, <1>2 DEF RestOK, RunNormal
<1> QED BY <1>7, <1>8, Split, PTL

\* s_links_wake_up asks a client that is not at the beginning to go there,
\* and connects one that is.
LEMMA WakeUpOK ==
    ASSUME NodesOK, Unlocked, NEW a \in Addrs, NEW l \in WakeUp(a)
    PROVE  LinkOK(l)
<1> DEFINE k == node[a]
<1>1. LinkOK(k) /\ k \in Links /\ k.called = {}
  BY DEF NodesOK, Unlocked
<1>2. CASE ~Wanted(k) \/ k.delay
  BY <1>1, <1>2 DEF WakeUp
<1>3. CASE Wanted(k) /\ ~k.delay /\ client[a].phase # "rest"
  <2>1. l = AskBegin(k) /\ k.state = "DISCONNECTED"
    BY <1>3 DEF WakeUp, Wanted
  <2> HIDE DEF k
  <2> QED BY <1>1, <2>1, AskBeginOK, StoppedOK
<1>4. CASE Wanted(k) /\ ~k.delay /\ client[a].phase = "rest"
  <2> DEFINE m == [k EXCEPT !.ready = TRUE]
  <2>1. k.client
    BY <1>4 DEF Wanted
  <2>2. \/ l = m
        \/ l = LinkConnect(k)
        \/ \E permanent \in SUBSET Nets : l = LinkDropLast(k, permanent)
    BY <1>4 DEF WakeUp
  <2> HIDE DEF k
  <2>3. m \in Links
    BY <1>1 DEF Links
  <2>4. /\ m.known = k.known /\ m.client = k.client /\ m.members = k.members
        /\ m.active_clusters = k.active_clusters
        /\ m.joins = k.joins /\ m.called = k.called /\ m.stale = k.stale
        /\ m.state = k.state /\ m.asked = k.asked /\ m.asks = k.asks
    BY <1>1 DEF Links
  <2> HIDE DEF m
  <2>5. LinkOK(m)
    BY <1>1, <2>3, <2>4, SameOK
  <2> QED BY <1>1, <2>1, <2>2, <2>5, LinkConnectOK, LinkDropLastOK
<1> QED BY <1>2, <1>3, <1>4

\* s_update_states, whichever of its two modes it is in.
LEMMA UpdateStatesOK == ASSUME IInv, UpdateStates PROVE IInv'
<1>1. NodesOK /\ RestOK
  BY Split
<1>2. RestOK'
  BY <1>1 DEF RestOK, UpdateStates
<1>3. CASE wakeup
  <2>1. /\ Unlocked
        /\ node' \in [Addrs -> UNION {WakeUp(a) : a \in Addrs}]
        /\ \A a \in Addrs : node'[a] \in WakeUp(a)
        /\ client' = [a \in Addrs |-> IF node'[a].client THEN client[a] ELSE NewClient]
    BY <1>3 DEF UpdateStates
  <2>2. \A a \in Addrs : LinkOK(node'[a])
    BY <1>1, <2>1, WakeUpOK
  <2>3. DOMAIN node' = Addrs /\ node' = [a \in Addrs |-> node'[a]]
    BY <2>1
  <2>4. NodesOK'
    BY <1>1, <2>1, <2>2, <2>3, AllSettleOK
  <2> QED BY <1>2, <2>4, Split, PTL
<1>4. CASE ~wakeup
  <2>1. node' = node /\ client' = client
    BY <1>4 DEF UpdateStates
  <2>2. NodesOK'
    BY <1>1, <2>1 DEF NodesOK
  <2> QED BY <1>2, <2>2, Split, PTL
<1> QED BY <1>1, <1>3, <1>4 DEF RestOK

\* Time passes.
LEMMA DelayPassesOK == ASSUME IInv, NEW b \in Addrs, DelayPasses(b) PROVE IInv'
<1>1. NodesOK /\ RestOK
  BY Split
<1> DEFINE k == node[b]
           m == [k EXCEPT !.delay = FALSE]
<1>2. LinkOK(k) /\ k \in Links
  BY <1>1 DEF NodesOK
<1>3. node' = [node EXCEPT ![b] = m] /\ client' = client
  BY DEF DelayPasses
<1> HIDE DEF k
<1>4. m \in Links
  BY <1>2 DEF Links
<1>5. /\ m.known = k.known /\ m.client = k.client /\ m.members = k.members
      /\ m.active_clusters = k.active_clusters
      /\ m.joins = k.joins /\ m.called = k.called /\ m.stale = k.stale
      /\ m.state = k.state /\ m.asked = k.asked /\ m.asks = k.asks
  BY <1>2 DEF Links
<1> HIDE DEF m
<1>6. LinkOK(m)
  BY <1>2, <1>4, <1>5, SameOK
<1>7. NodesOK'
  BY <1>1, <1>3, <1>5, <1>6, OneOK DEF k
<1>8. RestOK'
  BY <1>1 DEF RestOK, DelayPasses
<1> QED BY <1>7, <1>8, Split, PTL

\* A member is added, or its callback is made.
LEMMA JoinsOK == ASSUME IInv, NEW b \in Addrs, Joins(b) PROVE IInv'
<1>1. NodesOK /\ RestOK
  BY Split
<1>2. LinkOK(node[b])
  BY <1>1 DEF NodesOK
<1>3. PICK l : /\ LinkOK(l) /\ l.client = node[b].client
               /\ node' = [node EXCEPT ![b] = l]
  <2>1. CASE /\ node[b].called = {}
             /\ \E c \in node[b].joins : node' = [node EXCEPT ![b] = HashAdd(@, c)]
    <3>1. PICK c \in node[b].joins : node' = [node EXCEPT ![b] = HashAdd(@, c)]
      BY <2>1
    <3>2. node' = [node EXCEPT ![b] = HashAdd(node[b], c)]
      BY <1>1, <3>1 DEF NodesOK
    <3> QED BY <1>2, <2>1, <3>2, HashAddOK
  <2>2. CASE \E c \in node[b].called : \E l \in AddCallback(node[b], c) :
                node' = [node EXCEPT ![b] = l]
    BY <1>2, <2>2, AddCallbackOK
  <2> QED BY <2>1, <2>2 DEF Joins
<1>4. NodesOK'
  BY <1>1, <1>3, OneOK DEF Joins
<1>5. RestOK'
  BY <1>1 DEF RestOK, Joins
<1> QED BY <1>4, <1>5, Split, PTL

\* dap_link_manager_link_update only queues.
LEMMA LinkUpdateCalledOK == ASSUME IInv, NEW b \in Addrs, LinkUpdateCalled(b) PROVE IInv'
<1>1. NodesOK /\ RestOK
  BY Split
<1> DEFINE k == node[b]
           m == [k EXCEPT !.update = TRUE]
<1>2. LinkOK(k) /\ k \in Links
  BY <1>1 DEF NodesOK
<1>3. node' = [node EXCEPT ![b] = m] /\ client' = client
  BY DEF LinkUpdateCalled
<1> HIDE DEF k
<1>4. m \in Links
  BY <1>2 DEF Links
<1>5. /\ m.known = k.known /\ m.client = k.client /\ m.members = k.members
      /\ m.active_clusters = k.active_clusters
      /\ m.joins = k.joins /\ m.called = k.called /\ m.stale = k.stale
      /\ m.state = k.state /\ m.asked = k.asked /\ m.asks = k.asks
  BY <1>2 DEF Links
<1> HIDE DEF m
<1>6. LinkOK(m)
  BY <1>2, <1>4, <1>5, SameOK
<1>7. NodesOK'
  BY <1>1, <1>3, <1>5, <1>6, OneOK DEF k
<1>8. RestOK'
  BY <1>1 DEF RestOK, LinkUpdateCalled
<1> QED BY <1>7, <1>8, Split, PTL

\* s_link_update_callback asks for the stream only when DISCONNECTED.
LEMMA LinkUpdateOK == ASSUME IInv, NEW b \in Addrs, LinkUpdate(b) PROVE IInv'
<1>1. NodesOK /\ RestOK
  BY Split
<1> DEFINE k == node[b]
           l == [k EXCEPT !.update = FALSE]
           m == [l EXCEPT !.port = TRUE, !.ready = FALSE]
           e == [l EXCEPT !.ready = FALSE]
           z == IF ~l.client THEN l
                ELSE IF l.state # "DISCONNECTED" THEN e
                ELSE IF l.ready THEN LinkConnect(m)
                ELSE m
<1>2. LinkOK(k) /\ k \in Links
  BY <1>1 DEF NodesOK
<1>3. node' = [node EXCEPT ![b] = z] /\ client' = client
  BY DEF LinkUpdate
<1> HIDE DEF k
<1>4. l \in Links
  BY <1>2 DEF Links
<1>5. /\ l.known = k.known /\ l.client = k.client /\ l.members = k.members
      /\ l.active_clusters = k.active_clusters
      /\ l.joins = k.joins /\ l.called = k.called /\ l.stale = k.stale
      /\ l.state = k.state /\ l.asked = k.asked /\ l.asks = k.asks
  BY <1>2 DEF Links
<1> HIDE DEF l
<1>6. m \in Links /\ e \in Links
  BY <1>4 DEF Links
<1>7. /\ m.known = l.known /\ m.client = l.client /\ m.members = l.members
      /\ m.active_clusters = l.active_clusters
      /\ m.joins = l.joins /\ m.called = l.called /\ m.stale = l.stale
      /\ m.state = l.state /\ m.asked = l.asked /\ m.asks = l.asks
  BY <1>4 DEF Links
<1>8. /\ e.known = l.known /\ e.client = l.client /\ e.members = l.members
      /\ e.active_clusters = l.active_clusters
      /\ e.joins = l.joins /\ e.called = l.called /\ e.stale = l.stale
      /\ e.state = l.state /\ e.asked = l.asked /\ e.asks = l.asks
  BY <1>4 DEF Links
<1> HIDE DEF m, e
<1>9. LinkOK(l)
  BY <1>2, <1>4, <1>5, SameOK
<1>10. LinkOK(m) /\ LinkOK(e)
  BY <1>6, <1>7, <1>8, <1>9, SameOK
<1>11. m.client => LinkOK(LinkConnect(m)) /\ LinkConnect(m).client
  BY <1>10, LinkConnectOK
<1>12. LinkOK(z) /\ (z.client = k.client \/ z.client)
  BY <1>5, <1>7, <1>8, <1>9, <1>10, <1>11
<1> HIDE DEF z
<1>13. NodesOK'
  BY <1>1, <1>3, <1>12, OneOK DEF k
<1>14. RestOK'
  BY <1>1 DEF RestOK, LinkUpdate
<1> QED BY <1>13, <1>14, Split, PTL

\* dap_link_manager_link_create gives a link its client, which Idle makes start
\* in step.
LEMMA LinkCreateOK ==
    ASSUME IInv, NEW b \in Addrs, NEW n \in Nets, LinkCreate(b, n) PROVE IInv'
<1>1. NodesOK /\ RestOK
  BY Split
<1> DEFINE k == node[b]
           m == [k EXCEPT !.known = TRUE, !.client = TRUE, !.nets = @ \cup {n}]
<1>2. LinkOK(k) /\ k \in Links
  BY <1>1 DEF NodesOK
<1>3. node' = [node EXCEPT ![b] = m] /\ client' = client
  BY <1>1 DEF LinkCreate, NodesOK, Links
<1> HIDE DEF k
<1>4. m \in Links
  BY <1>2 DEF Links
<1>5. /\ m.known /\ m.client /\ m.members = k.members
      /\ m.active_clusters = k.active_clusters
      /\ m.joins = k.joins /\ m.called = k.called /\ m.stale = k.stale
      /\ m.state = k.state /\ m.asked = k.asked /\ m.asks = k.asks
  BY <1>2 DEF Links
<1> HIDE DEF m
<1>6. LinkOK(m)
  BY <1>2, <1>4, <1>5 DEF LinkOK, Agree, InStep, Idle
<1>7. NodesOK'
  BY <1>1, <1>3, <1>5, <1>6, OneOK
<1>8. RestOK'
  BY <1>1, SMTT(30) DEF RestOK, LinkCreate, Event
<1> QED BY <1>7, <1>8, Split, PTL

\* So does dap_link_manager_add_static_links_cluster, for a new link.
LEMMA AddStaticOK ==
    ASSUME IInv, NEW b \in Addrs, NEW c \in Autonomic, AddStatic(b, c) PROVE IInv'
<1>1. NodesOK /\ RestOK
  BY Split
<1> DEFINE k == node[b]
           l == IF k.known THEN k ELSE [k EXCEPT !.known = TRUE, !.client = TRUE]
           m == [l EXCEPT !.static_clusters = @ \cup {c}]
<1>2. LinkOK(k) /\ k \in Links
  BY <1>1 DEF NodesOK
<1>3. node' = [node EXCEPT ![b] = m] /\ client' = client
  BY DEF AddStatic
<1>4. c \in Clusters
  BY ClusterTypes DEF Autonomic
<1> HIDE DEF k
<1>5. l \in Links
  BY <1>2 DEF Links
<1>6. /\ l.known /\ (l.client = k.client \/ l.client) /\ l.members = k.members
      /\ l.active_clusters = k.active_clusters
      /\ l.joins = k.joins /\ l.called = k.called /\ l.stale = k.stale
      /\ l.state = k.state /\ l.asked = k.asked /\ l.asks = k.asks
  BY <1>2 DEF Links
<1> HIDE DEF l
<1>7. LinkOK(l)
  BY <1>2, <1>5, <1>6 DEF LinkOK, Agree, InStep, Idle
<1>8. m \in Links
  BY <1>4, <1>5 DEF Links
<1>9. /\ m.known = l.known /\ m.client = l.client /\ m.members = l.members
      /\ m.active_clusters = l.active_clusters
      /\ m.joins = l.joins /\ m.called = l.called /\ m.stale = l.stale
      /\ m.state = l.state /\ m.asked = l.asked /\ m.asks = l.asks
  BY <1>5 DEF Links
<1> HIDE DEF m
<1>10. LinkOK(m)
  BY <1>7, <1>8, <1>9, SameOK
<1>11. NodesOK'
  BY <1>1, <1>3, <1>6, <1>9, <1>10, OneOK DEF k
<1>12. RestOK'
  BY <1>1, SMTT(30) DEF RestOK, AddStatic, Event
<1> QED BY <1>11, <1>12, Split, PTL

\* dap_link_manager_remove_static_links_cluster.
LEMMA RemoveStaticOK ==
    ASSUME IInv, NEW b \in Addrs, NEW c, RemoveStatic(b, c) PROVE IInv'
<1>1. NodesOK /\ RestOK
  BY Split
<1> DEFINE k == node[b]
           l == [k EXCEPT !.static_clusters = @ \ {c}]
           z == IF l.static_clusters = {} /\ ~InUse(l) THEN LinkDelete(l, TRUE) ELSE l
<1>2. LinkOK(k) /\ k \in Links /\ k.called = {}
  BY <1>1 DEF NodesOK, RemoveStatic, Unlocked
<1>3. Settle(b, z)
  BY DEF RemoveStatic
<1> HIDE DEF k
<1>4. l \in Links
  BY <1>2 DEF Links
<1>5. /\ l.known = k.known /\ l.client = k.client /\ l.members = k.members
      /\ l.active_clusters = k.active_clusters
      /\ l.joins = k.joins /\ l.called = k.called /\ l.stale = k.stale
      /\ l.state = k.state /\ l.asked = k.asked /\ l.asks = k.asks
  BY <1>2 DEF Links
<1> HIDE DEF l
<1>6. LinkOK(l)
  BY <1>2, <1>4, <1>5, SameOK
<1>7. LinkOK(z)
  BY <1>2, <1>5, <1>6, LinkDeleteOK
<1> HIDE DEF z
<1>8. NodesOK'
  BY <1>1, <1>3, <1>7, SettleOK
<1>9. RestOK'
  BY <1>1, SMTT(30) DEF RestOK, RemoveStatic, Event
<1> QED BY <1>8, <1>9, Split, PTL

\* A stream that opens is reported with a request of the right shape.
LEMMA OpenedOK ==
    ASSUME RestOK, NEW b \in Addrs, NEW up \in BOOLEAN, StreamOpened(b, up)
    PROVE  streams' \in [Addrs -> Seq(BOOLEAN)] /\ high' \in Seq(HighRequests)
<1> DEFINE e == Request("add", b, up)
           q == Append(streams[b], up)
<1>1. e \in HighRequests
  BY DEF Request, HighRequests
<1>2. /\ streams \in [Addrs -> Seq(BOOLEAN)]
      /\ high \in Seq(HighRequests)
  BY DEF RestOK
<1>3. q \in Seq(BOOLEAN)
  BY <1>2, SMTT(30)
<1>4. /\ streams' = [streams EXCEPT ![b] = q]
      /\ high' = Append(high, e) \/ high' = high
  BY DEF StreamOpened
<1> HIDE DEF e, q
<1>5. streams' \in [Addrs -> Seq(BOOLEAN)]
  BY <1>2, <1>3, <1>4
<1>6. high' \in Seq(HighRequests)
  BY <1>1, <1>2, <1>4, SMTT(30)
<1> QED BY <1>5, <1>6

\* So is one that ends.
LEMMA ClosedOK ==
    ASSUME RestOK, NEW b \in Addrs, NEW i \in DOMAIN streams[b],
           NEW said \in Seq(HighRequests), StreamClosed(b, i, said)
    PROVE  streams' \in [Addrs -> Seq(BOOLEAN)] /\ high' \in Seq(HighRequests)
<1> DEFINE q == Without(streams[b], i)
           r == Reports(b, i)
<1>1. q \in Seq(BOOLEAN) /\ r \in Seq(HighRequests)
  BY StreamsOK
<1>2. streams \in [Addrs -> Seq(BOOLEAN)] /\ high \in Seq(HighRequests)
  BY DEF RestOK
<1>3. streams' = [streams EXCEPT ![b] = q] /\ high' = (high \o said) \o r
  BY DEF StreamClosed
<1> HIDE DEF q, r
<1>4. streams' \in [Addrs -> Seq(BOOLEAN)]
  BY <1>1, <1>2, <1>3
<1>5. high \o said \in Seq(HighRequests)
  BY <1>2, SMTT(30)
<1>6. high' \in Seq(HighRequests)
  BY <1>1, <1>3, <1>5, SMTT(30)
<1> QED BY <1>4, <1>6

\* A node that dials us touches no link yet.
LEMMA DownlinkComesOK == ASSUME IInv, NEW b \in Addrs, DownlinkComes(b) PROVE IInv'
<1>1. NodesOK /\ RestOK
  BY Split
<1>2. streams' \in [Addrs -> Seq(BOOLEAN)] /\ high' \in Seq(HighRequests)
  BY <1>1, OpenedOK DEF DownlinkComes
<1>3. RestOK'
  BY <1>1, <1>2, SMTT(30) DEF RestOK, DownlinkComes
<1>4. NodesOK'
  BY <1>1 DEF NodesOK, DownlinkComes
<1> QED BY <1>3, <1>4, Split, PTL

\* Nor does a stream that ends.
LEMMA StreamEndsOK == ASSUME IInv, NEW b \in Addrs, NEW i, StreamEnds(b, i) PROVE IInv'
<1>1. NodesOK /\ RestOK
  BY Split
<1>2. streams' \in [Addrs -> Seq(BOOLEAN)] /\ high' \in Seq(HighRequests)
  <2>1. i \in DOMAIN streams[b] /\ StreamClosed(b, i, <<>>)
    BY DEF StreamEnds
  <2>2. <<>> \in Seq(HighRequests)
    BY SMTT(30)
  <2> QED BY <1>1, <2>1, <2>2, ClosedOK
<1>3. RestOK'
  BY <1>1, <1>2 DEF RestOK, StreamEnds
<1>4. NodesOK'
  BY <1>1 DEF NodesOK, StreamEnds
<1> QED BY <1>3, <1>4, Split, PTL

\* s_client_connected_callback may come in any state of the link; ESTABLISHED
\* is the one state that StateMatchesAsk says nothing of, and a client that
\* reports is there.
LEMMA ClientConnectedOK == ASSUME IInv, NEW b \in Addrs, ClientConnected(b) PROVE IInv'
<1>1. NodesOK /\ RestOK
  BY Split
<1> DEFINE k == node[b]
           m == [k EXCEPT !.state = "ESTABLISHED", !.attempts = 0]
           c == [phase |-> "up", said |-> "connected"]
<1>2. LinkOK(k) /\ k \in Links
  BY <1>1 DEF NodesOK
<1>3. k.client
  BY <1>1, BusyClient DEF ClientConnected
<1>4. node' = [node EXCEPT ![b] = m] /\ client' = [client EXCEPT ![b] = c]
  BY <1>1 DEF ClientConnected, NodesOK, Links
<1>5. c \in Clients
  BY DEF Clients
<1> HIDE DEF c, k
<1>6. m \in Links
  BY <1>2 DEF Links, States
<1>7. /\ m.known = k.known /\ m.client = k.client /\ m.members = k.members
      /\ m.active_clusters = k.active_clusters /\ m.state = "ESTABLISHED"
      /\ m.joins = k.joins /\ m.called = k.called /\ m.stale = k.stale
  BY <1>2 DEF Links
<1> HIDE DEF m
<1>8. LinkOK(m)
  BY <1>2, <1>3, <1>6, <1>7 DEF LinkOK, Agree, InStep, Idle
<1>9. NodesOK'
  BY <1>1, <1>3, <1>4, <1>5, <1>7, <1>8, BothOK
<1>10. streams' \in [Addrs -> Seq(BOOLEAN)] /\ high' \in Seq(HighRequests)
  BY <1>1, OpenedOK DEF ClientConnected
<1>11. RestOK'
  BY <1>1, <1>10 DEF RestOK, ClientConnected
<1> QED BY <1>9, <1>11, Split, PTL

\* s_client_error_callback only queues the drop.
LEMMA ClientErrorOK ==
    ASSUME IInv, NEW b \in Addrs, NEW last \in BOOLEAN, ClientError(b, last) PROVE IInv'
<1>1. NodesOK /\ RestOK
  BY Split
<1> DEFINE c == IF last THEN [phase |-> "failed", said |-> "last"]
                ELSE [phase |-> "trying", said |-> "error"]
           e == Request("drop", b, last)
<1>2. node[b].client
  BY <1>1, BusyClient DEF ClientError
<1>3. /\ client' = [client EXCEPT ![b] = c] /\ node' = node
      /\ high' = Append(high, e)
  BY DEF ClientError
<1>4. c \in Clients
  BY DEF Clients
<1>5. e \in HighRequests
  BY DEF Request, HighRequests
<1> HIDE DEF c, e
<1>6. NodesOK'
  BY <1>1, <1>2, <1>3, <1>4, ClientOK
<1>7. high' \in Seq(HighRequests)
  BY <1>1, <1>3, <1>5, SMTT(30) DEF RestOK
<1>8. RestOK'
  BY <1>1, <1>7 DEF RestOK, ClientError
<1> QED BY <1>6, <1>8, Split, PTL

\* A client that fails unheard leaves the link as it is.
LEMMA ClientFailsOK == ASSUME IInv, NEW b \in Addrs, ClientFails(b) PROVE IInv'
<1>1. NodesOK /\ RestOK
  BY Split
<1> DEFINE c == [client[b] EXCEPT !.phase = "failed"]
<1>2. node[b].client
  BY <1>1, BusyClient DEF ClientFails
<1>3. client' = [client EXCEPT ![b] = c] /\ node' = node
  BY DEF ClientFails
<1>4. c \in Clients
  BY <1>1 DEF NodesOK, Clients
<1> HIDE DEF c
<1>5. NodesOK'
  BY <1>1, <1>2, <1>3, <1>4, ClientOK
<1>6. RestOK'
  BY <1>1 DEF RestOK, ClientFails
<1> QED BY <1>5, <1>6, Split, PTL

\* A stream that breaks queues the drop and its reports.
LEMMA ClientBreaksOK == ASSUME IInv, NEW b \in Addrs, ClientBreaks(b) PROVE IInv'
<1>1. NodesOK /\ RestOK
  BY Split
<1> DEFINE c == [phase |-> "trying", said |-> "error"]
           e == Request("drop", b, FALSE)
           q == <<e>>
<1>2. node[b].client
  BY <1>1, BusyClient DEF ClientBreaks
<1>3. client' = [client EXCEPT ![b] = c] /\ node' = node
  BY DEF ClientBreaks
<1>4. c \in Clients
  BY DEF Clients
<1> HIDE DEF c
<1>5. NodesOK'
  BY <1>1, <1>2, <1>3, <1>4, ClientOK
<1>6. PICK i \in Uplinks(b) : StreamClosed(b, i, q)
  BY DEF ClientBreaks
<1>7. i \in DOMAIN streams[b]
  BY DEF Uplinks
<1>8. e \in HighRequests
  BY DEF Request, HighRequests
<1> HIDE DEF e
<1>9. q \in Seq(HighRequests)
  BY <1>8, SMTT(30)
<1> HIDE DEF q
<1>10. streams' \in [Addrs -> Seq(BOOLEAN)] /\ high' \in Seq(HighRequests)
  BY <1>1, <1>6, <1>7, <1>9, ClosedOK
<1>11. RestOK'
  BY <1>1, <1>10 DEF RestOK, ClientBreaks
<1> QED BY <1>5, <1>11, Split, PTL

\* A client's worker takes a request: there is a client, for a link without
\* one has no requests left.
LEMMA ClientGoesOK == ASSUME IInv, NEW b \in Addrs, ClientGoes(b) PROVE IInv'
<1>1. NodesOK /\ RestOK
  BY Split
<1> DEFINE k == node[b]
           q == Tail(k.asks)
           m == [k EXCEPT !.asks = q]
           e == [m EXCEPT !.state = "ESTABLISHED", !.attempts = 0]
           p == IF Head(k.asks) = "stream" /\ client[b].phase = "rest"
                THEN "trying" ELSE "rest"
           c == [phase |-> p, said |-> "nothing"]
<1>2. LinkOK(k) /\ k \in Links /\ k.asks # <<>>
  BY <1>1 DEF NodesOK, ClientGoes
<1>3. \/ node' = [node EXCEPT ![b] = e] /\ client' = client
      \/ node' = [node EXCEPT ![b] = m] /\ client' = [client EXCEPT ![b] = c]
  BY DEF ClientGoes
<1>4. p \in {"rest", "trying", "up", "failed"}
  OBVIOUS
<1> HIDE DEF k, p
<1>5. c \in Clients
  BY <1>4 DEF Clients
<1>6. k.client
  BY <1>2 DEF LinkOK, Idle
<1>7. q \in Seq(Asks)
  <2>1. k.asks \in Seq(Asks)
    BY <1>2 DEF Links
  <2> QED BY <1>2, <2>1, SMTT(30)
<1> HIDE DEF c, q
<1>8. m \in Links
  BY <1>2, <1>7 DEF Links
<1>9. /\ m.known = k.known /\ m.client = k.client /\ m.members = k.members
      /\ m.active_clusters = k.active_clusters
      /\ m.joins = k.joins /\ m.called = k.called /\ m.stale = k.stale
      /\ m.state = k.state /\ m.asked = k.asked
  BY <1>2 DEF Links
<1> HIDE DEF m
<1>10. LinkOK(m)
  BY <1>2, <1>6, <1>8, <1>9 DEF LinkOK, Agree, InStep, Idle
<1>11. e \in Links
  BY <1>8 DEF Links, States
<1>12. /\ e.known = m.known /\ e.client = m.client /\ e.members = m.members
       /\ e.active_clusters = m.active_clusters /\ e.state = "ESTABLISHED"
       /\ e.joins = m.joins /\ e.called = m.called /\ e.stale = m.stale
  BY <1>8 DEF Links
<1> HIDE DEF e
<1>13. LinkOK(e)
  BY <1>6, <1>9, <1>10, <1>11, <1>12 DEF LinkOK, Agree, InStep, Idle
<1>14. NodesOK'
  <2>1. CASE node' = [node EXCEPT ![b] = e] /\ client' = client
    BY <1>1, <1>6, <1>9, <1>12, <1>13, <2>1, OneOK
  <2>2. CASE node' = [node EXCEPT ![b] = m] /\ client' = [client EXCEPT ![b] = c]
    BY <1>1, <1>5, <1>6, <1>9, <1>10, <2>2, BothOK
  <2> QED BY <1>3, <2>1, <2>2
<1>15. streams' \in [Addrs -> Seq(BOOLEAN)] /\ high' \in Seq(HighRequests)
  <2>1. CASE \E i \in Uplinks(b) : StreamClosed(b, i, <<>>)
    <3>1. PICK i \in Uplinks(b) : StreamClosed(b, i, <<>>)
      BY <2>1
    <3>2. i \in DOMAIN streams[b]
      BY DEF Uplinks
    <3>3. <<>> \in Seq(HighRequests)
      BY SMTT(30)
    <3> QED BY <1>1, <3>1, <3>2, <3>3, ClosedOK
  <2>2. CASE streams' = streams /\ high' = high
    BY <1>1, <2>2 DEF RestOK
  <2>3. \/ \E i \in Uplinks(b) : StreamClosed(b, i, <<>>)
        \/ streams' = streams /\ high' = high
    BY DEF ClientGoes
  <2> QED BY <2>1, <2>2, <2>3
<1>16. RestOK'
  BY <1>1, <1>15 DEF RestOK, ClientGoes
<1> QED BY <1>14, <1>16, Split, PTL

\* A client that its link left behind: all it may do to a link is report.
LEMMA OrphanDeletedOK == ASSUME IInv, NEW b \in Addrs, OrphanDeleted(b) PROVE IInv'
<1>1. NodesOK /\ RestOK
  BY Split
<1> DEFINE k == node[b]
           m == [k EXCEPT !.orphan = FALSE]
<1>2. LinkOK(k) /\ k \in Links
  BY <1>1 DEF NodesOK
<1>3. node' = [node EXCEPT ![b] = m] /\ client' = client
  BY DEF OrphanDeleted
<1> HIDE DEF k
<1>4. m \in Links
  BY <1>2 DEF Links
<1>5. /\ m.known = k.known /\ m.client = k.client /\ m.members = k.members
      /\ m.active_clusters = k.active_clusters
      /\ m.joins = k.joins /\ m.called = k.called /\ m.stale = k.stale
      /\ m.state = k.state /\ m.asked = k.asked /\ m.asks = k.asks
  BY <1>2 DEF Links
<1> HIDE DEF m
<1>6. LinkOK(m)
  BY <1>2, <1>4, <1>5, SameOK
<1>7. NodesOK'
  BY <1>1, <1>3, <1>5, <1>6, OneOK DEF k
<1>8. streams' \in [Addrs -> Seq(BOOLEAN)] /\ high' \in Seq(HighRequests)
  <2>1. CASE streams' = streams /\ high' = high
    BY <1>1, <2>1 DEF RestOK
  <2>2. CASE StreamOpened(b, TRUE)
    BY <1>1, <2>2, OpenedOK
  <2>3. ASSUME NEW last \in BOOLEAN, high' = Append(high, Request("drop", b, last)),
               streams' = streams
        PROVE  streams' \in [Addrs -> Seq(BOOLEAN)] /\ high' \in Seq(HighRequests)
    <3> DEFINE e == Request("drop", b, last)
    <3>1. e \in HighRequests
      BY DEF Request, HighRequests
    <3> HIDE DEF e
    <3>2. high' = Append(high, e)
      BY <2>3 DEF e
    <3>3. high' \in Seq(HighRequests)
      BY <1>1, <3>1, <3>2, SMTT(30) DEF RestOK
    <3> QED BY <1>1, <2>3, <3>3 DEF RestOK
  <2> QED BY <2>1, <2>2, <2>3 DEF OrphanDeleted
<1>9. RestOK'
  BY <1>1, <1>8 DEF RestOK, OrphanDeleted
<1> QED BY <1>7, <1>9, Split, PTL

\* dap_link_manager_accounting_link_in_net only queues.
LEMMA AccountOK ==
    ASSUME IInv, NEW b \in Addrs, NEW n \in Nets, NEW ok \in BOOLEAN, Account(b, n, ok)
    PROVE  IInv'
<1>1. NodesOK /\ RestOK
  BY Split
<1> DEFINE e == [addr |-> b, net |-> n, ok |-> ok]
<1>2. e \in NormalRequests
  BY DEF NormalRequests
<1>3. normal' = Append(normal, e)
  BY DEF Account
<1> HIDE DEF e
<1>4. normal' \in Seq(NormalRequests)
  BY <1>1, <1>2, <1>3, SMTT(30) DEF RestOK
<1>5. RestOK'
  BY <1>1, <1>4, SMTT(30) DEF RestOK, Account, Event
<1>6. NodesOK'
  BY <1>1 DEF NodesOK, Account
<1> QED BY <1>5, <1>6, Split, PTL

\* A net that is enabled changes no link.
LEMMA NetOnOK == ASSUME IInv, NEW n \in Nets, NetOn(n) PROVE IInv'
<1>1. NodesOK /\ RestOK
  BY Split
<1>2. LinkClusters(n) \in SUBSET Clusters
  BY ClusterTypes DEF LinkClusters
<1>3. enabled' \subseteq Clusters
  BY <1>1, <1>2 DEF RestOK, NetOn
<1>4. RestOK'
  BY <1>1, <1>3, SMTT(30) DEF RestOK, NetOn, Event
<1>5. NodesOK'
  BY <1>1 DEF NodesOK, NetOn
<1> QED BY <1>4, <1>5, Split, PTL

\* Nor does the flag of one that is disabled.
LEMMA NetOffOK == ASSUME IInv, NEW n \in Nets, NetOff(n) PROVE IInv'
<1>1. NodesOK /\ RestOK
  BY Split
<1>2. RestOK'
  BY <1>1, SMTT(30) DEF RestOK, NetOff, Event
<1>3. NodesOK'
  BY <1>1 DEF NodesOK, NetOff
<1> QED BY <1>2, <1>3, Split, PTL

\* dap_cluster_delete_all_members takes every node out of list and members,
\* though not out of the list if it is not yet there.
LEMMA ClusterOffOK ==
    ASSUME IInv, NEW n \in Nets, NEW c \in Clusters, ClusterOff(n, c) PROVE IInv'
<1>1. NodesOK /\ RestOK
  BY Split
<1>2. RestOK'
  BY <1>1 DEF RestOK, ClusterOff
<1>3. {c} \in SUBSET Clusters
  OBVIOUS
<1>4. node' = [a \in Addrs |-> MemberDelete(node[a], {c})] /\ client' = client
  BY DEF ClusterOff
<1>5. ASSUME NEW a \in Addrs
      PROVE  /\ LinkOK(node'[a]) /\ node'[a] \in Links
             /\ node'[a].client \/ client'[a] = NewClient
  <2>1. LinkOK(node[a]) /\ (node[a].client \/ client[a] = NewClient)
    BY <1>1 DEF NodesOK
  <2>2. node'[a] = MemberDelete(node[a], {c})
    BY <1>4
  <2>3. LinkOK(node'[a]) /\ node'[a].client = node[a].client
    BY <1>3, <2>1, <2>2, MemberDeleteOK, SMTT(30)
  <2>4. node'[a] \in Links
    BY <2>3 DEF LinkOK
  <2> QED BY <1>4, <2>1, <2>3, <2>4
<1>6. node' \in [Addrs -> Links] /\ client' \in [Addrs -> Clients]
  BY <1>1, <1>4, <1>5 DEF NodesOK
<1>7. NodesOK'
  BY <1>5, <1>6 DEF NodesOK
<1> QED BY <1>2, <1>7, Split, PTL

\* Its links are freed with their clients, or kept without the net.
LEMMA NetLeftOK == ASSUME IInv, NEW n \in Nets, NetLeft(n) PROVE IInv'
<1>1. NodesOK /\ RestOK
  BY Split
<1>2. RestOK'
  BY <1>1 DEF RestOK, NetLeft
<1>3. /\ node' = [a \in Addrs |-> NetForgotten(node[a], n)]
      /\ client' = [a \in Addrs |-> IF node'[a].client THEN client[a] ELSE NewClient]
  BY DEF NetLeft
<1>4. ASSUME NEW a \in Addrs PROVE LinkOK(node'[a])
  <2> DEFINE l == node[a]
             m == [l EXCEPT !.nets = @ \ {n}]
  <2>1. LinkOK(l) /\ l \in Links /\ l.called = {}
    BY <1>1 DEF NodesOK, NetLeft, Unlocked
  <2>2. node'[a] = IF n \in l.nets /\ m.nets = {} THEN LinkDelete(m, FALSE) ELSE m
    BY <1>3 DEF NetForgotten
  <2> HIDE DEF l
  <2>3. m \in Links
    BY <2>1 DEF Links
  <2>4. /\ m.known = l.known /\ m.client = l.client /\ m.members = l.members
        /\ m.active_clusters = l.active_clusters
        /\ m.joins = l.joins /\ m.called = l.called /\ m.stale = l.stale
        /\ m.state = l.state /\ m.asked = l.asked /\ m.asks = l.asks
    BY <2>1 DEF Links
  <2> HIDE DEF m
  <2>5. LinkOK(m)
    BY <2>1, <2>3, <2>4, SameOK
  <2> QED BY <2>1, <2>2, <2>4, <2>5, LinkDeleteOK
<1>5. DOMAIN node' = Addrs /\ node' = [a \in Addrs |-> node'[a]]
  BY <1>3
<1>6. NodesOK'
  BY <1>1, <1>3, <1>4, <1>5, AllSettleOK
<1> QED BY <1>2, <1>6, Split, PTL

-----------------------------------------------------------------------------
\* The link manager starts without links.
LEMMA InitOK == Init => IInv
<1> SUFFICES ASSUME Init PROVE NodesOK /\ RestOK
  BY Split
<1>1. RestOK
  <2>1. streams \in [Addrs -> Seq(BOOLEAN)]
    BY SMTT(30) DEF Init
  <2>2. high \in Seq(HighRequests) /\ normal \in Seq(NormalRequests)
    BY SMTT(30) DEF Init
  <2>3. active \subseteq Nets /\ leaving \subseteq Nets /\ wakeup \in BOOLEAN /\ ops \in Nat
    BY DEF Init
  <2>4. enabled \subseteq Clusters
    BY ClusterTypes DEF Init, LinkClusters
  <2> QED BY <2>1, <2>2, <2>3, <2>4 DEF RestOK
<1>2. NoLink \in Links /\ LinkOK(NoLink)
  BY NoLinkOK DEF LinkOK
<1>3. NodesOK
  BY <1>2, NewClientOK DEF Init, NodesOK
<1> QED BY <1>1, <1>3

\* Every step keeps the invariant.
LEMMA NextOK == IInv /\ [Next]_vars => IInv'
<1> SUFFICES ASSUME IInv, [Next]_vars PROVE IInv'
  OBVIOUS
<1>1. CASE RunHigh
  BY <1>1, RunHighOK
<1>2. CASE RunNormal
  BY <1>2, RunNormalOK
<1>3. CASE UpdateStates
  BY <1>3, UpdateStatesOK
<1>4. ASSUME NEW a \in Addrs,
             \/ Joins(a) \/ DelayPasses(a) \/ LinkUpdateCalled(a) \/ LinkUpdate(a)
             \/ DownlinkComes(a)
             \/ \E i \in 1..MaxStreams : StreamEnds(a, i)
      PROVE  IInv'
  BY <1>4, JoinsOK, DelayPassesOK, LinkUpdateCalledOK, LinkUpdateOK, DownlinkComesOK,
     StreamEndsOK
<1>5. ASSUME NEW a \in Addrs,
             \/ ClientConnected(a)
             \/ \E last \in BOOLEAN : ClientError(a, last)
             \/ ClientFails(a) \/ ClientBreaks(a) \/ ClientGoes(a)
             \/ OrphanDeleted(a)
      PROVE  IInv'
  BY <1>5, ClientConnectedOK, ClientErrorOK, ClientFailsOK, ClientBreaksOK, ClientGoesOK,
     OrphanDeletedOK
<1>6. ASSUME NEW a \in Addrs,
             \/ \E n \in Nets : LinkCreate(a, n) \/ \E ok \in BOOLEAN : Account(a, n, ok)
             \/ \E c \in Autonomic : AddStatic(a, c) \/ RemoveStatic(a, c)
      PROVE  IInv'
  BY <1>6, LinkCreateOK, AccountOK, AddStaticOK, RemoveStaticOK
<1>7. ASSUME NEW n \in Nets,
             \/ NetOn(n) \/ NetOff(n)
             \/ \E c \in Clusters : ClusterOff(n, c)
             \/ NetLeft(n)
      PROVE  IInv'
  BY <1>7, NetOnOK, NetOffOK, ClusterOffOK, NetLeftOK
<1>8. CASE UNCHANGED vars
  BY <1>8 DEF vars, IInv, TypeOK
<1> QED BY <1>1, <1>2, <1>3, <1>4, <1>5, <1>6, <1>7, <1>8 DEF Next

\* No membership outlives its link and none is missing from active_clusters
\* once its callback is made; a cluster that is listed is listed once and has
\* its member, unless its net was switched off between HASH_ADD and the
\* callback of dap_cluster_member_add (dap_stream_cluster.c).  And uplink.state
\* never gets out of step with what was asked of the client.  For any number
\* of nodes, nets, clusters and streams.
THEOREM LinksSound == Spec => [](ClustersAgree /\ StateMatchesAsk)
<1>1. IInv => ClustersAgree
  BY DEF IInv, LinkOK, Agree, ClustersAgree
<1>2. IInv => StateMatchesAsk
  BY DEF IInv, LinkOK, InStep, StateMatchesAsk
<1> QED BY <1>1, <1>2, InitOK, NextOK, PTL DEF Spec

-----------------------------------------------------------------------------
(***************************************************************************)
(* The clients of the links are those of ClientService                     *)
(***************************************************************************)
\* The client of the link to a as ClientService has it.
Service(a) ==
    INSTANCE ClientService WITH
        phase <- client[a].phase, said <- client[a].said, always <- FALSE

\* A step of that client, or one its owner does not see.
ServiceStep(a) == Service(a)!SNext \/ UNCHANGED Service(a)!svars

\* A client that is left alone, or deleted with its link, does as promised:
\* the next client of the link is one at rest.
LEMMA ClientKept ==
    ASSUME TypeOK, NEW a \in Addrs, client'[a] \in {client[a], NewClient}
    PROVE  ServiceStep(a)
<1>1. client[a] \in Clients
  BY DEF TypeOK
<1>2. CASE client'[a] = client[a]
  BY <1>2 DEF ServiceStep, Service!svars
<1>3. CASE client'[a] = NewClient
  <2>1. /\ client[a].phase # "gone"
        /\ client'[a].phase = "rest" /\ client'[a].said = "nothing"
    BY <1>1, <1>3, SMTT(30) DEF Clients, NewClient
  <2> QED BY <2>1 DEF ServiceStep, Service!SNext, Service!Reset
<1> QED BY <1>2, <1>3

\* What the client of b does itself: it connects, reports an error, fails
\* unheard, loses its stream, or does what it is asked for.
LEMMA ClientActs ==
    ASSUME TypeOK, NEW a \in Addrs, NEW b \in Addrs,
           \/ ClientConnected(b)
           \/ \E last \in BOOLEAN : ClientError(b, last)
           \/ ClientFails(b)
           \/ ClientBreaks(b)
           \/ ClientGoes(b)
    PROVE  ServiceStep(a)
<1>1. client \in [Addrs -> Clients]
  BY DEF TypeOK
<1>2. CASE a # b
  <2>1. client'[a] = client[a]
    BY <1>1, <1>2
    DEF ClientConnected, ClientError, ClientFails, ClientBreaks, ClientGoes
  <2> QED BY <2>1, ClientKept
<1>3. CASE a = b
  <2>1. CASE ClientConnected(b)
    <3>1. /\ client[a].phase = "trying"
          /\ client'[a] = [phase |-> "up", said |-> "connected"]
      BY <1>1, <1>3, <2>1 DEF ClientConnected
    <3> QED BY <3>1, SMTT(30) DEF ServiceStep, Service!SNext, Service!Connect
  <2>2. CASE \E last \in BOOLEAN : ClientError(b, last)
    <3>1. PICK last \in BOOLEAN : ClientError(b, last)
      BY <2>2
    <3>2. CASE last
      <4>1. /\ client[a].phase = "trying"
            /\ client'[a] = [phase |-> "failed", said |-> "last"]
        BY <1>1, <1>3, <3>1, <3>2 DEF ClientError
      <4> QED BY <4>1, SMTT(30) DEF ServiceStep, Service!SNext, Service!GiveUp
    <3>3. CASE ~last
      <4>1. /\ client[a].phase = "trying" /\ client[a].said = "nothing"
            /\ client'[a] = [phase |-> "trying", said |-> "error"]
        BY <1>1, <1>3, <3>1, <3>3 DEF ClientError
      <4> QED BY <4>1, SMTT(30) DEF ServiceStep, Service!SNext, Service!Retry
    <3> QED BY <3>2, <3>3
  <2>3. CASE ClientFails(b)
    <3>1. /\ client[a].phase = "trying"
          /\ client'[a] = [client[a] EXCEPT !.phase = "failed"]
      BY <1>1, <1>3, <2>3 DEF ClientFails
    <3>2. client'[a].phase = "failed" /\ client'[a].said = client[a].said
      BY <1>1, <3>1 DEF Clients
    <3> QED BY <3>1, <3>2 DEF ServiceStep, Service!SNext, Service!FailSilently
  <2>4. CASE ClientBreaks(b)
    <3>1. /\ client[a].phase = "up"
          /\ client'[a] = [phase |-> "trying", said |-> "error"]
      BY <1>1, <1>3, <2>4 DEF ClientBreaks
    <3> QED BY <3>1, SMTT(30) DEF ServiceStep, Service!SNext, Service!Break
  <2>5. CASE ClientGoes(b)
    <3>1. CASE client' = client
      BY <3>1, ClientKept
    <3>2. CASE client' # client
      <4>1. /\ client'[a].said = "nothing"
            /\ \/ client[a].phase = "rest" /\ client'[a].phase = "trying"
               \/ client'[a].phase = "rest"
        <5>1. PICK p \in {"rest", "trying"} :
                 /\ client' = [client EXCEPT ![b] = [phase |-> p, said |-> "nothing"]]
                 /\ p = "trying" => client[b].phase = "rest"
          BY <2>5, <3>2 DEF ClientGoes
        <5>2. client'[a] = [phase |-> p, said |-> "nothing"]
          BY <1>1, <1>3, <5>1
        <5>3. client'[a].phase = p /\ client'[a].said = "nothing"
          BY <5>2, SMTT(30)
        <5> QED BY <1>3, <5>1, <5>3
      <4>2. client[a].phase # "gone"
        BY <1>1 DEF Clients
      <4> QED BY <4>1, <4>2 DEF ServiceStep, Service!SNext, Service!Start, Service!Reset
    <3> QED BY <3>1, <3>2
  <2> QED BY <2>1, <2>2, <2>3, <2>4, <2>5
<1> QED BY <1>2, <1>3

\* The handlers of the link manager leave the clients alone or delete them.
LEMMA ClientStep ==
    ASSUME TypeOK, Next, NEW a \in Addrs
    PROVE  ServiceStep(a)
<1>1. client \in [Addrs -> Clients]
  BY DEF TypeOK
<1>2. ASSUME NEW b \in Addrs, NEW l, Settle(b, l)
      PROVE  ServiceStep(a)
  <2>1. client'[a] \in {client[a], NewClient}
    BY <1>1, <1>2 DEF Settle
  <2> QED BY <2>1, ClientKept
<1>3. CASE RunHigh
  <2>1. high \in Seq(HighRequests) /\ high # <<>>
    BY <1>3 DEF RunHigh, TypeOK
  <2>2. Head(high) \in HighRequests
    BY <2>1, SMTT(30)
  <2>3. Head(high).addr \in Addrs
    BY <2>2 DEF HighRequests
  <2>4. \E l : Settle(Head(high).addr, l)
    BY <1>3 DEF RunHigh
  <2> QED BY <1>2, <2>3, <2>4
<1>4. CASE RunNormal
  <2>1. normal \in Seq(NormalRequests) /\ normal # <<>>
    BY <1>4 DEF RunNormal, TypeOK
  <2>2. Head(normal) \in NormalRequests
    BY <2>1, SMTT(30)
  <2>3. Head(normal).addr \in Addrs
    BY <2>2 DEF NormalRequests
  <2>4. \E l : Settle(Head(normal).addr, l)
    BY <1>4 DEF RunNormal
  <2> QED BY <1>2, <2>3, <2>4
<1>5. CASE UpdateStates \/ \E n \in Nets : NetLeft(n)
  <2>1. client'[a] \in {client[a], NewClient}
    BY <1>5 DEF UpdateStates, NetLeft
  <2> QED BY <2>1, ClientKept
<1>6. CASE client' = client
  BY <1>6, ClientKept
<1>7. ASSUME NEW b \in Addrs, NEW c, RemoveStatic(b, c)
      PROVE  ServiceStep(a)
  <2>1. \E l : Settle(b, l)
    BY <1>7 DEF RemoveStatic
  <2> QED BY <1>2, <2>1
<1>8. ASSUME NEW b \in Addrs,
             \/ Joins(b) \/ DelayPasses(b) \/ LinkUpdateCalled(b) \/ LinkUpdate(b)
             \/ DownlinkComes(b) \/ OrphanDeleted(b)
             \/ \E i \in 1..MaxStreams : StreamEnds(b, i)
             \/ \E n \in Nets : LinkCreate(b, n) \/ \E ok \in BOOLEAN : Account(b, n, ok)
             \/ \E c \in Autonomic : AddStatic(b, c)
      PROVE  client' = client
  BY <1>8
  DEF Joins, DelayPasses, LinkUpdateCalled, LinkUpdate, DownlinkComes, OrphanDeleted,
      StreamEnds, LinkCreate, Account, AddStatic
<1>9. ASSUME NEW n \in Nets,
             NetOn(n) \/ NetOff(n) \/ \E c \in Clusters : ClusterOff(n, c)
      PROVE  client' = client
  BY <1>9 DEF NetOn, NetOff, ClusterOff
<1> QED BY <1>3, <1>4, <1>5, <1>6, <1>7, <1>8, <1>9, ClientActs DEF Next

\* The clients LinkManager assumes do what ClientService promises of a client
\* that does not reconnect for ever, and UplinkProofs shows that dap_client
\* keeps that promise: the two models speak of the same client.  A link that
\* goes takes its client with it; that is the client going back to rest.
THEOREM ClientsServe == ASSUME NEW a \in Addrs PROVE Spec => Service(a)!SSpec
<1>1. Init => Service(a)!SInit
  BY SMTT(30) DEF Init, NewClient, Service!SInit
<1>2. IInv /\ [Next]_vars => [Service(a)!SNext]_(Service(a)!svars)
  <2> SUFFICES ASSUME IInv, [Next]_vars PROVE ServiceStep(a)
    BY DEF ServiceStep
  <2>1. TypeOK
    BY DEF IInv
  <2>2. CASE Next
    BY <2>1, <2>2, ClientStep
  <2>3. CASE UNCHANGED vars
    BY <2>1, <2>3, ClientKept DEF vars
  <2> QED BY <2>2, <2>3
<1> QED BY <1>1, <1>2, InitOK, NextOK, PTL DEF Spec, Service!SSpec
=============================================================================
