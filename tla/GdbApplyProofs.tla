--------------------------- MODULE GdbApplyProofs ---------------------------
(***************************************************************************)
(* Last writer wins and write access in the apply path of GlobalDB, for    *)
(* any clock bound, TTL, roles, keys and signers, when one thread runs it  *)
(* and no caller pins. With pins: the copies of pinned records survive     *)
(* every step and restart, what was told of a record that is not pinned is *)
(* the record, and the cleaner takes none but expired records that are not *)
(* pinned.                                                                 *)
(***************************************************************************)
EXTENDS GdbApply, TLAPS

\* Leaves go to Zenon, with time to spare, unless they name the SMT solver.
USE ZenonT(30)

\* One proc thread runs the apply path.
OneThread == \A t, u \in Threads : t = u

NoPinCallers == PinFlags = {FALSE}

\* Without pinning callers nothing is ever pinned.
NothingPinned ==
    /\ \A t \in Threads : obj[t] # NoObj => ~obj[t].pin
    /\ \A k \in Keys : db[k] # NoRec => ~db[k].pin
    /\ \A t \in Threads : pc[t] # "repin"
    /\ copy = {}

\* Only this node makes NEW objects.
NewIsOwn ==
    \A t \in Threads : obj[t] # NoObj /\ obj[t].new => obj[t].signer = Self

\* A key without a record either never had one or the cleaner removed its
\* newest record, which had expired by then.
CleanedExpired ==
    \A k \in Keys :
       /\ db[k] # NoRec => high[k] # NoRec
       /\ db[k] = NoRec /\ high[k] # NoRec => Ttl # 0 /\ high[k].ts + Ttl < now

\* What a thread is about to write is newer than all that was ever written.
WriteIsNewest ==
    \A t \in Threads : pc[t] = "write" =>
       \/ high[obj[t].key] = NoRec
       \/ HashLess(high[obj[t].key], obj[t])

\* What a thread is about to write is authorised against the present record.
WriteAuthorised ==
    \A t \in Threads : pc[t] = "write" =>
       /\ MayWrite(obj[t])
       /\ MayRewrite(db[obj[t].key], obj[t])

\* The page of the cleaner holds expired records only.
PageExpired ==
    \A k \in Keys, r \in Record :
       <<k, r>> \in doomed => Ttl # 0 /\ r.ts + Ttl < now

IInv ==
    /\ TypeOK
    /\ NothingPinned
    /\ NewIsOwn
    /\ CleanedExpired
    /\ WriteIsNewest
    /\ WriteAuthorised
    /\ PageExpired
    /\ NewestKept
    /\ WritersOnly

-----------------------------------------------------------------------------
(* Type correctness, with any number of threads and with pins.             *)

\* What the driver stores of an object is a record.
LEMMA StoredIsRecord ==
    ASSUME NEW o \in Object
    PROVE  Stored(o) \in Record
  BY DEF Stored, Object, Record

\* Stamping an object leaves it an object.
LEMMA StampedIsObject ==
    ASSUME NEW o \in Object, NEW n \in Nat
    PROVE  [o EXCEPT !.ts = n] \in Object
  BY DEF Object

\* Writing a record keeps the store and its history well typed.
LEMMA PutType ==
    ASSUME TypeOK, NEW k \in Keys, NEW r \in Record, Put(k, r)
    PROVE  /\ db' \in [Keys -> Record \cup {NoRec}]
           /\ high' \in [Keys -> Record \cup {NoRec}]
  BY DEF TypeOK, Put

\* A check that was due once is due no more.
LEMMA CheckedType ==
    ASSUME TypeOK, NEW k \in Keys
    PROVE  /\ Checked(k) \in [Keys -> {"never", "once", "always"}]
           /\ \A j \in Keys : check[j] = "always" => Checked(k)[j] = "always"
  BY DEF Checked, TypeOK

\* Every step of the apply path, the cleaner and the clock keeps the state
\* well typed.
LEMMA TypeStep == TypeOK /\ [Next]_vars => TypeOK'
  <1> SUFFICES ASSUME TypeOK, [Next]_vars
               PROVE  TypeOK'
    OBVIOUS
  <1>1. CASE UNCHANGED vars
    BY <1>1 DEF TypeOK, vars
  <1>2. CASE Tick
    BY <1>2, ApplyAssumption, SMTT(30) DEF TypeOK, Tick
  <1>3. CASE DropGroup
    BY <1>3 DEF TypeOK, DropGroup
  <1>4. CASE CleanRead
    <2>1. doomed' \subseteq (Keys \X Record)
      BY <1>4, SMTT(30) DEF CleanRead, TypeOK, Expired
    <2> QED BY <1>4, <2>1 DEF CleanRead, TypeOK
  <1>5. ASSUME NEW d \in doomed, CleanDelete(d[1], d[2])
        PROVE  TypeOK'
    <2>1. d[1] \in Keys BY DEF TypeOK
    <2> QED BY <1>5, <2>1 DEF CleanDelete, TypeOK
  <1>6. ASSUME NEW t \in Threads, Request(t)
        PROVE  TypeOK'
    <2>1. ASSUME NEW o \in Object, Begin(t, o), unpin' \in {unpin, unpin \cup {t}},
                 check' \in [Keys -> {"never", "once", "always"}]
          PROVE  TypeOK'
      <3>1. unpin' \subseteq Threads BY <2>1 DEF TypeOK
      <3> QED BY <2>1, <3>1, NoObjAssumption DEF Begin, TypeOK, PCs
    <2>2. now \in Nat BY ApplyAssumption, SMTT(30) DEF TypeOK
    <2>3. ASSUME NEW k \in Keys, NEW p \in BOOLEAN,
                 Begin(t, [key |-> k, ts |-> now, signer |-> Self, del |-> FALSE,
                           pin |-> p, new |-> TRUE]),
                 unpin' \in {unpin, unpin \cup {t}},
                 check' = check \/ check' = Checked(k)
          PROVE  TypeOK'
      <3> DEFINE o == [key |-> k, ts |-> now, signer |-> Self, del |-> FALSE,
                       pin |-> p, new |-> TRUE]
      <3>1. o \in Object BY <2>2, ApplyAssumption DEF Object
      <3>2. check' \in [Keys -> {"never", "once", "always"}]
        BY <2>3, CheckedType DEF TypeOK
      <3> QED BY <2>1, <2>3, <3>1, <3>2
    <2>4. ASSUME NEW k \in Keys, Del(t, k)
          PROVE  TypeOK'
      BY <2>1, <2>2, <2>4, ApplyAssumption DEF Del, BeginPlain, Object, TypeOK
    <2>5. ASSUME NEW k \in Keys, NEW ts \in 1..MaxTime, NEW s \in Signers,
                 NEW d \in BOOLEAN, Receive(t, k, ts, s, d)
          PROVE  TypeOK'
      <3> DEFINE o == [key |-> k, ts |-> ts, signer |-> s, del |-> d,
                       pin |-> FALSE, new |-> FALSE]
      <3>1. ts \in Nat BY ApplyAssumption, SMTT(30)
      <3>2. o \in Object BY <3>1 DEF Object
      <3>3. Begin(t, o) /\ unpin' = unpin /\ check' = check
        BY <2>5 DEF Receive, BeginPlain
      <3>4. check' \in [Keys -> {"never", "once", "always"}] BY <3>3 DEF TypeOK
      <3> HIDE DEF o
      <3> QED BY <2>1, <3>2, <3>3, <3>4
    <2>6. ASSUME NEW k \in Keys, CheckPinned(t, k)
          PROVE  TypeOK'
      BY <2>3, <2>6 DEF CheckPinned
    <2>7. ASSUME NEW k \in Keys, NEW p \in PinFlags, Set(t, k, p) \/ ObjectPin(t, k, p)
          PROVE  TypeOK'
      <3>1. p \in BOOLEAN BY ApplyAssumption
      <3> QED BY <2>3, <2>7, <3>1 DEF Set, BeginPlain, ObjectPin
    <2> QED BY <1>6, <2>4, <2>5, <2>6, <2>7 DEF Request
  <1>7. ASSUME NEW t \in Threads, Apply(t)
        PROVE  TypeOK'
    <2>1. CASE Reject(t)
      BY <2>1 DEF Reject, Finish, GoOn, Leave, TypeOK, PCs
    <2>2. CASE AcceptNewer(t)
      <3>1. obj[t] \in Object BY <2>2 DEF AcceptNewer, TypeOK
      <3>2. obj[t].key \in Keys BY <3>1 DEF Object
      <3> QED BY <2>2, <3>2 DEF AcceptNewer, TypeOK, PCs
    <2>3. CASE AcceptCorrected(t)
      <3> DEFINE r == db[obj[t].key]
      <3>1. obj[t] \in Object BY <2>3 DEF AcceptCorrected, TypeOK
      <3>2. obj[t].key \in Keys BY <3>1 DEF Object
      <3>3. r \in Record BY <2>3, <3>2 DEF AcceptCorrected, ReceivedIsOlder, TypeOK
      <3>4. r.ts + 1 \in Nat BY <3>3, SMTT(30) DEF Record
      <3>5. [obj[t] EXCEPT !.ts = r.ts + 1, !.signer = Self] \in Object
        BY <3>1, <3>4, ApplyAssumption DEF Object
      <3>6. obj' = [obj EXCEPT ![t] = [obj[t] EXCEPT !.ts = r.ts + 1, !.signer = Self]]
        BY <2>3, <3>1 DEF AcceptCorrected, TypeOK
      <3>7. obj' \in [Threads -> Object \cup {NoObj}] BY <3>5, <3>6 DEF TypeOK
      <3>8. read' \in [Threads -> Record \cup {NoRec}]
        BY <2>3, <3>3 DEF AcceptCorrected, TypeOK
      <3>9. pc' \in [Threads -> PCs] BY <2>3 DEF AcceptCorrected, TypeOK, PCs
      <3>10. UNCHANGED <<now, db, copy, check, told, unpin, doomed, high, crashes>>
        BY <2>3 DEF AcceptCorrected
      <3>11. \A u \in Threads : pc'[u] # "idle" => obj'[u] # NoObj
        BY <2>3, <3>5, <3>6, NoObjAssumption DEF AcceptCorrected, TypeOK
      <3> QED BY <3>7, <3>8, <3>9, <3>10, <3>11 DEF TypeOK
    <2>4. CASE Write(t)
      <3>1. obj[t] \in Object BY <2>4 DEF Write, TypeOK
      <3>2. obj[t].key \in Keys BY <3>1 DEF Object
      <3>3. /\ db' \in [Keys -> Record \cup {NoRec}]
            /\ high' \in [Keys -> Record \cup {NoRec}]
        BY <2>4, <3>1, <3>2, StoredIsRecord, PutType DEF Write
      <3> QED BY <2>4, <3>3 DEF Write, TypeOK, PCs
    <2>5. CASE WriteFails(t)
      BY <2>5 DEF WriteFails, TypeOK, PCs
    <2>6. ASSUME obj[t] \in Object, AddPinned(t)
          PROVE  /\ copy' \subseteq Keys
                 /\ check' \in [Keys -> {"never", "once", "always"}]
                 /\ obj' \in [Threads -> Object \cup {NoObj}]
                 /\ obj'[t] # NoObj
                 /\ \A u \in Threads : u # t => obj'[u] = obj[u]
                 /\ db' \in [Keys -> Record \cup {NoRec}]
                 /\ high' \in [Keys -> Record \cup {NoRec}]
      <3> DEFINE o == [obj[t] EXCEPT !.ts = now]
      <3>1. o \in Object
        BY <2>6, StampedIsObject, ApplyAssumption, SMTT(30) DEF TypeOK
      <3>2. o.key \in Keys /\ Stored(o) \in Record
        BY <3>1, StoredIsRecord DEF Object
      <3>3. check' \in [Keys -> {"never", "once", "always"}] BY <2>6 DEF AddPinned
      <3>4. CASE o.key \in copy
        BY <2>6, <3>3, <3>4, NoObjAssumption DEF AddPinned, TypeOK
      <3>5. CASE o.key \notin copy
        <4>1. /\ copy' = copy \cup {o.key}
              /\ obj' = [obj EXCEPT ![t] = o]
              /\ Put(o.key, Stored(o))
          BY <2>6, <3>5 DEF AddPinned
        <4> HIDE DEF o
        <4> QED BY <4>1, <3>1, <3>2, <3>3, PutType, NoObjAssumption DEF TypeOK
      <3> QED BY <3>4, <3>5
    <2>7. CASE Pin(t)
      <3>1. obj[t] \in Object BY <2>7 DEF Pin, TypeOK
      <3>2. CASE obj[t].pin
        BY <2>6, <2>7, <3>1, <3>2 DEF Pin, TypeOK, PCs
      <3>3. CASE ~obj[t].pin
        BY <2>7, <3>3 DEF Pin, DelPinned, TypeOK, PCs
      <3> QED BY <3>2, <3>3
    <2>8. CASE Tell(t)
      <3>1. obj[t] \in Object BY <2>8 DEF Tell, TypeOK
      <3>2. obj[t].key \in Keys /\ Stored(obj[t]) \in Record
        BY <3>1, StoredIsRecord DEF Object
      <3>3. told' \in [Keys -> Record \cup {NoRec}]
        BY <2>8, <3>2 DEF Tell, TypeOK
      <3> QED BY <2>8, <3>3 DEF Tell, Finish, GoOn, Leave, TypeOK, PCs
    <2>9. CASE Repin(t)
      <3>1. obj[t] \in Object BY <2>9 DEF Repin, TypeOK
      <3> QED BY <2>6, <2>9, <3>1 DEF Repin, TypeOK, PCs
    <2>10. CASE Unpin(t)
      BY <2>10 DEF Unpin, Leave, TypeOK, PCs
    <2> QED BY <1>7, <2>1, <2>2, <2>3, <2>4, <2>5, <2>7, <2>8, <2>9, <2>10 DEF Apply
  <1>8. CASE Restart
    <2>1. ASSUME NEW k \in Keys
          PROVE  Restamped(k) \in Record \cup {NoRec}
      <3>1. CASE k \in Uncopied
        <4>1. db[k] \in Record /\ now \in Nat
          BY <3>1, ApplyAssumption, SMTT(30) DEF Uncopied, TypeOK
        <4>2. [db[k] EXCEPT !.ts = now] \in Record BY <4>1 DEF Record
        <4> QED BY <3>1, <4>2 DEF Restamped
      <3>2. CASE k \notin Uncopied
        BY <3>2 DEF Restamped, TypeOK
      <3> QED BY <3>1, <3>2
    <2>2. /\ db' \in [Keys -> Record \cup {NoRec}]
          /\ told' \in [Keys -> Record \cup {NoRec}]
          /\ high' \in [Keys -> Record \cup {NoRec}]
      BY <1>8, <2>1 DEF Restart, TypeOK
    <2>3. /\ pc' \in [Threads -> PCs]
          /\ obj' \in [Threads -> Object \cup {NoObj}]
          /\ read' \in [Threads -> Record \cup {NoRec}]
          /\ \A t \in Threads : pc'[t] # "idle" => obj'[t] # NoObj
      BY <1>8 DEF Restart, PCs
    <2>4. copy' \subseteq Keys /\ unpin' \subseteq Threads /\ doomed' \subseteq (Keys \X Record)
      BY <1>8 DEF Restart, Uncopied, TypeOK
    <2>5. crashes' \in 0..MaxCrashes /\ now' \in 0..MaxTime
      BY <1>8, ApplyAssumption, SMTT(30) DEF Restart, TypeOK
    <2>6. check' \in [Keys -> {"never", "once", "always"}]
      <3>1. \A k \in Keys : CheckAtStart[k] \in {"never", "once", "always"}
        BY DEF CheckAtStart
      <3>2. CheckAtStart = [k \in Keys |-> CheckAtStart[k]] BY DEF CheckAtStart
      <3>3. check' = CheckAtStart BY <1>8 DEF Restart
      <3> QED BY <3>1, <3>2, <3>3
    <2> QED BY <2>2, <2>3, <2>4, <2>5, <2>6 DEF TypeOK
  <1>9. ASSUME NEW k \in Keys, SkipPinned(k)
        PROVE  TypeOK'
    BY <1>9, CheckedType DEF SkipPinned, TypeOK
  <1> QED BY <1>1, <1>2, <1>3, <1>4, <1>5, <1>6, <1>7, <1>8, <1>9 DEF Next, Clean

-----------------------------------------------------------------------------
(* One thread and no pins.                                                 *)

\* The order of driver hashes is total, and a hash is not below itself.
LEMMA HashTotal ==
    ASSUME NEW r, NEW q,
           r.ts \in Nat, q.ts \in Nat, Crc(r) \in Nat, Crc(q) \in Nat,
           ~SameHash(r, q), ~HashLess(q, r)
    PROVE  HashLess(r, q)
  BY SMTT(30) DEF SameHash, HashLess

\* A record with the hash of another is below the same records.
LEMMA HashCongruence ==
    ASSUME NEW r, NEW s, NEW q, SameHash(r, s), HashLess(r, q)
    PROVE  HashLess(s, q)
  BY DEF SameHash, HashLess

\* Of two records at most one is below the other.
LEMMA HashAsymmetric ==
    ASSUME NEW r, NEW q,
           r.ts \in Nat, q.ts \in Nat, Crc(r) \in Nat, Crc(q) \in Nat,
           HashLess(r, q)
    PROVE  ~HashLess(q, r)
  BY SMTT(30) DEF HashLess

\* The timestamp and the CRC of a stored record and of an object.
LEMMA RecordFields ==
    ASSUME NEW r \in Record
    PROVE  r.ts \in Nat /\ Crc(r) \in Nat /\ r.signer \in Signers
  BY CrcAssumption, SMTT(30) DEF Record, Crc

\* The same for an object on its way into the store.
LEMMA ObjectFields ==
    ASSUME NEW o \in Object
    PROVE  /\ o.ts \in Nat /\ Crc(o) \in Nat
           /\ o.key \in Keys /\ o.signer \in Signers
  BY CrcAssumption, SMTT(30) DEF Object, Crc

\* Storing an object keeps its hash and its access rights.
LEMMA StoredFields ==
    ASSUME NEW o \in Object
    PROVE  /\ Stored(o).ts = o.ts /\ Stored(o).signer = o.signer
           /\ Stored(o).del = o.del /\ Stored(o).pin = o.pin
           /\ Crc(Stored(o)) = Crc(o)
  BY DEF Stored, Object, Crc

\* An object that passed the tests against the present record is newer than
\* every record ever written under its key.
LEMMA AdmittedIsNewest ==
    ASSUME IInv, NEW o \in Object,
           Admitted(db[o.key], o, now), ~ReceivedIsOlder(db[o.key], o)
    PROVE  high[o.key] = NoRec \/ HashLess(high[o.key], o)
  <1> DEFINE k == o.key
  <1>1. k \in Keys /\ o.ts \in Nat /\ Crc(o) \in Nat BY ObjectFields
  <1>2. now \in Nat /\ db[k] \in Record \cup {NoRec} /\ high[k] \in Record \cup {NoRec}
    BY <1>1, ApplyAssumption, SMTT(30) DEF IInv, TypeOK
  <1>3. CASE db[k] = NoRec /\ high[k] # NoRec
    <2>1. Ttl # 0 /\ high[k].ts + Ttl < now
      BY <1>1, <1>3 DEF IInv, CleanedExpired
    <2>2. ~(o.ts + Ttl < now) BY <2>1 DEF Admitted, TooOld
    <2>3. high[k].ts \in Nat BY <1>2, <1>3, RecordFields
    <2> QED BY <1>1, <1>2, <2>1, <2>2, <2>3, TtlAssumption, SMTT(30) DEF HashLess
  <1>4. CASE db[k] # NoRec
    <2>1. SameHash(db[k], high[k]) BY <1>1, <1>4 DEF IInv, NewestKept
    <2>2. ~SameHash(db[k], o) /\ ~HashLess(o, db[k])
      BY <1>4 DEF Admitted, IsHash, ReceivedIsOlder
    <2>3. db[k].ts \in Nat /\ Crc(db[k]) \in Nat BY <1>2, <1>4, RecordFields
    <2>4. HashLess(db[k], o) BY <1>1, <2>2, <2>3, HashTotal
    <2> QED BY <2>1, <2>4, HashCongruence
  <1> QED BY <1>3, <1>4

\* The parts of the invariant besides the type invariant.
Rest ==
    /\ NothingPinned
    /\ NewIsOwn
    /\ CleanedExpired
    /\ WriteIsNewest
    /\ WriteAuthorised
    /\ PageExpired
    /\ NewestKept
    /\ WritersOnly

\* Moving the clock, dropping the group, the cleaner's steps and a restart
\* keep the invariant.  A cleaned record was expired and the newest of its
\* key; a restart finds nothing to copy.
LEMMA BackgroundStep ==
    ASSUME IInv, TypeOK', Tick \/ DropGroup \/ Clean \/ Restart
    PROVE  Rest'
  <1> USE DEF IInv
  <1>1. CASE Tick
    <2>1. now \in Nat /\ now' = now + 1
      BY <1>1, ApplyAssumption, SMTT(30) DEF Tick, TypeOK
    <2>2. CleanedExpired'
      <3> SUFFICES ASSUME NEW k \in Keys, db[k] = NoRec, high[k] # NoRec
                   PROVE  Ttl # 0 /\ high[k].ts + Ttl < now + 1
        BY <1>1, <2>1 DEF Tick, CleanedExpired
      <3>1. high[k].ts \in Nat BY RecordFields DEF TypeOK
      <3> QED BY <2>1, <3>1, TtlAssumption, SMTT(30) DEF CleanedExpired
    <2>3. PageExpired'
      <3> SUFFICES ASSUME NEW k \in Keys, NEW r \in Record, <<k, r>> \in doomed
                   PROVE  Ttl # 0 /\ r.ts + Ttl < now + 1
        BY <1>1, <2>1 DEF Tick, PageExpired
      <3>1. r.ts \in Nat BY RecordFields
      <3> QED BY <2>1, <3>1, TtlAssumption, SMTT(30) DEF PageExpired
    <2> QED BY <1>1, <2>2, <2>3 DEF Tick, Rest, NothingPinned, NewIsOwn, WriteIsNewest,
              WriteAuthorised, NewestKept, WritersOnly
  <1>2. CASE DropGroup
    <2>1. ASSUME NEW t \in Threads, pc[t] = "write"
          PROVE  obj[t].key \in Keys
      BY <2>1, ObjectFields DEF TypeOK
    <2>2. WriteAuthorised'
      BY <1>2, <2>1 DEF DropGroup, WriteAuthorised, MayRewrite
    <2>3. WriteIsNewest'
      BY <1>2, <2>1 DEF DropGroup, WriteIsNewest
    <2> QED BY <1>2, <2>2, <2>3 DEF DropGroup, Rest, NothingPinned, NewIsOwn,
              CleanedExpired, PageExpired, NewestKept, WritersOnly
  <1>3. CASE CleanRead
    <2>1. PageExpired'
      BY <1>3 DEF CleanRead, PageExpired, Expired
    <2> QED BY <1>3, <2>1 DEF CleanRead, Rest, NothingPinned, NewIsOwn, CleanedExpired,
              WriteIsNewest, WriteAuthorised, NewestKept, WritersOnly
  <1>4. ASSUME NEW d \in doomed, CleanDelete(d[1], d[2])
        PROVE  Rest'
    <2> DEFINE k == d[1]
               r == d[2]
    <2>1. k \in Keys /\ r \in Record /\ <<k, r>> \in doomed BY SMTT(30) DEF TypeOK
    <2>2. Ttl # 0 /\ r.ts + Ttl < now BY <2>1 DEF PageExpired
    <2>3. PageExpired' BY <1>4 DEF CleanDelete, PageExpired
    <2>4. CASE db' = db
      BY <1>4, <2>3, <2>4
         DEF CleanDelete, Rest, NothingPinned, NewIsOwn, CleanedExpired,
         WriteIsNewest, WriteAuthorised, NewestKept, WritersOnly
    <2>5. CASE db' # db
      <3>1. /\ db[k] # NoRec /\ SameHash(db[k], r)
            /\ db' = [db EXCEPT ![k] = NoRec]
        BY <1>4, <2>5 DEF CleanDelete
      <3>2. SameHash(db[k], high[k]) BY <2>1, <3>1 DEF NewestKept
      <3>3. high[k].ts + Ttl < now BY <2>2, <3>1, <3>2 DEF SameHash
      <3>4. /\ high' = high /\ now' = now /\ pc' = pc /\ obj' = obj /\ read' = read
            /\ copy' = copy
        BY <1>4 DEF CleanDelete
      <3>5. \A j \in Keys : db'[j] = db[j] \/ (j = k /\ db'[j] = NoRec)
        BY <3>1 DEF TypeOK
      <3>6. CleanedExpired' BY <2>2, <3>3, <3>4, <3>5 DEF CleanedExpired
      <3>7. WriteAuthorised'
        <4>1. ASSUME NEW t \in Threads, pc[t] = "write"
              PROVE  obj[t].key \in Keys
          BY <4>1, ObjectFields DEF TypeOK
        <4> QED BY <3>4, <3>5, <4>1 DEF WriteAuthorised, MayRewrite
      <3> QED BY <2>3, <3>4, <3>5, <3>6, <3>7 DEF Rest, NothingPinned, NewIsOwn,
                WriteIsNewest, NewestKept, WritersOnly
    <2> QED BY <2>4, <2>5
  <1>5. CASE Restart
    <2>1. Uncopied = {} BY DEF Uncopied, NothingPinned
    <2>2. db' = db
      <3>1. \A k \in Keys : Restamped(k) = db[k] BY <2>1 DEF Restamped
      <3> QED BY <1>5, <3>1 DEF Restart, TypeOK
    <2>3. high' = high /\ copy' = copy BY <1>5, <2>1 DEF Restart, TypeOK
    <2>4. now' = now /\ doomed' = {} BY <1>5 DEF Restart
    <2>5. \A t \in Threads : pc'[t] = "idle" /\ obj'[t] = NoObj BY <1>5 DEF Restart
    <2> QED BY <2>2, <2>3, <2>4, <2>5 DEF Rest, NothingPinned, NewIsOwn, CleanedExpired,
              WriteIsNewest, WriteAuthorised, PageExpired, NewestKept, WritersOnly
  <1> QED BY <1>1, <1>2, <1>3, <1>4, <1>5 DEF Clean

\* Starting an operation keeps the invariant.
LEMMA RequestStep ==
    ASSUME NoPinCallers, IInv, TypeOK', NEW t \in Threads, Request(t)
    PROVE  Rest'
  <1> USE DEF IInv
  <1>1. ASSUME NEW o \in Object, Begin(t, o), ~o.pin, o.new => o.signer = Self
        PROVE  Rest'
    <2>1. \A u \in Threads : obj'[u] = IF u = t THEN o ELSE obj[u]
      BY <1>1 DEF Begin, TypeOK
    <2>2. \A u \in Threads : pc'[u] = IF u = t THEN "check" ELSE pc[u]
      BY <1>1 DEF Begin, TypeOK
    <2>3. UNCHANGED <<now, db, copy, high, doomed>> BY <1>1 DEF Begin
    <2>4. NothingPinned' BY <1>1, <2>1, <2>2, <2>3 DEF NothingPinned
    <2>5. NewIsOwn' BY <1>1, <2>1 DEF NewIsOwn
    <2>6. WriteIsNewest' BY <2>1, <2>2, <2>3 DEF WriteIsNewest
    <2>7. WriteAuthorised' BY <2>1, <2>2, <2>3 DEF WriteAuthorised
    <2> QED BY <2>3, <2>4, <2>5, <2>6, <2>7 DEF Rest, CleanedExpired, PageExpired,
              NewestKept, WritersOnly
  <1>2. now \in Nat BY ApplyAssumption, SMTT(30) DEF TypeOK
  <1>3. ASSUME NEW k \in Keys, NEW p \in PinFlags, Set(t, k, p) \/ ObjectPin(t, k, p)
        PROVE  Rest'
    <2> DEFINE o == [key |-> k, ts |-> now, signer |-> Self, del |-> FALSE,
                     pin |-> p, new |-> TRUE]
    <2>1. o \in Object /\ ~o.pin /\ o.signer = Self
      BY <1>2, ApplyAssumption DEF NoPinCallers, Object
    <2>2. Begin(t, o) BY <1>3 DEF Set, BeginPlain, ObjectPin
    <2> HIDE DEF o
    <2> QED BY <1>1, <2>1, <2>2
  <1>4. ASSUME NEW k \in Keys, Del(t, k)
        PROVE  Rest'
    <2> DEFINE o == [key |-> k, ts |-> now, signer |-> Self, del |-> TRUE,
                     pin |-> FALSE, new |-> TRUE]
    <2>1. o \in Object /\ ~o.pin /\ o.signer = Self
      BY <1>2, ApplyAssumption DEF NoPinCallers, Object
    <2>2. Begin(t, o) BY <1>4 DEF Del, BeginPlain
    <2> HIDE DEF o
    <2> QED BY <1>1, <2>1, <2>2
  <1>5. ASSUME NEW k \in Keys, NEW ts \in 1..MaxTime, NEW s \in Signers,
               NEW d \in BOOLEAN, Receive(t, k, ts, s, d)
        PROVE  Rest'
    <2> DEFINE o == [key |-> k, ts |-> ts, signer |-> s, del |-> d,
                     pin |-> FALSE, new |-> FALSE]
    <2>1. ts \in Nat BY ApplyAssumption, SMTT(30)
    <2>2. o \in Object /\ ~o.pin /\ ~o.new BY <2>1 DEF Object
    <2>3. Begin(t, o) BY <1>5 DEF Receive, BeginPlain
    <2> HIDE DEF o
    <2> QED BY <1>1, <2>2, <2>3
  <1>6. ~\E k \in Keys : CheckPinned(t, k) BY DEF CheckPinned, NothingPinned
  <1> QED BY <1>3, <1>4, <1>5, <1>6, Request(t) DEF Request

\* A step of the only thread in the apply path keeps the invariant.
LEMMA ApplyStep ==
    ASSUME OneThread, IInv, TypeOK', NEW t \in Threads, Apply(t)
    PROVE  Rest'
  <1> USE DEF IInv
  <1> DEFINE k == obj[t].key
  <1>1. \A u \in Threads : u = t BY DEF OneThread
  <1>2. pc[t] # "idle"
    BY DEF Apply, Reject, AcceptNewer, AcceptCorrected, Write, WriteFails,
                 Pin, Tell, Repin, Unpin
  <1>3. obj[t] \in Object /\ ~obj[t].pin BY <1>2 DEF TypeOK, NothingPinned
  <1>4. k \in Keys /\ obj[t].ts \in Nat /\ Crc(obj[t]) \in Nat BY <1>3, ObjectFields
  <1>5. db[k] \in Record \cup {NoRec} /\ high[k] \in Record \cup {NoRec}
    BY <1>4 DEF TypeOK
  \* Steps that write nothing and leave the thread elsewhere than at a write.
  <1>6. ASSUME UNCHANGED <<now, db, doomed, high>>,
               copy' = {},
               pc'[t] \notin {"write", "repin"},
               obj'[t] \in {obj[t], NoObj}
        PROVE  Rest'
    BY <1>1, <1>6 DEF Rest, NothingPinned, NewIsOwn, CleanedExpired, WriteIsNewest,
       WriteAuthorised, PageExpired, NewestKept, WritersOnly
  <1>7. CASE Reject(t)
    BY <1>3, <1>6, <1>7 DEF Reject, Finish, GoOn, Leave, TypeOK, NothingPinned
  <1>8. CASE WriteFails(t)
    BY <1>6, <1>8 DEF WriteFails, TypeOK, NothingPinned
  <1>9. CASE Pin(t)
    BY <1>3, <1>6, <1>9 DEF Pin, DelPinned, TypeOK, NothingPinned
  <1>10. CASE Tell(t)
    BY <1>3, <1>6, <1>10 DEF Tell, Finish, GoOn, Leave, TypeOK, NothingPinned
  <1>11. CASE Repin(t)
    BY <1>11 DEF Repin, NothingPinned
  <1>12. CASE AcceptNewer(t)
    <2>1. /\ Admitted(db[k], obj[t], now) /\ ~ReceivedIsOlder(db[k], obj[t])
          /\ UNCHANGED <<now, db, copy, doomed, high, obj>> /\ pc'[t] = "write"
      BY <1>12 DEF AcceptNewer, TypeOK
    <2>2. high[k] = NoRec \/ HashLess(high[k], obj[t])
      BY <1>3, <2>1, AdmittedIsNewest
    <2>3. WriteIsNewest' BY <1>1, <2>1, <2>2 DEF WriteIsNewest
    <2>4. WriteAuthorised' BY <1>1, <2>1 DEF WriteAuthorised, Admitted
    <2> QED BY <1>1, <2>1, <2>3, <2>4 DEF Rest, NothingPinned, NewIsOwn, CleanedExpired,
              PageExpired, NewestKept, WritersOnly
  <1>13. CASE AcceptCorrected(t)
    <2> DEFINE r == db[k]
               o == [obj[t] EXCEPT !.ts = r.ts + 1, !.signer = Self]
    <2>1. /\ Admitted(r, obj[t], now) /\ r # NoRec /\ obj[t].new
          /\ UNCHANGED <<now, db, copy, doomed, high>> /\ pc'[t] = "write"
          /\ obj'[t] = o
      BY <1>13, <1>3 DEF AcceptCorrected, ReceivedIsOlder, TypeOK
    <2>2. r.ts \in Nat BY <1>5, <2>1, RecordFields
    <2>3. o.key = k /\ o.ts = r.ts + 1 /\ o.signer = Self /\ ~o.pin /\ o.new
      BY <1>3, <2>1 DEF Object
    <2>4. obj[t].signer = Self BY <1>3, <2>1, NoObjAssumption DEF NewIsOwn
    <2>5. SameHash(r, high[k]) BY <1>4, <2>1 DEF NewestKept
    <2> HIDE DEF o
    <2>6. WriteIsNewest'
      <3>1. HashLess(high[k], o) BY <2>2, <2>3, <2>5, SMTT(30) DEF HashLess, SameHash
      <3> QED BY <1>1, <2>1, <2>3, <3>1 DEF WriteIsNewest
    <2>7. WriteAuthorised'
      BY <1>1, <2>1, <2>3, <2>4
         DEF WriteAuthorised, Admitted, MayWrite, MayRewrite, OwnsAsRoot
    <2>8. NothingPinned' /\ NewIsOwn'
      BY <1>1, <2>1, <2>3 DEF NothingPinned, NewIsOwn
    <2> QED BY <2>1, <2>6, <2>7, <2>8 DEF Rest, CleanedExpired, PageExpired, NewestKept,
              WritersOnly
  <1>14. CASE Write(t)
    <2> DEFINE s == Stored(obj[t])
    <2>1. /\ Put(k, s) /\ UNCHANGED <<now, copy, doomed, obj>>
          /\ pc[t] = "write" /\ pc'[t] = "pin"
      BY <1>14 DEF Write, TypeOK
    <2>2. s \in Record /\ s.ts = obj[t].ts /\ s.signer = obj[t].signer /\ ~s.pin
            /\ Crc(s) = Crc(obj[t])
      BY <1>3, StoredFields, StoredIsRecord
    <2> HIDE DEF s
    <2>3. ~(high[k] # NoRec /\ HashLess(s, high[k]))
      <3> SUFFICES ASSUME high[k] # NoRec PROVE ~HashLess(s, high[k])
        OBVIOUS
      <3>1. HashLess(high[k], obj[t]) BY <2>1 DEF WriteIsNewest
      <3>2. high[k].ts \in Nat /\ Crc(high[k]) \in Nat BY <1>5, RecordFields
      <3>3. HashLess(high[k], s) BY <2>2, <3>1 DEF HashLess
      <3> QED BY <1>4, <2>2, <3>2, <3>3, HashAsymmetric
    <2>4. /\ db'[k] = s /\ high'[k] = s
          /\ \A j \in Keys : j # k => db'[j] = db[j] /\ high'[j] = high[j]
      <3>1. db' = [db EXCEPT ![k] = s] /\ high' = [high EXCEPT ![k] = s]
        BY <2>1, <2>3 DEF Put
      <3> QED BY <1>4, <3>1 DEF TypeOK
    <2> HIDE DEF k
    <2>5. NewestKept' BY <2>4 DEF NewestKept, SameHash
    <2>6. MayWrite(s) BY <2>1, <2>2 DEF WriteAuthorised, MayWrite
    <2>7. WritersOnly' BY <2>4, <2>6 DEF WritersOnly
    <2>8. CleanedExpired' BY <2>1, <2>2, <2>4, NoRecAssumption DEF CleanedExpired
    <2>9. NothingPinned' BY <1>1, <2>1, <2>2, <2>4 DEF NothingPinned
    <2>10. NewIsOwn' /\ PageExpired' BY <2>1 DEF NewIsOwn, PageExpired
    <2>11. WriteIsNewest' /\ WriteAuthorised'
      BY <1>1, <2>1 DEF WriteIsNewest, WriteAuthorised
    <2> QED BY <2>5, <2>7, <2>8, <2>9, <2>10, <2>11 DEF Rest
  <1>15. CASE Unpin(t)
    BY <1>6, <1>15 DEF Unpin, Leave, TypeOK, NothingPinned
  <1> QED BY <1>7, <1>8, <1>9, <1>10, <1>11, <1>12, <1>13, <1>14, <1>15 DEF Apply

\* An empty store and idle threads satisfy the inductive invariant.
LEMMA InitInv == Init => IInv
  <1> SUFFICES ASSUME Init PROVE IInv OBVIOUS
  <1>1. TypeOK BY ApplyAssumption, SMTT(30) DEF Init, TypeOK, PCs
  <1>2. NothingPinned /\ NewIsOwn BY DEF Init, NothingPinned, NewIsOwn
  <1>3. CleanedExpired BY DEF Init, CleanedExpired
  <1>4. WriteIsNewest /\ WriteAuthorised BY DEF Init, WriteIsNewest, WriteAuthorised
  <1>5. PageExpired BY DEF Init, PageExpired
  <1>6. NewestKept /\ WritersOnly BY DEF Init, NewestKept, WritersOnly
  <1> QED BY <1>1, <1>2, <1>3, <1>4, <1>5, <1>6 DEF IInv

\* One step of the node keeps the inductive invariant.
LEMMA InvStep ==
    ASSUME OneThread, NoPinCallers
    PROVE  IInv /\ [Next]_vars => IInv'
  <1> SUFFICES ASSUME IInv, [Next]_vars
               PROVE  IInv'
    OBVIOUS
  <1>1. TypeOK' BY TypeStep DEF IInv
  <1>2. CASE UNCHANGED vars
    BY <1>2, <1>1 DEF vars, IInv, NothingPinned, NewIsOwn, CleanedExpired,
       WriteIsNewest, WriteAuthorised, PageExpired, NewestKept, WritersOnly
  <1>3. CASE Tick \/ DropGroup \/ Clean \/ Restart
    BY <1>1, <1>3, BackgroundStep DEF Rest, IInv
  <1>4. ASSUME NEW t \in Threads, Request(t)
        PROVE  IInv'
    BY <1>1, <1>4, RequestStep DEF Rest, IInv
  <1>5. ASSUME NEW t \in Threads, Apply(t)
        PROVE  IInv'
    BY <1>1, <1>5, ApplyStep DEF Rest, IInv
  <1>6. ASSUME NEW k \in Keys, SkipPinned(k)
        PROVE  IInv'
    BY <1>1, <1>6 DEF SkipPinned, IInv, NothingPinned, NewIsOwn, CleanedExpired,
       WriteIsNewest, WriteAuthorised, PageExpired, NewestKept, WritersOnly
  <1> QED BY <1>2, <1>3, <1>4, <1>5, <1>6 DEF Next

\* The state of the apply path stays well typed, with any number of threads,
\* with pins and with a failing driver.
THEOREM TypeCorrect == Spec => []TypeOK
  <1>1. Init => TypeOK
    BY ApplyAssumption, SMTT(30) DEF Init, TypeOK, PCs
  <1> QED BY <1>1, TypeStep, PTL DEF Spec

\* With one thread in s_store_obj_apply and no pinning callers, the record
\* under a key is the newest ever written there, and its signer has write
\* access to the cluster.
THEOREM LastWriterWins ==
    ASSUME OneThread, NoPinCallers
    PROVE  Spec => [](NewestKept /\ WritersOnly)
  <1>1. Init => IInv BY InitInv
  <1>2. IInv /\ [Next]_vars => IInv' BY InvStep
  <1>3. IInv => NewestKept /\ WritersOnly BY DEF IInv
  <1> QED BY <1>1, <1>2, <1>3, PTL DEF Spec

-----------------------------------------------------------------------------
(* Pinned records and their copies, with one thread and a driver that does *)
(* not fail.                                                               *)

\* A pinned record has its copy and the timer runs, or the thread that wrote it
\* is about to see to both.
CopiedSoon ==
    \A k \in Keys : db[k] # NoRec /\ db[k].pin =>
       \/ k \in copy /\ check[k] = "always"
       \/ \E t \in Threads : pc[t] = "pin" /\ obj[t].pin /\ obj[t].key = k

\* Until the apply path is left, the store has no other record under the key
\* than the one that was written: a copy goes only with a record that is not
\* pinned.
PinAsWritten ==
    \A t \in Threads :
       /\ pc[t] \in {"pin", "tell", "unpin"} =>
             \/ db[obj[t].key] = NoRec
             \/ db[obj[t].key].pin = obj[t].pin
       /\ pc[t] = "unpin" => ~obj[t].pin

PinInv == TypeOK /\ CopiedSoon /\ PinAsWritten

\* A step of the only thread keeps the copies.
LEMMA PinApplyStep ==
    ASSUME OneThread, ~DriverMayFail, PinInv, TypeOK', NEW t \in Threads, Apply(t)
    PROVE  CopiedSoon' /\ PinAsWritten'
  <1> USE DEF PinInv
  <1> DEFINE k == obj[t].key
  <1>1. \A u \in Threads : u = t BY DEF OneThread
  <1>2. pc[t] # "idle"
    BY DEF Apply, Reject, AcceptNewer, AcceptCorrected, Write, WriteFails,
                 Pin, Tell, Repin, Unpin
  <1>3. obj[t] \in Object BY <1>2 DEF TypeOK
  <1>4. k \in Keys /\ obj[t].pin \in BOOLEAN BY <1>3 DEF Object
  \* Steps that write nothing and come from elsewhere than the pin step.
  <1>5. ASSUME UNCHANGED <<db, copy, check>>, pc[t] # "pin",
               pc'[t] \in {"idle", "write", "repin"}
        PROVE  CopiedSoon' /\ PinAsWritten'
    BY <1>1, <1>5, SMTT(30) DEF CopiedSoon, PinAsWritten
  <1>6. CASE Reject(t)
    BY <1>5, <1>6 DEF Reject, Finish, GoOn, Leave, TypeOK
  <1>7. CASE AcceptNewer(t)
    BY <1>5, <1>7 DEF AcceptNewer, TypeOK
  <1>8. CASE AcceptCorrected(t)
    BY <1>5, <1>8 DEF AcceptCorrected, TypeOK
  <1>9. CASE Write(t)
    <2>1. /\ db' = [db EXCEPT ![k] = Stored(obj[t])]
          /\ pc[t] = "write" /\ pc'[t] = "pin" /\ obj' = obj
          /\ copy' = copy /\ check' = check
      BY <1>9 DEF Write, Put, TypeOK
    <2>2. Stored(obj[t]).pin = obj[t].pin BY <1>3, StoredFields
    <2>3. db'[k].pin = obj[t].pin /\ \A j \in Keys : j # k => db'[j] = db[j]
      BY <1>4, <2>1, <2>2 DEF TypeOK
    <2> QED BY <1>1, <2>1, <2>3 DEF CopiedSoon, PinAsWritten
  <1>10. CASE WriteFails(t)
    BY <1>10 DEF WriteFails
  <1>11. ASSUME AddPinned(t)
         PROVE  /\ \A j \in Keys : j # k => db'[j] = db[j] /\ (j \in copy => j \in copy')
                /\ k \in copy'
                /\ \A j \in Keys : check'[j] = "always"
                /\ obj'[t].key = k /\ obj'[t].pin = obj[t].pin
                /\ db'[k] = db[k] \/ db'[k].pin = obj[t].pin
    <2> DEFINE o == [obj[t] EXCEPT !.ts = now]
    <2>1. o \in Object BY <1>3, StampedIsObject, ApplyAssumption, SMTT(30) DEF TypeOK
    <2>2. o.key = k /\ o.pin = obj[t].pin BY <1>3 DEF Object
    <2>3. Stored(o).pin = o.pin BY <2>1, StoredFields
    <2>4. \A j \in Keys : check'[j] = "always" BY <1>11 DEF AddPinned
    <2>5. CASE k \in copy
      BY <1>11, <2>2, <2>5, <2>4 DEF AddPinned
    <2>6. CASE k \notin copy
      <3>1. /\ copy' = copy \cup {k} /\ obj' = [obj EXCEPT ![t] = o]
            /\ db' = [db EXCEPT ![k] = Stored(o)]
        BY <1>11, <2>2, <2>6 DEF AddPinned, Put
      <3> HIDE DEF o
      <3> QED BY <1>4, <1>11, <2>2, <2>3, <3>1, <2>4 DEF TypeOK
    <2> QED BY <2>5, <2>6
  <1>12. CASE Pin(t)
    <2>1. pc[t] = "pin" /\ pc'[t] = "tell" BY <1>12 DEF Pin, TypeOK
    <2>2. CASE obj[t].pin
      <3>1. AddPinned(t) BY <1>12, <2>2 DEF Pin
      <3>2. CopiedSoon' BY <1>1, <1>11, <2>1, <2>2, <3>1 DEF CopiedSoon
      <3>3. PinAsWritten'
        <4>1. db[k] = NoRec \/ db[k].pin = obj[t].pin BY <2>1 DEF PinAsWritten
        <4>2. db'[k] = NoRec \/ db'[k].pin = obj[t].pin BY <1>11, <3>1, <4>1
        <4>3. obj'[t].key = k /\ obj'[t].pin = obj[t].pin BY <1>11, <3>1
        <4> HIDE DEF k
        <4> QED BY <1>1, <2>1, <4>2, <4>3 DEF PinAsWritten
      <3> QED BY <3>2, <3>3
    <2>3. CASE ~obj[t].pin
      <3>1. /\ db' = db /\ obj' = obj /\ check' = check
            /\ copy' = copy \/ copy' = copy \ {k}
        BY <1>12, <2>3 DEF Pin, DelPinned
      <3>2. db[k] = NoRec \/ ~db[k].pin BY <2>1, <2>3 DEF PinAsWritten
      <3> QED BY <1>1, <2>1, <2>3, <3>1, <3>2 DEF CopiedSoon, PinAsWritten
    <2> QED BY <2>2, <2>3
  <1>13. CASE Tell(t)
    <2>1. db' = db /\ copy' = copy /\ check' = check /\ pc[t] = "tell" BY <1>13 DEF Tell
    <2>2. \/ pc'[t] \in {"idle", "repin"}
          \/ pc'[t] = "unpin" /\ obj' = obj /\ ~obj[t].pin
      BY <1>13 DEF Tell, Finish, GoOn, Leave, TypeOK
    <2> QED BY <1>1, <2>1, <2>2 DEF CopiedSoon, PinAsWritten
  <1>14. CASE Repin(t)
    <2>1. pc[t] = "repin" /\ pc'[t] = "idle" /\ AddPinned(t) BY <1>14 DEF Repin, TypeOK
    <2> QED BY <1>1, <1>11, <2>1 DEF CopiedSoon, PinAsWritten
  <1>15. CASE Unpin(t)
    <2>1. /\ pc[t] = "unpin" /\ pc'[t] = "idle" /\ db' = db /\ copy' = copy \ {k}
          /\ check' = check
      BY <1>15 DEF Unpin, Leave, TypeOK
    <2>2. db[k] = NoRec \/ ~db[k].pin BY <2>1 DEF PinAsWritten
    <2> QED BY <1>1, <2>1, <2>2 DEF CopiedSoon, PinAsWritten
  <1> QED BY <1>6, <1>7, <1>8, <1>9, <1>10, <1>12, <1>13, <1>14, <1>15 DEF Apply

\* Every other step keeps them too: a restart makes the copies that a crash
\* prevented.
LEMMA PinStep ==
    ASSUME OneThread, ~DriverMayFail
    PROVE  PinInv /\ [Next]_vars => PinInv'
  <1> SUFFICES ASSUME PinInv, [Next]_vars
               PROVE  PinInv'
    OBVIOUS
  <1> USE DEF PinInv
  <1>1. TypeOK' BY TypeStep
  \* Steps that at most remove records.
  <1>2. ASSUME \A k \in Keys : db'[k] \in {db[k], NoRec}, UNCHANGED <<copy, check, pc, obj>>
        PROVE  CopiedSoon' /\ PinAsWritten'
    <2>1. \A t \in Threads : pc[t] # "idle" => obj[t].key \in Keys
      BY ObjectFields DEF TypeOK
    <2>2. CopiedSoon' BY <1>2 DEF CopiedSoon
    <2>3. PinAsWritten' BY <1>2, <2>1 DEF PinAsWritten
    <2> QED BY <2>2, <2>3
  <1>3. CASE UNCHANGED vars
    BY <1>1, <1>2, <1>3 DEF vars
  <1>4. CASE Tick
    BY <1>1, <1>2, <1>4 DEF Tick
  <1>5. CASE DropGroup
    BY <1>1, <1>2, <1>5 DEF DropGroup
  <1>6. CASE Clean
    <2>1. CASE CleanRead
      BY <1>1, <1>2, <2>1 DEF CleanRead
    <2>2. ASSUME NEW d \in doomed, CleanDelete(d[1], d[2])
          PROVE  PinInv'
      <3>1. \A k \in Keys : db'[k] \in {db[k], NoRec} BY <2>2 DEF CleanDelete, TypeOK
      <3> QED BY <1>1, <1>2, <2>2, <3>1 DEF CleanDelete
    <2> QED BY <1>6, <2>1, <2>2 DEF Clean
  <1>7. CASE Restart
    <2>1. \A t \in Threads : pc'[t] = "idle" BY <1>7 DEF Restart
    <2>2. ASSUME NEW k \in Keys, db'[k] # NoRec, db'[k].pin
          PROVE  k \in copy' /\ check'[k] = "always"
      <3>1. db'[k] = Restamped(k) /\ copy' = copy \cup Uncopied BY <1>7 DEF Restart
      <3>2. db[k] # NoRec /\ db[k].pin /\ k \in copy'
        BY <2>2, <3>1 DEF Restamped, Uncopied
      <3>3. check'[k] = "always"
        BY <1>7, <3>2 DEF Restart, CheckAtStart
      <3> QED BY <3>2, <3>3
    <2> QED BY <1>1, <2>1, <2>2 DEF CopiedSoon, PinAsWritten
  <1>8. ASSUME NEW t \in Threads, Request(t)
        PROVE  PinInv'
    <2>1. UNCHANGED <<db, copy>> /\ pc[t] = "idle" /\ pc' = [pc EXCEPT ![t] = "check"]
      BY <1>8 DEF Request, Set, Del, Receive, ObjectPin, CheckPinned, BeginPlain, Begin
    <2>2. \A u \in Threads : u = t /\ pc'[u] = "check" BY <2>1 DEF OneThread, TypeOK
    <2>3. check' = check \/ \E k \in Keys : check' = Checked(k)
      BY <1>8 DEF Request, Set, Del, Receive, ObjectPin, CheckPinned, BeginPlain
    <2>4. \A k \in Keys : check[k] = "always" => check'[k] = "always"
      BY <2>3, CheckedType
    <2> QED BY <1>1, <2>1, <2>2, <2>4 DEF CopiedSoon, PinAsWritten
  <1>9. ASSUME NEW t \in Threads, Apply(t)
        PROVE  PinInv'
    BY <1>1, <1>9, PinApplyStep
  <1>10. ASSUME NEW k \in Keys, SkipPinned(k)
         PROVE  PinInv'
    <2>1. /\ UNCHANGED <<db, copy, pc, obj>>
          /\ \A j \in Keys : check[j] = "always" => check'[j] = "always"
      BY <1>10, CheckedType DEF SkipPinned
    <2> QED BY <1>1, <2>1 DEF CopiedSoon, PinAsWritten
  <1> QED BY <1>3, <1>4, <1>5, <1>6, <1>7, <1>8, <1>9, <1>10 DEF Next

\* With one thread in the apply path and a driver that does not fail: when the
\* path is left, every record with the pin flag has its copy in the pinned
\* group and the timer that checks the copies runs, whatever was set, deleted,
\* unpinned, received, cleaned or dropped and wherever the node was stopped
\* and started.
THEOREM PinsHaveCopies ==
    ASSUME OneThread, ~DriverMayFail
    PROVE  Spec => []PinnedHasCopy
  <1>1. Init => PinInv
    <2>1. Init => TypeOK BY ApplyAssumption, SMTT(30) DEF Init, TypeOK, PCs
    <2> QED BY <2>1 DEF Init, PinInv, CopiedSoon, PinAsWritten
  <1>2. PinInv /\ [Next]_vars => PinInv' BY PinStep
  <1>3. PinInv => PinnedHasCopy BY DEF PinInv, CopiedSoon, PinnedHasCopy
  <1> QED BY <1>1, <1>2, <1>3, PTL DEF Spec
-----------------------------------------------------------------------------
(* What peers and notifiers were told, with one thread, pins and a driver  *)
(* that does not fail.                                                     *)

\* Until the thread that wrote a record has told it, the store has that
\* record under the key or none; only a pinned object is written after that.
AsWritten ==
    \A t \in Threads :
       /\ pc[t] \in {"pin", "tell"} => db[obj[t].key] \in {NoRec, Stored(obj[t])}
       /\ pc[t] = "repin" => obj[t].pin

\* A live record that is not pinned was told, or is about to be.
ToldSoon ==
    \A k \in Keys : db[k] # NoRec /\ ~db[k].del /\ ~db[k].pin =>
       \/ told[k] # NoRec /\ SameHash(told[k], db[k])
       \/ \E t \in Threads :
             pc[t] \in {"pin", "tell"} /\ obj[t].key = k /\ db[k] = Stored(obj[t])

ToldInv == TypeOK /\ AsWritten /\ ToldSoon

\* s_add_pinned_obj_in_pinned_group leaves the record as it is, or writes the
\* object, which has the pin flag.
LEMMA AddPinnedWrites ==
    ASSUME TypeOK, NEW t \in Threads, obj[t] \in Object, obj[t].pin, AddPinned(t)
    PROVE  /\ \A j \in Keys : j # obj[t].key => db'[j] = db[j]
           /\ obj'[t].key = obj[t].key
           /\ \/ db' = db /\ obj' = obj
              \/ db'[obj[t].key] = Stored(obj'[t]) /\ Stored(obj'[t]).pin
  <1> DEFINE k == obj[t].key
             o == [obj[t] EXCEPT !.ts = now]
  <1>1. k \in Keys BY ObjectFields
  <1>2. o \in Object BY StampedIsObject, ApplyAssumption, SMTT(30) DEF TypeOK
  <1>3. o.key = k /\ o.pin BY DEF Object
  <1>4. Stored(o).pin BY <1>2, <1>3, StoredFields
  <1>5. CASE k \in copy
    BY <1>3, <1>5 DEF AddPinned
  <1>6. CASE k \notin copy
    <2>1. obj' = [obj EXCEPT ![t] = o] /\ db' = [db EXCEPT ![k] = Stored(o)]
      BY <1>3, <1>6 DEF AddPinned, Put
    <2> HIDE DEF o
    <2> QED BY <1>1, <1>3, <1>4, <2>1 DEF TypeOK
  <1> QED BY <1>5, <1>6

\* A step of the only thread keeps what was told current.
LEMMA ToldApplyStep ==
    ASSUME OneThread, ~DriverMayFail, ToldInv, TypeOK', NEW t \in Threads, Apply(t)
    PROVE  AsWritten' /\ ToldSoon'
  <1> USE DEF ToldInv
  <1> DEFINE k == obj[t].key
  <1>1. \A u \in Threads : u = t BY DEF OneThread
  <1>2. pc[t] # "idle"
    BY DEF Apply, Reject, AcceptNewer, AcceptCorrected, Write, WriteFails,
                 Pin, Tell, Repin, Unpin
  <1>3. obj[t] \in Object BY <1>2 DEF TypeOK
  <1>4. k \in Keys BY <1>3, ObjectFields
  \* Steps outside the two places, which write nothing or a pinned record.
  <1>5. ASSUME told' = told, pc[t] \notin {"pin", "tell"}, pc'[t] \notin {"pin", "tell"},
               pc'[t] = "repin" => obj'[t].pin,
               \A j \in Keys : db'[j] = db[j] \/ db'[j].pin
        PROVE  AsWritten' /\ ToldSoon'
    BY <1>1, <1>5 DEF AsWritten, ToldSoon
  <1>6. CASE Reject(t) \/ AcceptNewer(t) \/ AcceptCorrected(t) \/ Unpin(t)
    BY <1>5, <1>6
       DEF Reject, AcceptNewer, AcceptCorrected, Unpin, Finish, GoOn, Leave, TypeOK
  <1>7. CASE Write(t)
    <2>1. /\ db' = [db EXCEPT ![k] = Stored(obj[t])]
          /\ pc[t] = "write" /\ pc'[t] = "pin" /\ obj' = obj /\ told' = told
      BY <1>7 DEF Write, Put, TypeOK
    <2>2. db'[k] = Stored(obj[t]) /\ \A j \in Keys : j # k => db'[j] = db[j]
      BY <1>4, <2>1 DEF TypeOK
    <2>3. AsWritten' BY <1>1, <2>1, <2>2 DEF AsWritten
    <2>4. ToldSoon' BY <1>1, <2>1, <2>2 DEF ToldSoon
    <2> QED BY <2>3, <2>4
  <1>8. CASE WriteFails(t)
    BY <1>8 DEF WriteFails
  <1>9. CASE Pin(t)
    <2>1. pc[t] = "pin" /\ pc'[t] = "tell" /\ told' = told BY <1>9 DEF Pin, TypeOK
    <2>2. CASE db' = db /\ obj' = obj
      <3>1. AsWritten' BY <1>1, <2>1, <2>2 DEF AsWritten
      <3>2. ToldSoon' BY <1>1, <2>1, <2>2 DEF ToldSoon
      <3> QED BY <3>1, <3>2
    <2>3. CASE ~(db' = db /\ obj' = obj)
      <3>1. obj[t].pin /\ AddPinned(t) BY <1>9, <2>3 DEF Pin, DelPinned
      <3>2. /\ \A j \in Keys : j # k => db'[j] = db[j]
            /\ obj'[t].key = k /\ db'[k] = Stored(obj'[t]) /\ db'[k].pin
        BY <1>3, <2>3, <3>1, AddPinnedWrites
      <3> HIDE DEF k
      <3>3. AsWritten' BY <1>1, <2>1, <3>2 DEF AsWritten
      <3>4. ToldSoon' BY <1>1, <2>1, <3>2 DEF ToldSoon, k
      <3> QED BY <3>3, <3>4
    <2> QED BY <2>2, <2>3
  <1>10. CASE Tell(t)
    <2>1. /\ db' = db /\ pc[t] = "tell" /\ pc'[t] \notin {"pin", "tell"}
          /\ pc'[t] = "repin" => obj'[t].pin
      BY <1>10 DEF Tell, Finish, GoOn, Leave, TypeOK
    <2>2. AsWritten' BY <1>1, <2>1 DEF AsWritten
    <2>3. Stored(obj[t]) \in Record /\ Stored(obj[t]).del = obj[t].del
      BY <1>3, StoredIsRecord DEF Stored
    <2>4. ASSUME NEW j \in Keys, db[j] # NoRec, ~db[j].del, ~db[j].pin
          PROVE  told'[j] # NoRec /\ SameHash(told'[j], db[j])
      <3>1. CASE j # k
        <4>1. told'[j] = told[j] BY <1>10, <3>1 DEF Tell, TypeOK
        <4> QED BY <1>1, <2>4, <3>1, <4>1 DEF ToldSoon
      <3>2. CASE j = k
        <4>1. db[k] = Stored(obj[t]) BY <2>1, <2>4, <3>2 DEF AsWritten
        <4>2. told'[k] = Stored(obj[t])
          BY <1>4, <1>10, <2>3, <2>4, <3>2, <4>1 DEF Tell, TypeOK
        <4> QED BY <2>3, <3>2, <4>1, <4>2, NoRecAssumption DEF SameHash
      <3> QED BY <3>1, <3>2
    <2> QED BY <2>1, <2>2, <2>4 DEF ToldSoon
  <1>11. CASE Repin(t)
    <2>1. pc[t] = "repin" /\ pc'[t] = "idle" /\ told' = told /\ AddPinned(t)
      BY <1>11 DEF Repin, TypeOK
    <2>2. \A j \in Keys : db'[j] = db[j] \/ db'[j].pin
      <3>1. obj[t].pin BY <2>1 DEF AsWritten
      <3> QED BY <1>3, <2>1, <3>1, AddPinnedWrites
    <2> QED BY <1>5, <2>1, <2>2
  <1> QED BY <1>6, <1>7, <1>8, <1>9, <1>10, <1>11 DEF Apply

\* Every other step keeps it too: who listens to a restarted node begins with
\* what is in the store.
LEMMA ToldStep ==
    ASSUME OneThread, ~DriverMayFail
    PROVE  ToldInv /\ [Next]_vars => ToldInv'
  <1> SUFFICES ASSUME ToldInv, [Next]_vars
               PROVE  ToldInv'
    OBVIOUS
  <1> USE DEF ToldInv
  <1>1. TypeOK' BY TypeStep
  \* Steps that at most remove records.
  <1>2. ASSUME \A k \in Keys : db'[k] \in {db[k], NoRec}, UNCHANGED <<told, pc, obj>>
        PROVE  AsWritten' /\ ToldSoon'
    <2>1. \A t \in Threads : pc[t] # "idle" => obj[t].key \in Keys
      BY ObjectFields DEF TypeOK
    <2>2. AsWritten' BY <1>2, <2>1 DEF AsWritten
    <2>3. ToldSoon' BY <1>2, SMTT(30) DEF ToldSoon
    <2> QED BY <2>2, <2>3
  <1>3. CASE UNCHANGED vars \/ Tick \/ DropGroup \/ CleanRead
    BY <1>1, <1>2, <1>3 DEF vars, Tick, DropGroup, CleanRead
  <1>4. ASSUME NEW d \in doomed, CleanDelete(d[1], d[2])
        PROVE  ToldInv'
    <2>1. \A k \in Keys : db'[k] \in {db[k], NoRec} BY <1>4 DEF CleanDelete, TypeOK
    <2> QED BY <1>1, <1>2, <1>4, <2>1 DEF CleanDelete
  <1>5. CASE Restart
    <2>1. told' = db' /\ \A t \in Threads : pc'[t] = "idle" BY <1>5 DEF Restart
    <2> QED BY <1>1, <2>1 DEF AsWritten, ToldSoon, SameHash
  <1>6. ASSUME NEW t \in Threads, Request(t)
        PROVE  ToldInv'
    <2>1. UNCHANGED <<db, told>> /\ pc[t] = "idle" /\ pc' = [pc EXCEPT ![t] = "check"]
      BY <1>6 DEF Request, Set, Del, Receive, ObjectPin, CheckPinned, BeginPlain, Begin
    <2>2. \A u \in Threads : u = t /\ pc'[u] = "check" BY <2>1 DEF OneThread, TypeOK
    <2> QED BY <1>1, <2>1, <2>2 DEF AsWritten, ToldSoon
  <1>7. ASSUME NEW t \in Threads, Apply(t)
        PROVE  ToldInv'
    BY <1>1, <1>7, ToldApplyStep
  <1>8. ASSUME NEW k \in Keys, SkipPinned(k)
        PROVE  ToldInv'
    <2>1. UNCHANGED <<db, told, pc, obj>> BY <1>8 DEF SkipPinned
    <2>2. AsWritten' BY <2>1 DEF AsWritten
    <2>3. ToldSoon' BY <2>1 DEF ToldSoon
    <2> QED BY <1>1, <2>2, <2>3
  <1> QED BY <1>3, <1>4, <1>5, <1>6, <1>7, <1>8 DEF Next, Clean

\* With one thread in the apply path and a driver that does not fail: when the
\* path is left, the last thing peers and notifiers were told about a live
\* record that is not pinned is that record, although the store is written
\* before they are told and a restart may come between.
THEOREM ListenersAreCurrent ==
    ASSUME OneThread, ~DriverMayFail
    PROVE  Spec => []ListenersCurrent
  <1>1. Init => ToldInv
    <2>1. Init => TypeOK BY ApplyAssumption, SMTT(30) DEF Init, TypeOK, PCs
    <2> QED BY <2>1 DEF Init, ToldInv, AsWritten, ToldSoon
  <1>2. ToldInv /\ [Next]_vars => ToldInv' BY ToldStep
  <1>3. ToldInv => ListenersCurrent BY DEF ToldInv, ToldSoon, ListenersCurrent
  <1> QED BY <1>1, <1>2, <1>3, PTL DEF Spec

-----------------------------------------------------------------------------
(* The cleaner, with one thread, pins and a driver that may fail.          *)

\* What a thread is about to write is not the record that is there.
WriteDiffers ==
    \A t \in Threads : pc[t] = "write" =>
       ~IsHash(db[obj[t].key], obj[t])

\* The page of the cleaner: its records have expired, nobody is about to write
\* one of them again, and what has the hash of one is not pinned.
PageStale ==
    \A k \in Keys, r \in Record : <<k, r>> \in doomed =>
       /\ TooOld(r, now)
       /\ IsHash(db[k], r) => ~db[k].pin
       /\ \A t \in Threads : pc[t] = "write" /\ obj[t].key = k => ~SameHash(r, obj[t])

CleanInv == TypeOK /\ WriteDiffers /\ PageStale

\* A step of the only thread keeps the page stale: what was admitted while the
\* page was there has not expired, and what is stamped anew has not either.
LEMMA CleanApplyStep ==
    ASSUME OneThread, CleanInv, TypeOK', NEW t \in Threads, Apply(t)
    PROVE  WriteDiffers' /\ PageStale'
  <1> USE DEF CleanInv
  <1> DEFINE k == obj[t].key
  <1>1. \A u \in Threads : u = t BY DEF OneThread
  <1>2. pc[t] # "idle" /\ doomed' = doomed /\ now' = now
    BY DEF Apply, Reject, AcceptNewer, AcceptCorrected, Write, WriteFails,
                 Pin, Tell, Repin, Unpin
  <1>3. obj[t] \in Object BY <1>2 DEF TypeOK
  <1>4. k \in Keys /\ obj[t].ts \in Nat /\ now \in Nat
    BY <1>3, ObjectFields, ApplyAssumption, SMTT(30) DEF TypeOK
  \* Steps that write nothing and do not lead to a write.
  <1>5. ASSUME db' = db, pc'[t] # "write"
        PROVE  WriteDiffers' /\ PageStale'
    BY <1>1, <1>2, <1>5 DEF WriteDiffers, PageStale
  <1>6. CASE Reject(t) \/ WriteFails(t) \/ Tell(t) \/ Unpin(t)
    BY <1>5, <1>6 DEF Reject, WriteFails, Tell, Unpin, Finish, GoOn, Leave, TypeOK
  \* The object that is written next was admitted against the present record.
  <1>7. ASSUME db' = db, obj'[t].key = k, obj'[t].ts \in Nat, obj[t].ts <= obj'[t].ts,
               ~TooOld(obj[t], now), ~IsHash(db[k], obj'[t])
        PROVE  WriteDiffers' /\ PageStale'
    <2>1. WriteDiffers' BY <1>1, <1>7 DEF WriteDiffers
    <2>2. \A r \in Record : TooOld(r, now) => ~SameHash(r, obj'[t])
      BY <1>4, <1>7, TtlAssumption, SMTT(30) DEF TooOld, SameHash, Record
    <2> QED BY <1>1, <1>2, <1>7, <2>1, <2>2 DEF PageStale
  <1>8. CASE AcceptNewer(t)
    <2>1. db' = db /\ obj' = obj /\ Admitted(db[k], obj[t], now)
      BY <1>8 DEF AcceptNewer
    <2>2. ~TooOld(obj[t], now) /\ ~IsHash(db[k], obj'[t]) BY <2>1 DEF Admitted
    <2>3. obj[t].ts <= obj'[t].ts BY <1>4, <2>1, SMTT(30)
    <2> QED BY <1>4, <1>7, <2>1, <2>2, <2>3
  <1>9. CASE AcceptCorrected(t)
    <2> DEFINE r == db[k]
    <2>1. r # NoRec /\ HashLess(obj[t], r) /\ Admitted(r, obj[t], now) /\ db' = db
      BY <1>9 DEF AcceptCorrected, ReceivedIsOlder
    <2>2. r \in Record /\ r.ts \in Nat BY <1>4, <2>1, RecordFields DEF TypeOK
    <2>3. obj'[t] = [obj[t] EXCEPT !.ts = r.ts + 1, !.signer = Self]
      BY <1>9 DEF AcceptCorrected, TypeOK
    <2>4. obj'[t].key = k /\ obj'[t].ts = r.ts + 1 BY <1>3, <2>3 DEF Object
    <2>5. obj[t].ts <= r.ts BY <1>4, <2>1, <2>2, SMTT(30) DEF HashLess
    <2>6. ~TooOld(obj[t], now) BY <2>1 DEF Admitted
    <2>7. db' = db BY <2>1
    <2> HIDE DEF r
    <2>8. obj'[t].ts \in Nat /\ obj[t].ts <= obj'[t].ts
      BY <1>4, <2>2, <2>4, <2>5, SMTT(30)
    <2>9. ~IsHash(r, obj'[t]) BY <2>2, <2>4, SMTT(30) DEF IsHash, SameHash
    <2> QED BY <1>7, <2>4, <2>6, <2>7, <2>8, <2>9 DEF r
  <1>10. CASE Write(t)
    <2>1. /\ db' = [db EXCEPT ![k] = Stored(obj[t])] /\ obj' = obj
          /\ pc[t] = "write" /\ pc'[t] = "pin"
      BY <1>10 DEF Write, Put, TypeOK
    <2>2. db'[k] = Stored(obj[t]) /\ \A j \in Keys : j # k => db'[j] = db[j]
      BY <1>4, <2>1 DEF TypeOK
    <2>3. \A r : SameHash(Stored(obj[t]), r) => SameHash(r, obj[t])
      BY <1>3, StoredFields DEF SameHash
    <2>4. WriteDiffers' BY <1>1, <2>1 DEF WriteDiffers
    <2>5. ASSUME NEW j \in Keys, NEW r \in Record, <<j, r>> \in doomed
          PROVE  IsHash(db'[j], r) => ~db'[j].pin
      <3>1. CASE j # k
        BY <2>2, <2>5, <3>1 DEF PageStale
      <3>2. CASE j = k
        BY <2>1, <2>2, <2>3, <2>5, <3>2, SMTT(30) DEF PageStale, IsHash
      <3> QED BY <3>1, <3>2
    <2>6. \A j \in Keys, r \in Record : <<j, r>> \in doomed => TooOld(r, now)
      BY DEF PageStale
    <2>7. \A u \in Threads : pc'[u] # "write" BY <1>1, <2>1
    <2>8. PageStale' BY <1>2, <2>5, <2>6, <2>7 DEF PageStale
    <2> QED BY <2>4, <2>8
  \* A record stamped with the present time has no expired hash.
  <1>11. ASSUME AddPinned(t), pc[t] # "write", pc'[t] # "write"
         PROVE  WriteDiffers' /\ PageStale'
    <2> DEFINE o == [obj[t] EXCEPT !.ts = now]
    <2>1. CASE o.key \in copy
      BY <1>5, <1>11, <2>1 DEF AddPinned
    <2>2. CASE o.key \notin copy
      <3>1. o \in Object /\ o.ts = now /\ o.key = k
        BY <1>3, <1>4, StampedIsObject DEF Object
      <3>2. db' = [db EXCEPT ![k] = Stored(o)] BY <1>11, <2>2, <3>1 DEF AddPinned, Put
      <3>3. Stored(o).ts = now BY <3>1, StoredFields
      <3> HIDE DEF o
      <3>4. db'[k].ts = now /\ \A j \in Keys : j # k => db'[j] = db[j]
        BY <1>4, <3>2, <3>3 DEF TypeOK
      <3>5. \A r \in Record : TooOld(r, now) => ~SameHash(db'[k], r)
        BY <1>4, <3>4, TtlAssumption, SMTT(30) DEF TooOld, SameHash, Record
      <3> HIDE DEF k
      <3> QED BY <1>1, <1>2, <1>11, <3>4, <3>5 DEF WriteDiffers, PageStale, IsHash
    <2> QED BY <2>1, <2>2
  <1>12. CASE Pin(t)
    <2>1. pc[t] = "pin" /\ pc'[t] = "tell" BY <1>12 DEF Pin, TypeOK
    <2>2. db' = db \/ AddPinned(t) BY <1>12 DEF Pin, DelPinned
    <2> QED BY <1>5, <1>11, <2>1, <2>2
  <1>13. CASE Repin(t)
    <2>1. pc[t] = "repin" /\ pc'[t] = "idle" /\ AddPinned(t) BY <1>13 DEF Repin, TypeOK
    <2> QED BY <1>11, <2>1
  <1> QED BY <1>6, <1>8, <1>9, <1>10, <1>12, <1>13 DEF Apply

\* Every other step keeps the page stale: time only makes records older, and a
\* page is read when the only thread has admitted nothing that is in it.
LEMMA CleanStep ==
    ASSUME OneThread
    PROVE  CleanInv /\ [Next]_vars => CleanInv'
  <1> SUFFICES ASSUME CleanInv, [Next]_vars
               PROVE  CleanInv'
    OBVIOUS
  <1> USE DEF CleanInv
  <1>1. TypeOK' BY TypeStep
  \* Steps that at most remove records and entries of the page.
  <1>2. ASSUME \A k \in Keys : db'[k] \in {db[k], NoRec}, UNCHANGED <<pc, obj>>,
               doomed' \subseteq doomed, now' \in {now, now + 1}
        PROVE  CleanInv'
    <2>1. \A t \in Threads : pc[t] # "idle" => obj[t].key \in Keys
      BY ObjectFields DEF TypeOK
    <2>2. WriteDiffers' BY <1>2, <2>1 DEF WriteDiffers, IsHash
    <2>3. \A r \in Record : TooOld(r, now) => TooOld(r, now')
      BY <1>2, TtlAssumption, ApplyAssumption, SMTT(30) DEF TooOld, Record, TypeOK
    <2>4. ASSUME NEW k \in Keys, NEW r \in Record, <<k, r>> \in doomed'
          PROVE  /\ TooOld(r, now')
                 /\ IsHash(db'[k], r) => ~db'[k].pin
                 /\ \A t \in Threads : pc'[t] = "write" /\ obj'[t].key = k
                                         => ~SameHash(r, obj'[t])
      <3>1. <<k, r>> \in doomed BY <1>2, <2>4
      <3>2. db'[k] \in {db[k], NoRec} BY <1>2
      <3>3. IsHash(db'[k], r) => ~db'[k].pin BY <3>1, <3>2 DEF PageStale, IsHash
      <3> QED BY <1>2, <2>3, <3>1, <3>3 DEF PageStale
    <2> QED BY <1>1, <2>2, <2>4 DEF PageStale
  <1>3. CASE UNCHANGED vars \/ Tick \/ DropGroup
    BY <1>2, <1>3 DEF vars, Tick, DropGroup
  <1>4. CASE CleanRead
    <2>1. /\ UNCHANGED <<now, db, pc, obj>>
          /\ doomed' = {<<k, db[k]>> : k \in {j \in Keys : Expired(db[j])}}
      BY <1>4 DEF CleanRead
    <2>2. WriteDiffers' BY <2>1 DEF WriteDiffers
    <2>3. ASSUME NEW k \in Keys, NEW r \in Record, <<k, r>> \in doomed'
          PROVE  r = db[k] /\ Expired(db[k])
      BY <2>1, <2>3
    <2>4. \A k \in Keys, r \in Record : <<k, r>> \in doomed' =>
             /\ TooOld(r, now) /\ ~db[k].pin
             /\ \A t \in Threads : pc[t] = "write" /\ obj[t].key = k => ~SameHash(r, obj[t])
      BY <2>3 DEF WriteDiffers, Expired, TooOld, IsHash
    <2> QED BY <1>1, <2>1, <2>2, <2>4 DEF PageStale
  <1>5. ASSUME NEW d \in doomed, CleanDelete(d[1], d[2])
        PROVE  CleanInv'
    <2>1. \A k \in Keys : db'[k] \in {db[k], NoRec} BY <1>5 DEF CleanDelete, TypeOK
    <2> QED BY <1>2, <1>5, <2>1 DEF CleanDelete
  <1>6. CASE Restart
    <2>1. doomed' = {} /\ \A t \in Threads : pc'[t] = "idle" BY <1>6 DEF Restart
    <2> QED BY <1>1, <2>1 DEF WriteDiffers, PageStale
  <1>7. ASSUME NEW t \in Threads, Request(t)
        PROVE  CleanInv'
    <2>1. UNCHANGED <<db, now, doomed>> /\ pc[t] = "idle" /\ pc' = [pc EXCEPT ![t] = "check"]
      BY <1>7 DEF Request, Set, Del, Receive, ObjectPin, CheckPinned, BeginPlain, Begin
    <2>2. \A u \in Threads : u = t /\ pc'[u] = "check" BY <2>1 DEF OneThread, TypeOK
    <2> QED BY <1>1, <2>1, <2>2 DEF WriteDiffers, PageStale
  <1>8. ASSUME NEW t \in Threads, Apply(t)
        PROVE  CleanInv'
    BY <1>1, <1>8, CleanApplyStep
  <1>9. ASSUME NEW k \in Keys, SkipPinned(k)
        PROVE  CleanInv'
    BY <1>1, <1>9 DEF SkipPinned, WriteDiffers, PageStale
  <1> QED BY <1>3, <1>4, <1>5, <1>6, <1>7, <1>8, <1>9 DEF Next, Clean

\* There is no page to begin with.
LEMMA CleanInit == Init => CleanInv
  <1>1. Init => TypeOK BY ApplyAssumption, SMTT(30) DEF Init, TypeOK, PCs
  <1> QED BY <1>1 DEF Init, CleanInv, WriteDiffers, PageStale

\* What the cleaner takes out of the store has expired.
LEMMA CleanExpires ==
    ASSUME CleanInv, Clean, NEW k \in Keys
    PROVE  db'[k] = db[k] \/ (Expired(db[k]) /\ db'[k] = NoRec)
  <1> SUFFICES ASSUME db'[k] # db[k] PROVE Expired(db[k]) /\ db'[k] = NoRec
    OBVIOUS
  <1>1. PICK d \in doomed : CleanDelete(d[1], d[2]) BY DEF Clean, CleanRead
  <1>2. d[1] \in Keys /\ d[2] \in Record /\ d = <<d[1], d[2]>>
    BY SMTT(30) DEF CleanInv, TypeOK
  <1>3. k = d[1] /\ db[k] # NoRec /\ SameHash(db[k], d[2]) /\ db'[k] = NoRec
    BY <1>1, <1>2 DEF CleanDelete, CleanInv, TypeOK
  <1>4. TooOld(d[2], now) /\ ~db[k].pin
    BY <1>2, <1>3 DEF CleanInv, PageStale, IsHash
  <1> QED BY <1>3, <1>4 DEF Expired, TooOld, SameHash

\* With one thread in the apply path, pins and a driver that may fail: what the
\* cleaner deletes has expired and is not pinned at that moment, although the
\* page was read earlier and its deletion goes by hash, in which the pin flag
\* has no part.
THEOREM CleanerTakesExpired ==
    ASSUME OneThread
    PROVE  Spec => OnlyExpiredCleaned
  <1>1. Init => CleanInv BY CleanInit
  <1>2. CleanInv /\ [Next]_vars => CleanInv' BY CleanStep
  <1>3. CleanInv /\ [Next]_vars =>
          [Clean => \A k \in Keys : db'[k] # db[k] => Expired(db[k])]_vars
    BY CleanExpires
  <1> QED BY <1>1, <1>2, <1>3, PTL DEF Spec, OnlyExpiredCleaned

-----------------------------------------------------------------------------
(* The promise of GdbStore, with one thread and no pins.                   *)

\* A step that leaves the record of k and its history alone keeps the promise.
LEMMA CellKept ==
    ASSUME NEW k, db'[k] = db[k], high'[k] = high[k]
    PROVE  Store(k)!SNext \/ UNCHANGED Store(k)!cell
  BY DEF Store!cell

\* What the driver writes is newer than all the key ever had, and who signed it
\* had the right to when s_store_obj_apply decided and has it still.
LEMMA WriteTakes ==
    ASSUME IInv, NEW t \in Threads, Write(t), NEW k \in Keys
    PROVE  Store(k)!SNext \/ UNCHANGED Store(k)!cell
  <1> DEFINE o == obj[t]
             r == Stored(o)
  <1>1. o \in Object /\ pc[t] = "write" BY DEF Write, IInv, TypeOK
  <1>2. o.key \in Keys BY <1>1, ObjectFields
  <1>3. r \in Record BY <1>1, StoredIsRecord
  <1>4. /\ db' = [db EXCEPT ![o.key] = r]
        /\ high' = [high EXCEPT ![o.key] =
             IF high[o.key] # NoRec /\ HashLess(r, high[o.key]) THEN high[o.key] ELSE r]
    BY DEF Write, Put
  <1>5. db \in [Keys -> Record \cup {NoRec}] /\ high \in [Keys -> Record \cup {NoRec}]
    BY DEF IInv, TypeOK
  <1>6. CASE k # o.key
    BY <1>2, <1>4, <1>5, <1>6, CellKept
  <1>7. CASE k = o.key
    <2>1. high[k] = NoRec \/ HashLess(high[k], o)
      BY <1>1, <1>7 DEF IInv, WriteIsNewest
    <2>2. MayWrite(o) /\ MayRewrite(db[k], o)
      BY <1>1, <1>7 DEF IInv, WriteAuthorised
    <2>3. r.ts = o.ts /\ r.signer = o.signer /\ Crc(r) = Crc(o)
      BY <1>1, StoredFields
    <2>4. high[k] # NoRec => HashLess(high[k], r)
      BY <2>1, <2>3 DEF HashLess
    <2>5. MayWrite(r) /\ MayRewrite(db[k], r)
      BY <2>2, <2>3 DEF MayWrite, MayRewrite, OwnsAsRoot
    <2>6. high[k] # NoRec => ~HashLess(r, high[k])
      <3> SUFFICES ASSUME high[k] # NoRec PROVE ~HashLess(r, high[k])
        OBVIOUS
      <3>1. high[k] \in Record BY <1>5
      <3>2. /\ high[k].ts \in Nat /\ Crc(high[k]) \in Nat
            /\ r.ts \in Nat /\ Crc(r) \in Nat
        BY <1>3, <3>1, RecordFields
      <3> QED BY <2>4, <3>2, HashAsymmetric
    <2> HIDE DEF o, r
    <2>7. db'[k] = r /\ high'[k] = r
      BY <1>2, <1>4, <1>5, <1>7, <2>6
    <2> QED BY <1>3, <2>4, <2>5, <2>7 DEF Store!SNext, Store!Take
  <1> QED BY <1>6, <1>7

\* The other steps of a thread leave the record alone when nothing is pinned.
LEMMA ApplyKeeps ==
    ASSUME IInv, NEW t \in Threads, Apply(t), ~Write(t)
    PROVE  db' = db /\ high' = high
  <1>1. CASE Pin(t)
    <2>1. obj[t] # NoObj BY <1>1 DEF Pin, IInv, TypeOK
    <2>2. ~obj[t].pin BY <2>1 DEF IInv, NothingPinned
    <2> QED BY <1>1, <2>2 DEF Pin, DelPinned
  <1>2. CASE Repin(t)
    BY <1>2 DEF Repin, IInv, NothingPinned
  <1>3. CASE Reject(t) \/ AcceptNewer(t) \/ AcceptCorrected(t) \/ WriteFails(t)
               \/ Tell(t) \/ Unpin(t)
    BY <1>3 DEF Reject, AcceptNewer, AcceptCorrected, WriteFails, Tell, Unpin
  <1> QED BY <1>1, <1>2, <1>3 DEF Apply

\* Every step of the node keeps the promise for every key.
LEMMA StoreStep ==
    ASSUME IInv, CleanInv, Next, NEW k \in Keys
    PROVE  Store(k)!SNext \/ UNCHANGED Store(k)!cell
  <1>1. CASE Tick
    BY <1>1, CellKept DEF Tick
  <1>2. CASE DropGroup
    <2>1. db'[k] = NoRec /\ high'[k] = NoRec BY <1>2 DEF DropGroup
    <2> QED BY <2>1 DEF Store!SNext, Store!Drop
  <1>3. CASE Clean
    <2>1. high' = high BY <1>3 DEF Clean, CleanRead, CleanDelete
    <2>2. CASE db'[k] = db[k]
      BY <2>1, <2>2, CellKept
    <2>3. CASE Expired(db[k]) /\ db'[k] = NoRec
      <3>1. db[k] # NoRec /\ TooOld(db[k], now) BY <2>3 DEF Expired, TooOld
      <3> QED BY <2>1, <2>3, <3>1 DEF Store!SNext, Store!Expire
    <2> QED BY <1>3, <2>2, <2>3, CleanExpires
  <1>4. CASE Restart
    <2>1. Uncopied = {} BY DEF Uncopied, IInv, NothingPinned
    <2>2. db'[k] = db[k] /\ high'[k] = high[k]
      BY <1>4, <2>1 DEF Restart, Restamped
    <2> QED BY <2>2, CellKept
  <1>5. ASSUME NEW t \in Threads, Request(t)
        PROVE  Store(k)!SNext \/ UNCHANGED Store(k)!cell
    <2>1. db' = db /\ high' = high
      BY <1>5 DEF Request, Set, Del, Receive, ObjectPin, CheckPinned, BeginPlain, Begin
    <2> QED BY <2>1, CellKept
  <1>6. ASSUME NEW t \in Threads, Apply(t)
        PROVE  Store(k)!SNext \/ UNCHANGED Store(k)!cell
    BY <1>6, WriteTakes, ApplyKeeps, CellKept
  <1>7. ASSUME NEW j \in Keys, SkipPinned(j)
        PROVE  Store(k)!SNext \/ UNCHANGED Store(k)!cell
    BY <1>7, CellKept DEF SkipPinned
  <1> QED BY <1>1, <1>2, <1>3, <1>4, <1>5, <1>6, <1>7 DEF Next

\* With one thread in s_store_obj_apply and no pinning callers the store keeps
\* the promise of GdbStore for every key: under each key the records succeed
\* one another in the order of their hashes for as long as the group exists,
\* whatever is cleaned and however often the node restarts; each is there by
\* right, and only expired ones go.
THEOREM StoreKeepsPromise ==
    ASSUME OneThread, NoPinCallers
    PROVE  Spec => ImplementsStore
  <1>1. Init => IInv /\ CleanInv
    BY InitInv, CleanInit
  <1>2. IInv /\ CleanInv /\ [Next]_vars => (IInv /\ CleanInv)'
    BY InvStep, CleanStep
  <1>3. Init => \A k \in Keys : Store(k)!SInit
    BY DEF Init, Store!SInit
  <1>4. IInv /\ CleanInv /\ [Next]_vars =>
          [\A k \in Keys : Store(k)!SNext \/ UNCHANGED Store(k)!cell]_vars
    BY StoreStep
  <1> QED BY <1>1, <1>2, <1>3, <1>4, PTL DEF Spec, ImplementsStore

=============================================================================
