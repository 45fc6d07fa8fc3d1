------------------------------ MODULE GdbRecord ------------------------------
(***************************************************************************)
(* A GlobalDB record and the decision whether one may replace another:     *)
(* the driver hash of dap_global_db_driver.h and the conditions of         *)
(* s_store_obj_apply in dap_global_db.c, for the records of one group.     *)
(*                                                                         *)
(* A record is its timestamp, its signer and the flags DEL and PINNED.     *)
(* Value and CRC64 are abstracted to CrcOf: two records of a key with the  *)
(* same timestamp, signer and DEL flag are the same record, any other two  *)
(* differ in their hash.                                                   *)
(***************************************************************************)
EXTENDS Integers

CONSTANTS
    Keys,          \* text keys of the group
    Signers,       \* identities that sign records; Unsigned is one of them
    Unsigned,      \* a_obj->sign == NULL
    MemberRole,    \* role_cluster: [Signers -> RoleInvalid .. RoleDefault]
    DefaultRole,   \* l_cluster->default_role
    OwnerRoot,     \* l_cluster->owner_root_access
    Ttl,           \* l_cluster->ttl in clock ticks, 0 for no limit
    CrcOf,         \* [Signers -> [BOOLEAN -> Nat]], injective
    NoRec          \* no record under the key

RoleInvalid == -1
RoleGuest == 1
RoleUser == 2
RoleRoot == 3
RoleDefault == 4

ASSUME RoleAssumption ==
    /\ Unsigned \in Signers
    /\ MemberRole \in [Signers -> RoleInvalid..RoleDefault]
    /\ MemberRole[Unsigned] = RoleInvalid
    /\ DefaultRole \in 0..RoleRoot
    /\ OwnerRoot \in BOOLEAN

ASSUME TtlAssumption == Ttl \in Nat

ASSUME CrcAssumption ==
    /\ CrcOf \in [Signers -> [BOOLEAN -> Nat]]
    /\ \A s, u \in Signers : \A d, e \in BOOLEAN :
          CrcOf[s][d] = CrcOf[u][e] => s = u /\ d = e

\* What the driver keeps (the NEW attribute is dropped by the driver).
Record == [ts : Nat, signer : Signers, del : BOOLEAN, pin : BOOLEAN]

ASSUME NoRecAssumption == NoRec \notin Record

Crc(r) == CrcOf[r.signer][r.del]

\* memcmp of the big-endian (timestamp, crc) pairs gives a negative result.
HashLess(r, q) ==
    \/ r.ts < q.ts
    \/ r.ts = q.ts /\ Crc(r) < Crc(q)

SameHash(r, q) == r.ts = q.ts /\ Crc(r) = Crc(q)

\* Mutant: only the timestamps of the two hashes are compared.
ReceivedIsOlderByTime(read, obj) == read # NoRec /\ obj.ts < read.ts

\* dap_store_obj_driver_hash_compare(read, obj) = 1: the new object is older.
ReceivedIsOlder(read, obj) == read # NoRec /\ HashLess(obj, read)

\* dap_global_db_driver_is_hash: the group already holds the object.
IsHash(read, obj) == read # NoRec /\ SameHash(read, obj)

FromFuture(obj, now) == obj.ts > now

TooOld(obj, now) == Ttl # 0 /\ obj.ts + Ttl < now

\* The role of the signer in the cluster, else the cluster's default role.
\* A member added with RoleDefault keeps that value.
SignerRole(s) ==
    IF MemberRole[s] = RoleInvalid THEN DefaultRole ELSE MemberRole[s]

MayWrite(obj) == SignerRole(obj.signer) >= RoleUser

\* Rewriting an existing record takes ROOT, which the owner of the record has
\* in a cluster with owner_root_access; anyone owns an unsigned record.
OwnsAsRoot(read, obj) ==
    /\ read # NoRec
    /\ OwnerRoot
    /\ obj.signer # Unsigned
    /\ read.signer \in {Unsigned, obj.signer}

MayRewrite(read, obj) ==
    \/ read = NoRec
    \/ OwnsAsRoot(read, obj)
    \/ SignerRole(obj.signer) >= RoleRoot

\* Mutant: an existing record needs no more than write access.
AdmittedRewriting(read, obj, now) ==
    /\ ~IsHash(read, obj)
    /\ ~FromFuture(obj, now)
    /\ ~TooOld(obj, now)
    /\ MayWrite(obj)

\* The object passes every test that precedes the comparison of versions.
Admitted(read, obj, now) ==
    /\ ~IsHash(read, obj)
    /\ ~FromFuture(obj, now)
    /\ ~TooOld(obj, now)
    /\ MayWrite(obj)
    /\ MayRewrite(read, obj)
=============================================================================
