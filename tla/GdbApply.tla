------------------------------- MODULE GdbApply -------------------------------
(***************************************************************************)
(* How a GlobalDB node changes one group of its store (dap_global_db.c):   *)
(* local sets and deletes, pin and unpin, records received from peers,     *)
(* dropping the group, the TTL cleaner, the check of the pinned copies and *)
(* the restart of the node.                                                *)
(*                                                                         *)
(* s_store_obj_apply holds no lock: it reads the existing record, decides, *)
(* and then calls the driver.  Each driver call is atomic (one MDBX        *)
(* transaction), the calls of several threads interleave.  So one apply is *)
(* the steps Check, Write, Pin and Tell of the thread that runs it.        *)
(***************************************************************************)
EXTENDS GdbRecord

CONSTANTS
    Self,          \* the identity of this node (dbi->signing_key)
    Threads,       \* threads that call the apply path
    PinFlags,      \* values of a_pin_value that callers of set pass; TRUE
                   \* for callers of pin, FALSE for callers of unpin
    DriverMayFail, \* whether dap_global_db_driver_apply may return an error
    MaxTime,       \* bound: last clock value
    MaxStamp,      \* bound: largest timestamp that time correction produces
    MaxCrashes     \* bound: how often the node is restarted

ASSUME ApplyAssumption ==
    /\ Self \in Signers
    /\ PinFlags \subseteq BOOLEAN
    /\ DriverMayFail \in BOOLEAN
    /\ MaxTime \in Nat \ {0}
    /\ MaxStamp \in Nat
    /\ MaxCrashes \in Nat

VARIABLES
    now,     \* dap_nanotime_now(), in ticks
    db,      \* the group in the driver: [Keys -> Record or NoRec]
    copy,    \* keys present in the group local.<group>.pinned
    check,   \* of each key: its copy is checked never, once or always
    told,    \* the last record of each key given to gossip and notifiers
    pc,      \* where each thread is in the apply path
    obj,     \* a_obj of each thread
    read,    \* l_read_obj of each thread
    unpin,   \* threads in dap_global_db_unpin_sync whose set has not failed
    doomed,  \* the (key, record) pairs of the page the cleaner works on
    high,    \* history: the newest record ever written under each key
    crashes  \* history: how often the node was restarted

vars == <<now, db, copy, check, told, pc, obj, read, unpin, doomed, high, crashes>>

\* An object on its way into the store still has its key and the NEW flag.
Object ==
    [key : Keys, ts : Nat, signer : Signers, del : BOOLEAN,
     pin : BOOLEAN, new : BOOLEAN]

NoObj == NoRec

ASSUME NoObjAssumption == NoObj \notin Object

PCs == {"idle", "check", "write", "pin", "tell", "repin", "unpin"}

TypeOK ==
    /\ now \in 0..MaxTime
    /\ db \in [Keys -> Record \cup {NoRec}]
    /\ copy \subseteq Keys
    /\ check \in [Keys -> {"never", "once", "always"}]
    /\ told \in [Keys -> Record \cup {NoRec}]
    /\ pc \in [Threads -> PCs]
    /\ obj \in [Threads -> Object \cup {NoObj}]
    /\ read \in [Threads -> Record \cup {NoRec}]
    /\ unpin \subseteq Threads
    /\ doomed \subseteq (Keys \X Record)
    /\ high \in [Keys -> Record \cup {NoRec}]
    /\ crashes \in 0..MaxCrashes
    /\ \A t \in Threads : pc[t] # "idle" => obj[t] # NoObj

Init ==
    /\ now = 1
    /\ db = [k \in Keys |-> NoRec]
    /\ copy = {}
    /\ check = [k \in Keys |-> "never"]
    /\ told = [k \in Keys |-> NoRec]
    /\ pc = [t \in Threads |-> "idle"]
    /\ obj = [t \in Threads |-> NoObj]
    /\ read = [t \in Threads |-> NoRec]
    /\ unpin = {}
    /\ doomed = {}
    /\ high = [k \in Keys |-> NoRec]
    /\ crashes = 0

Stored(o) == [ts |-> o.ts, signer |-> o.signer, del |-> o.del, pin |-> o.pin]

Tick ==
    /\ now < MaxTime
    /\ now' = now + 1
    /\ UNCHANGED <<db, copy, check, told, pc, obj, read, unpin, doomed, high, crashes>>

-----------------------------------------------------------------------------
(* The entry points of the apply path.                                     *)

Begin(t, o) ==
    /\ pc[t] = "idle"
    /\ pc' = [pc EXCEPT ![t] = "check"]
    /\ obj' = [obj EXCEPT ![t] = o]
    /\ read' = [read EXCEPT ![t] = NoRec]
    /\ UNCHANGED <<now, db, copy, told, doomed, high, crashes>>

\* An entry point that does nothing after s_store_obj_apply but to pin.
BeginPlain(t, o) == Begin(t, o) /\ UNCHANGED <<check, unpin>>

\* s_set_sync_with_ts: a record of this node with the current time.
Set(t, k, p) ==
    BeginPlain(t, [key |-> k, ts |-> now, signer |-> Self, del |-> FALSE,
                   pin |-> p, new |-> TRUE])

\* s_del_sync_with_dbi_ex with a key: a signed record with the DEL flag.
Del(t, k) ==
    BeginPlain(t, [key |-> k, ts |-> now, signer |-> Self, del |-> TRUE,
                   pin |-> FALSE, new |-> TRUE])

\* s_process_record: a record of a peer that passed signature and CRC check.
\* Deserialization keeps the DEL flag only.
Receive(t, k, ts, s, d) ==
    BeginPlain(t, [key |-> k, ts |-> ts, signer |-> s, del |-> d,
                   pin |-> FALSE, new |-> FALSE])

\* s_db_object_pin_sync: an existing record, a deleted one included, is set
\* again with or without the flag.  To pin is then no more than such a set:
\* the last s_add_pinned_obj_in_pinned_group finds the copy of the set.  To
\* unpin goes on to remove the copy if the set succeeds.
ObjectPin(t, k, p) ==
    /\ db[k] # NoRec
    /\ Begin(t, [key |-> k, ts |-> now, signer |-> Self, del |-> FALSE,
                 pin |-> p, new |-> TRUE])
    /\ unpin' = IF p THEN unpin ELSE unpin \cup {t}
    /\ UNCHANGED check

\* A check that is made once is not made again.
Checked(k) == [check EXCEPT ![k] = IF @ = "once" THEN "never" ELSE @]

\* Mutant: only records that are still there are set again.
CheckPinnedPresent(t, k) ==
    /\ Ttl # 0
    /\ check[k] # "never"
    /\ k \in copy
    /\ db[k] # NoRec /\ ~db[k].del
    /\ Begin(t, [key |-> k, ts |-> now, signer |-> Self, del |-> FALSE,
                 pin |-> TRUE, new |-> TRUE])
    /\ check' = Checked(k)
    /\ UNCHANGED unpin

\* s_check_pinned_db_objs_callback, for one copy: the record is set again
\* with the flag, whether it is missing or there.  For a deleted record the
\* callback looks for the copy to remove in the wrong group and does nothing.
CheckPinned(t, k) ==
    /\ Ttl # 0
    /\ check[k] # "never"
    /\ k \in copy
    /\ db[k] # NoRec => ~db[k].del
    /\ Begin(t, [key |-> k, ts |-> now, signer |-> Self, del |-> FALSE,
                 pin |-> TRUE, new |-> TRUE])
    /\ check' = Checked(k)
    /\ UNCHANGED unpin

\* The same for a copy that does not expire within s_minimal_ttl.
SkipPinned(k) ==
    /\ check[k] = "once"
    /\ check' = Checked(k)
    /\ UNCHANGED <<now, db, copy, told, pc, obj, read, unpin, doomed, high, crashes>>

\* s_del_sync_with_dbi_ex without a key: the driver drops the whole table.
DropGroup ==
    /\ db' = [k \in Keys |-> NoRec]
    /\ high' = [k \in Keys |-> NoRec]
    /\ UNCHANGED <<now, copy, check, told, pc, obj, read, unpin, doomed, crashes>>

-----------------------------------------------------------------------------
(* s_store_obj_apply.                                                      *)

Leave(t) ==
    /\ pc' = [pc EXCEPT ![t] = "idle"]
    /\ obj' = [obj EXCEPT ![t] = NoObj]
    /\ read' = [read EXCEPT ![t] = NoRec]
    /\ unpin' = unpin \ {t}

GoOn(t, where) ==
    /\ pc' = [pc EXCEPT ![t] = where]
    /\ UNCHANGED <<obj, read, unpin>>

\* Back in the caller, with or without success.
Finish(t, success) ==
    \/ obj[t].pin /\ GoOn(t, "repin")
    \/ ~obj[t].pin /\ success /\ t \in unpin /\ GoOn(t, "unpin")
    \/ ~obj[t].pin /\ ~(success /\ t \in unpin) /\ Leave(t)

\* Every early return.  A local set with the pin flag goes on to
\* s_add_pinned_obj_in_pinned_group whatever the result was.  Time correction
\* returns -20 when the corrected object cannot be signed.
Reject(t) ==
    /\ pc[t] = "check"
    /\ LET r == db[obj[t].key] IN
          \/ ~Admitted(r, obj[t], now)
          \/ ReceivedIsOlder(r, obj[t])
    /\ Finish(t, FALSE)
    /\ UNCHANGED <<now, db, copy, check, told, doomed, high, crashes>>

\* The object is newer than what the store has.
AcceptNewer(t) ==
    /\ pc[t] = "check"
    /\ LET r == db[obj[t].key] IN
          /\ Admitted(r, obj[t], now)
          /\ ~ReceivedIsOlder(r, obj[t])
          /\ read' = [read EXCEPT ![t] = r]
    /\ pc' = [pc EXCEPT ![t] = "write"]
    /\ UNCHANGED <<now, db, copy, check, told, obj, unpin, doomed, high, crashes>>

\* A NEW object that is older gets the time of the existing one plus one and
\* is signed again.
AcceptCorrected(t) ==
    /\ pc[t] = "check"
    /\ LET r == db[obj[t].key] IN
          /\ Admitted(r, obj[t], now)
          /\ ReceivedIsOlder(r, obj[t])
          /\ obj[t].new
          /\ r.ts < MaxStamp
          /\ obj' = [obj EXCEPT ![t].ts = r.ts + 1, ![t].signer = Self]
          /\ read' = [read EXCEPT ![t] = r]
    /\ pc' = [pc EXCEPT ![t] = "write"]
    /\ UNCHANGED <<now, db, copy, check, told, unpin, doomed, high, crashes>>

\* The driver replaces whatever record has the same text key.
Put(k, r) ==
    /\ db' = [db EXCEPT ![k] = r]
    /\ high' = [high EXCEPT ![k] =
                   IF high[k] # NoRec /\ HashLess(r, high[k]) THEN high[k] ELSE r]

Write(t) ==
    /\ pc[t] = "write"
    /\ Put(obj[t].key, Stored(obj[t]))
    /\ pc' = [pc EXCEPT ![t] = "pin"]
    /\ UNCHANGED <<now, copy, check, told, obj, read, unpin, doomed, crashes>>

\* The result of the driver is returned but pinning and telling go on.
WriteFails(t) ==
    /\ DriverMayFail
    /\ pc[t] = "write"
    /\ pc' = [pc EXCEPT ![t] = "pin"]
    /\ unpin' = unpin \ {t}
    /\ UNCHANGED <<now, db, copy, check, told, obj, read, doomed, high, crashes>>

\* s_add_pinned_obj_in_pinned_group: unless the pinned group has the key, put a
\* copy there, stamp the object with the current time and write it again.
\* s_set_pinned_timer starts the periodic check, if it does not run yet.
AddPinned(t) ==
    LET o == [obj[t] EXCEPT !.ts = now]
    IN  /\ check' = [k \in Keys |-> "always"]
        /\ IF o.key \in copy
           THEN UNCHANGED <<db, copy, obj, high>>
           ELSE /\ copy' = copy \cup {o.key}
                /\ obj' = [obj EXCEPT ![t] = o]
                /\ Put(o.key, Stored(o))

\* s_del_pinned_obj_from_pinned_group_by_source_group.
DelPinned(t) ==
    /\ copy' = copy \ {obj[t].key}
    /\ UNCHANGED <<db, check, obj, high>>

Pin(t) ==
    /\ pc[t] = "pin"
    /\ IF obj[t].pin THEN AddPinned(t)
       ELSE IF read[t] # NoRec /\ read[t].pin THEN DelPinned(t)
       ELSE UNCHANGED <<db, copy, check, obj, high>>
    /\ pc' = [pc EXCEPT ![t] = "tell"]
    /\ UNCHANGED <<now, told, read, unpin, doomed, crashes>>

\* Mutant: nothing is told when there was no record before.
TellKnown(t) ==
    /\ pc[t] = "tell"
    /\ told' = IF read[t] = NoRec THEN told
               ELSE [told EXCEPT ![obj[t].key] = Stored(obj[t])]
    /\ Finish(t, TRUE)
    /\ UNCHANGED <<now, db, copy, check, doomed, high, crashes>>

\* dap_global_db_cluster_broadcast for a NEW object and
\* dap_global_db_cluster_notify; not for the deletion of an absent record.
Tell(t) ==
    /\ pc[t] = "tell"
    /\ told' = IF obj[t].del /\ read[t] = NoRec THEN told
               ELSE [told EXCEPT ![obj[t].key] = Stored(obj[t])]
    /\ Finish(t, TRUE)
    /\ UNCHANGED <<now, db, copy, check, doomed, high, crashes>>

\* The second call of s_add_pinned_obj_in_pinned_group, by s_set_sync_with_ts.
Repin(t) ==
    /\ pc[t] = "repin"
    /\ AddPinned(t)
    /\ pc' = [pc EXCEPT ![t] = "idle"]
    /\ UNCHANGED <<now, told, read, unpin, doomed, crashes>>

\* The end of s_db_object_pin_sync, when it unpins.
Unpin(t) ==
    /\ pc[t] = "unpin"
    /\ copy' = copy \ {obj[t].key}
    /\ Leave(t)
    /\ UNCHANGED <<now, db, check, told, doomed, high, crashes>>

-----------------------------------------------------------------------------
(* s_clean_old_obj_gdb_callback, on a timer of its own.                    *)

Expired(r) == r # NoRec /\ ~r.pin /\ Ttl # 0 /\ r.ts + Ttl < now

\* Read a page of objects below the time limit.
CleanRead ==
    /\ doomed = {}
    /\ doomed' = {<<k, db[k]>> : k \in {j \in Keys : Expired(db[j])}}
    /\ doomed' # {}
    /\ UNCHANGED <<now, db, copy, check, told, pc, obj, read, unpin, high, crashes>>

\* Mutant: the object is deleted by its text key.
CleanDeleteByKey(k, r) ==
    /\ <<k, r>> \in doomed
    /\ doomed' = doomed \ {<<k, r>>}
    /\ db' = [db EXCEPT ![k] = NoRec]
    /\ UNCHANGED <<now, copy, check, told, pc, obj, read, unpin, high, crashes>>

\* Delete an object of the page.  The driver deletes by hash: if the record
\* has been replaced meanwhile nothing is deleted.
CleanDelete(k, r) ==
    /\ <<k, r>> \in doomed
    /\ doomed' = doomed \ {<<k, r>>}
    /\ db' = IF db[k] # NoRec /\ SameHash(db[k], r)
             THEN [db EXCEPT ![k] = NoRec] ELSE db
    /\ UNCHANGED <<now, copy, check, told, pc, obj, read, unpin, high, crashes>>

-----------------------------------------------------------------------------
(* The node stops anywhere and starts again.  The store keeps what the     *)
(* driver committed.                                                       *)

\* Mutant: the start trusts that the pinned group is complete.
UncopiedNone == {}

\* s_pinned_objs_group_init: every pinned record without a copy gets one, and
\* is stamped and written again.  The periodic check starts with the first
\* pinned record; without one the copies are checked once.
Uncopied == {k \in Keys : db[k] # NoRec /\ db[k].pin /\ k \notin copy}

Restamped(k) == IF k \in Uncopied THEN [db[k] EXCEPT !.ts = now] ELSE db[k]

CheckAtStart ==
    [k \in Keys |-> IF \E j \in Keys : db[j] # NoRec /\ db[j].pin THEN "always"
                    ELSE IF k \in copy THEN "once" ELSE "never"]

\* Who listens to the new process begins with what is in the store.
Restart ==
    /\ crashes < MaxCrashes
    /\ crashes' = crashes + 1
    /\ pc' = [t \in Threads |-> "idle"]
    /\ obj' = [t \in Threads |-> NoObj]
    /\ read' = [t \in Threads |-> NoRec]
    /\ unpin' = {}
    /\ doomed' = {}
    /\ copy' = copy \cup Uncopied
    /\ check' = CheckAtStart
    /\ db' = [k \in Keys |-> Restamped(k)]
    /\ told' = db'
    /\ high' = [k \in Keys |-> IF k \in Uncopied /\ ~HashLess(Restamped(k), high[k])
                              THEN Restamped(k) ELSE high[k]]
    /\ UNCHANGED now

-----------------------------------------------------------------------------

Clean == CleanRead \/ \E d \in doomed : CleanDelete(d[1], d[2])

Request(t) ==
    \E k \in Keys :
       \/ \E p \in PinFlags : Set(t, k, p)
       \/ Del(t, k)
       \/ \E p \in PinFlags : ObjectPin(t, k, p)
       \/ CheckPinned(t, k)
       \/ \E ts \in 1..MaxTime, s \in Signers, d \in BOOLEAN :
             Receive(t, k, ts, s, d)

Apply(t) ==
    \/ Reject(t) \/ AcceptNewer(t) \/ AcceptCorrected(t)
    \/ Write(t) \/ WriteFails(t) \/ Pin(t) \/ Tell(t) \/ Repin(t) \/ Unpin(t)

Next ==
    \/ Tick
    \/ DropGroup
    \/ Clean
    \/ Restart
    \/ \E k \in Keys : SkipPinned(k)
    \/ \E t \in Threads : Request(t) \/ Apply(t)

Spec == Init /\ [][Next]_vars

\* A proc thread works its queue off, and the timer of s_set_pinned_timer, once
\* it runs, puts the check of the copies into the queue again and again; each
\* copy comes to be near its expiry.
FairSpec ==
    /\ Spec
    /\ \A t \in Threads : WF_vars(Apply(t))
    /\ \A k \in Keys : SF_vars(check[k] = "always" /\ \E t \in Threads : CheckPinned(t, k))

-----------------------------------------------------------------------------
(* Properties.                                                             *)

\* Last writer wins, for ever: the record under a key is the newest one ever
\* written there since the group was dropped.  In particular an older record
\* never replaces a newer one, and one that a deletion superseded does not
\* come back after the cleaner has removed the tombstone, because it is by
\* then too old for s_store_obj_apply.
NewestKept ==
    \A k \in Keys : db[k] # NoRec => SameHash(db[k], high[k])

\* Only identities with write access to the cluster have records in it: what
\* s_store_obj_apply rejects with -14 is not in the store.
WritersOnly ==
    \A k \in Keys : db[k] # NoRec => MayWrite(db[k])

\* The store keeps the promise of GdbStore for every key: the records a key
\* ever had are in the order of their hashes, across cleaning and restarts, each
\* put there by a signer with the right to (rejections -14 and -16), although
\* s_store_obj_apply decides in one step and writes in another.
Store(k) ==
    INSTANCE GdbStore WITH
        rec <- db[k], last <- high[k], clock <- now, MayDrop <- TRUE

ImplementsStore ==
    /\ \A k \in Keys : Store(k)!SInit
    /\ [][\A k \in Keys : Store(k)!SNext \/ UNCHANGED Store(k)!cell]_vars

\* The cleaner removes nothing but expired records, though a set may replace
\* a record between its page read and its delete.
OnlyExpiredCleaned ==
    [][Clean => \A k \in Keys : db'[k] # db[k] => Expired(db[k])]_vars

\* When no apply is under way, the last thing peers and notifiers were told
\* about a live record is the record the store has.  A record that is pinned
\* is excepted: s_add_pinned_obj_in_pinned_group stamps it anew untold.
ListenersCurrent ==
    (\A t \in Threads : pc[t] = "idle") =>
       \A k \in Keys : db[k] # NoRec /\ ~db[k].del /\ ~db[k].pin =>
          told[k] # NoRec /\ SameHash(told[k], db[k])

\* When no apply is under way, a pinned record has its copy in the pinned
\* group, and the timer of s_check_pinned_db_objs_callback, which restores the
\* record from there, runs: after a set that was rejected, after a restart
\* anywhere and after an unpin that was rejected.
PinnedHasCopy ==
    (\A t \in Threads : pc[t] = "idle") =>
       \A k \in Keys : db[k] # NoRec /\ db[k].pin => k \in copy /\ check[k] = "always"

\* A record that is gone while its copy is there (the group was dropped, or a
\* pinned set was rejected after it made the copy) comes back: in the end the
\* store has the key again or somebody has unpinned it.  That takes the timer,
\* and the timer does not outlive a restart that finds nothing pinned: the one
\* check of s_pinned_objs_group_init may skip the copy.
PinnedRestored ==
    \A k \in Keys :
       (k \in copy /\ db[k] = NoRec /\ check[k] = "always")
          ~> (db[k] # NoRec \/ k \notin copy \/ check[k] # "always")
=============================================================================
