------------------------------ MODULE GdbStore ------------------------------
(***************************************************************************)
(* What the store of a node promises of the record under one key           *)
(* (s_store_obj_apply, s_clean_old_obj_gdb_callback and dropping a group   *)
(* in dap_global_db.c), whoever sets, deletes, sends or cleans.  The       *)
(* records a key ever had are in the order of their hashes: one that was   *)
(* replaced, or that the cleaner took, does not come back, and nothing     *)
(* older does.  Who puts a record there has write access, and the right to *)
(* replace what is there.  A record goes only when it has expired, or with *)
(* its whole group, of which nothing is remembered.                        *)
(***************************************************************************)
CONSTANTS
    Record, NoRec,      \* records, and none
    HashLess(_, _),     \* the order of the driver's hashes
    TooOld(_, _),       \* the record has expired when the clock shows this
    MayWrite(_),        \* the signer has write access
    MayRewrite(_, _),   \* the signer of the second may replace the first
    MayDrop             \* whether the group may be dropped

VARIABLES
    rec,    \* the record under the key
    last,   \* the last record that was there
    clock   \* the clock of the node

cell == <<rec, last>>

SInit == rec = NoRec /\ last = NoRec

Take ==
    /\ rec' \in Record
    /\ last # NoRec => HashLess(last, rec')
    /\ MayWrite(rec')
    /\ MayRewrite(rec, rec')
    /\ last' = rec'

Expire ==
    /\ rec # NoRec
    /\ TooOld(rec, clock)
    /\ rec' = NoRec
    /\ last' = last

Drop ==
    /\ MayDrop
    /\ rec' = NoRec
    /\ last' = NoRec

SNext == Take \/ Expire \/ Drop

SSpec == SInit /\ [][SNext]_cell
=============================================================================
