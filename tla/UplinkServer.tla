---------------------------- MODULE UplinkServer ----------------------------
(***************************************************************************)
(* The server's side of an uplink: the key storage (dap_enc_ks.c) filled   *)
(* by enc_http_proc, the session table (dap_stream_session.c) filled by    *)
(* s_stream_ctl_proc, and s_http_client_headers_read, which opens a        *)
(* session for the connection that presents its id.  A handler is one      *)
(* step: _ks has no lock, so two handlers on two threads race for it; the  *)
(* requests of the one client here are made one after the other.           *)
(*                                                                         *)
(* Key ids and session ids are drawn at random; an id in `busy' is one     *)
(* that somebody still holds and is not drawn again.  Session id 0 can be  *)
(* drawn too (random_uint32_t does not exclude it): the client refuses an  *)
(* answer that names it, like any answer it cannot use, and the session    *)
(* stays unopened like any other whose answer did not arrive.              *)
(***************************************************************************)
EXTENDS Integers, FiniteSets

CONSTANT Ids        \* the ids a server draws from, without 0

ASSUME IdsAssumption == Ids \subseteq Nat \ {0}

VARIABLES
    keys,       \* _ks: ids of the keys in the storage
    sessions    \* s_sessions: "none", "new" (not opened) or "open"

uvars == <<keys, sessions>>

UInit ==
    /\ keys = {}
    /\ sessions = [s \in Ids |-> "none"]

Draw(busy) == CHOOSE n \in Ids \ busy : \A m \in Ids \ busy : n <= m

\* enc_http_proc with a valid request: the key is stored, the answer `rep'
\* is its id.
EncHttpProc(busy, rep) ==
    /\ Ids \ (busy \cup keys) # {}
    /\ rep = Draw(busy \cup keys)
    /\ keys' = keys \cup {rep}
    /\ UNCHANGED sessions

\* s_stream_ctl_proc: a session with a key of its own for the holder of the
\* storage key, which is deleted; a request under an unknown key is refused.
StreamCtlProc(keyid, busy, refused, rep) ==
    IF keyid \in keys
    THEN LET used == busy \cup {s \in Ids : sessions[s] # "none"}
         IN
         /\ Ids \ used # {}
         /\ rep = Draw(used)
         /\ sessions' = [sessions EXCEPT ![rep] = "new"]
         /\ keys' = keys \ {keyid}
    ELSE /\ rep = refused
         /\ UNCHANGED uvars

\* s_http_client_headers_read: dap_stream_session_by_id and
\* dap_stream_session_open.  TRUE when the connection gets the session.
Opens(sid) == sessions[sid] = "new"

HeadersRead(sid) ==
    /\ sessions' = [sessions EXCEPT ![sid] = IF @ = "new" THEN "open" ELSE @]
    /\ UNCHANGED keys

\* Mutant: a session nobody has opened is closed too.
SessionCloseAny(sid) ==
    /\ sessions[sid] # "none"
    /\ sessions' = [sessions EXCEPT ![sid] = "none"]
    /\ UNCHANGED keys

\* dap_stream_delete_unsafe of the server's stream: dap_stream_session_close.
SessionClose(sid) ==
    /\ sessions[sid] = "open"
    /\ sessions' = [sessions EXCEPT ![sid] = "none"]
    /\ UNCHANGED keys

=============================================================================
