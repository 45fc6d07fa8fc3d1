--------------------------- MODULE ClientService ---------------------------
(***************************************************************************)
(* What a dap_client_t promises the code that owns it: the phase the       *)
(* client is in and the callback it made last.  An owner asks for          *)
(* STAGE_STREAM_STREAMING or for STAGE_BEGIN; in between the client says   *)
(* "connected" (stage_target_done_callback) every time the stream is up,   *)
(* "error" (stage_status_error_callback with FALSE) at most once for each  *)
(* time it starts trying, and "last" (the same callback with TRUE) when    *)
(* its attempts are used up.  A client that keeps reconnecting             *)
(* (always_reconnect) goes on trying after "last", any other has failed.   *)
(***************************************************************************)
VARIABLES
    phase,      \* "rest", "trying", "up", "failed" or "gone"
    said,       \* the callback it made last: "error", "last", "connected"
    always      \* dap_client_t.always_reconnect

svars == <<phase, said, always>>

SInit == phase = "rest" /\ said = "nothing" /\ always \in BOOLEAN

\* Asked to stream, while at rest: either the first attempt is under way or
\* it has failed at once, which is reported.
Start ==
    /\ phase = "rest"
    /\ phase' = "trying"
    /\ said' \in {"nothing", "error"}

\* Asked to go to the beginning (or restarted by a write): whatever was
\* going on is dropped.
Reset ==
    /\ phase # "gone"
    /\ phase' = "rest"
    /\ said' \in {"nothing", said}

Connect ==
    /\ phase = "trying"
    /\ phase' = "up"
    /\ said' = "connected"

\* The stream broke; the owner hears it as the first error of a new round.
Break ==
    /\ phase = "up"
    /\ phase' = "trying"
    /\ said' = "error"

\* One more attempt failed: only the first failure of a round is reported,
\* so a report never follows a report.
Retry ==
    /\ phase = "trying"
    /\ phase' = "trying"
    /\ \/ said = "nothing" /\ said' = "error"
       \/ said' = said

GiveUp ==
    /\ phase = "trying"
    /\ phase' = IF always THEN "trying" ELSE "failed"
    /\ said' = "last"

\* The attempt cannot even be made (no address, no key, no socket): the
\* client has failed and says nothing.
FailSilently ==
    /\ phase \in {"rest", "trying"}
    /\ phase' = "failed"
    /\ said' \in {"nothing", said}

Delete ==
    /\ phase # "gone"
    /\ phase' = "gone"
    /\ said' = said

SNext ==
    /\ \/ Start \/ Reset \/ Connect \/ Break \/ Retry \/ GiveUp
       \/ FailSilently \/ Delete
    /\ UNCHANGED always

SSpec == SInit /\ [][SNext]_svars

=============================================================================
