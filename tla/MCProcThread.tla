----------------------------- MODULE MCProcThread -----------------------------
(* Two threads, two priorities and three callbacks. *)
EXTENDS ProcThread

CONSTANTS t1, t2, c1, c2, c3

MCThreads == {t1, t2}

MCItems == {c1, c2, c3}

===============================================================================
