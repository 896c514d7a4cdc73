----------------------------- MODULE StateLease -----------------------------
(***************************************************************************)
(* What a lease promises: one holder at a time; it is taken away only when *)
(* its holder let it go stale, and only its holder gives it back: by the   *)
(* time the lease is gone, it had asked to leave as the holder.            *)
(***************************************************************************)
CONSTANTS Procs, None

VARIABLES holder, fresh, leaving

vars == <<holder, fresh, leaving>>

Init == holder = None /\ fresh = FALSE /\ leaving = {}

Grant(p) ==
    /\ holder = None
    /\ holder' = p
    /\ fresh' = TRUE
    /\ UNCHANGED leaving

Renew(p) == holder = p /\ fresh' = TRUE /\ UNCHANGED <<holder, leaving>>

AskToLeave(p) ==
    /\ holder = p
    /\ leaving' = leaving \cup {p}
    /\ UNCHANGED <<holder, fresh>>

Leave(p) ==
    /\ holder = p
    /\ p \in leaving
    /\ holder' = None
    /\ fresh' = FALSE
    /\ leaving' = leaving \ {p}

Evict(p) ==
    /\ holder = p
    /\ p \notin leaving
    /\ ~fresh
    /\ holder' = None
    /\ UNCHANGED <<fresh, leaving>>

GoStale == fresh /\ fresh' = FALSE /\ UNCHANGED <<holder, leaving>>

Next ==
    \/ GoStale
    \/ \E p \in Procs : Grant(p) \/ Renew(p) \/ AskToLeave(p) \/ Leave(p) \/ Evict(p)

Spec == Init /\ [][Next]_vars
=============================================================================
