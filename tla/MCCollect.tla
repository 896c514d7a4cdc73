------------------------------ MODULE MCCollect ------------------------------
(* The instance TLC checks.  Collect and CathoOutbox are two machines that *)
(* meet in the ingest request: what one takes for granted of the other     *)
(* (the server records a batch whole or not at all; any batch may come, at *)
(* any time, again) the other allows.  Each is explored on its own, in one *)
(* run.                                                                    *)
EXTENDS Collect, CathoOutbox, TLC
CONSTANTS r1, r2, p1, p2, c1, c2, i1, i2

MCSources == {"gupy", "ciee", "jooble", "catho"}
MCLists == [s \in MCSources |-> IF s = "ciee" THEN {p1, p2} ELSE IF s = "jooble" THEN {} ELSE {p1}]
MCQueryLists == {<<"gupy", "jooble", "gupy">>, <<"ciee">>}
MCWindows == {[recency |-> 1, backfill |-> 2]}

VARIABLE machine
MCInit == machine \in {"collect", "outbox"} /\ Init /\ OutboxInit
MCNext == /\ UNCHANGED machine
          /\ \/ machine = "collect" /\ Next /\ UNCHANGED outboxVars
             \/ machine = "outbox" /\ OutboxNext /\ UNCHANGED vars
MCSpec == MCInit /\ [][MCNext]_<<vars, outboxVars, machine>>

MCSitemaps == {<<i1, i2, i1, i2>>, <<i2>>}

Symmetry == Permutations(Runs) \cup Permutations(Collectors)
=============================================================================
