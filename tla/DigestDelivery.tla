--------------------------- MODULE DigestDelivery ---------------------------
(***************************************************************************)
(* What a checkpointed digest delivery promises (docs/adr/048), with no    *)
(* mention of workers, leases or rows.  A digest is cut into chunks; a     *)
(* chunk may reach the chat once, plus once for every retry the operator   *)
(* authorised after an ambiguous answer; the digest is declared complete   *)
(* only when every chunk reached the chat or the operator vouched for it,  *)
(* and it then stays complete.                                             *)
(***************************************************************************)
EXTENDS Naturals

CONSTANT Chunks             \* the parts one rendered digest is cut into

VARIABLES
    copies,      \* [Chunks -> Nat]: messages with that text in the chat
    authorised,  \* [Chunks -> Nat]: retries the operator authorised
    vouched,     \* the chunks the operator declared delivered
    complete     \* the digest is declared delivered

vars == <<copies, authorised, vouched, complete>>

Accounted(c) == copies[c] > 0 \/ c \in vouched

Init ==
    /\ copies = [c \in Chunks |-> 0]
    /\ authorised = [c \in Chunks |-> 0]
    /\ vouched = {}
    /\ complete = FALSE

Arrive(c) ==
    /\ copies[c] < 1 + authorised[c]
    /\ copies' = [copies EXCEPT ![c] = @ + 1]
    /\ UNCHANGED <<authorised, vouched, complete>>

Authorise(c) ==
    /\ authorised' = [authorised EXCEPT ![c] = @ + 1]
    /\ UNCHANGED <<copies, vouched, complete>>

(* Vouching for the last open chunk closes the digest in the same step.    *)
Vouch(c) ==
    /\ vouched' = vouched \cup {c}
    /\ complete' \in {complete} \cup
                     IF \A d \in Chunks \ {c} : Accounted(d) THEN {TRUE} ELSE {}
    /\ UNCHANGED <<copies, authorised>>

Complete ==
    /\ \A c \in Chunks : Accounted(c)
    /\ complete' = TRUE
    /\ UNCHANGED <<copies, authorised, vouched>>

Next == Complete \/ \E c \in Chunks : Arrive(c) \/ Authorise(c) \/ Vouch(c)

Spec == Init /\ [][Next]_vars
=============================================================================
