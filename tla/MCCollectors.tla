---------------------------- MODULE MCCollectors ----------------------------
(* The instance TLC checks of what collects: the lock under which several  *)
(* Catho collectors share a state file, the collectors the server runs     *)
(* itself, the pass that looks for repeats in what they stored, and the    *)
(* watch the server keeps over its collections and deliveries.  They share *)
(* nothing; each is explored on its own, in one run.                       *)
EXTENDS CathoLock, SourceCollectors, ShadowDedup, Watchdog
CONSTANTS c1, c2, c3, c4        \* collector processes, as model values

VARIABLE machine
MCInit == /\ machine \in {"lock", "boards", "dedup", "watch"}
          /\ Init /\ CollectorsInit /\ DedupInit /\ WatchInit
          /\ (machine # "watch" => written = 0)
          /\ (machine # "dedup" => flagged = {} /\ corpus[1].p = CHOOSE p \in Postings : TRUE)
MCNext == /\ UNCHANGED machine
          /\ \/ machine = "lock"   /\ Next /\ UNCHANGED <<sourceVars, dedupVars, watchVars>>
             \/ machine = "boards" /\ CollectorsNext /\ UNCHANGED <<vars, dedupVars, watchVars>>
             \/ machine = "dedup"  /\ DedupNext /\ UNCHANGED <<vars, sourceVars, watchVars>>
             \/ machine = "watch"  /\ WatchNext /\ UNCHANGED <<vars, sourceVars, dedupVars>>
MCSpec == /\ MCInit /\ [][MCNext]_<<vars, sourceVars, dedupVars, watchVars, machine>>
          /\ WF_sourceVars(machine = "boards" /\ Request)

-----------------------------------------------------------------------------
\* Openings of one company under three forms of its name, two of them in no known
\* place and of titles that say nothing; the first is like two that are not alike.
MCPieces == [backend |-> [ba |-> 1, en |-> 2], back |-> [ba |-> 1], python |-> [py |-> 1, on |-> 1]]
Opening(company, title, city) == [company |-> company, title |-> title, city |-> city]
MCPostings == {Opening(<<"acme">>, <<"estagio", "backend">>, "rio"),
               Opening(<<"acme", "sa">>, <<"back", "backend">>, "rio"),
               Opening(<<"acme">>, <<"backend", "python">>, "rio"),
               Opening(<<"acme">>, <<"trainee">>, "unknown"),
               Opening(<<"acme", "ltda", "sa">>, <<"estagio">>, "unknown")}

MCFreshness == [board |-> 12, pushed |-> 20]
Row(ok, filtered, scored, attempts, blocked, accounted, answered) ==
  [ok |-> ok, filtered |-> filtered, scored |-> scored, attempts |-> attempts, blocked |-> blocked,
   accounted |-> accounted, answered |-> answered]
MCRuns == {Row(TRUE, 2, 2, 3, 0, 3, 3), Row(FALSE, 2, 1, 3, 3, 3, 1)}
=============================================================================
