---------------------------- MODULE MCLocalSolve ----------------------------
(***************************************************************************)
(* Either two captures compete for one slot, on pages that answer at the   *)
(* first look or never: of one process, which exits with a sweep while     *)
(* batches sweep as well, or of two, each of which exits with a sweep.  Or *)
(* one capture is made on a page that does whatever a page may do, with    *)
(* rounds of one second and of three.                                      *)
(***************************************************************************)
EXTENDS LocalSolve, TLC

CONSTANTS o1, o2, c1, c2, c3

MCOwnerOf == (c1 :> o1) @@ (c2 :> o1) @@ (c3 :> o2)

Prompt == [opens |-> {[Showing("widget") EXCEPT !.token = TRUE], Showing("blocked")},
           moves |-> FALSE, rounds |-> {Timeout}, inject |-> FALSE]
Lively(seconds, inject) == [opens |-> {Showing("landing"), Showing("widget"), Showing("challenge"), Showing("blocked")},
           moves |-> TRUE, rounds |-> {seconds}, inject |-> inject]

Made(some) == \A c \in Captures : (capture[c].at = "unused") = (c \in some)

MCInit ==
  /\ \/ site = Prompt
     \/ \E seconds \in {1, 3}, inject \in BOOLEAN : site = Lively(seconds, inject)
  /\ Init
  /\ LET up == {s \in Sweepers : owner[s] = "up"} IN
     IF site.moves THEN Made({c3}) /\ up = {o2}
     ELSE \/ Made({c1, c2}) /\ up = {All, o1}
          \/ Made({c1, c3}) /\ up = {o1, o2}

MCSpec == MCInit /\ [][Next]_vars /\ Fairness
=============================================================================
