------------------------------ MODULE MCSignUp ------------------------------
(***************************************************************************)
(* Two registrations and two domains that may be closed or refused at any  *)
(* time.  Either both make a mailbox and find the solver service gone, or  *)
(* both come with an address and share the service: two requests for a    *)
(* token, one provider slot, one submit permit.  The two halves share      *)
(* no state, so that their product would show nothing more.                *)
(***************************************************************************)
EXTENDS SignUp

MCDomains == <<"private", "public">>

MCInit ==
  /\ Init
  /\ \/ closing.at = "open" /\ \A p \in Processes : process[p] = Given
     \/ closing.at = "closed" /\ \A p \in Processes : process[p] # Given

MCSpec == MCInit /\ [][Next]_vars /\ Fairness
=============================================================================
