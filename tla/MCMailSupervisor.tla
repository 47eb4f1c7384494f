-------------------------- MODULE MCMailSupervisor --------------------------
(* MailSupervisor on a small instance: the master lists one address, the     *)
(* other may be appended, and an epoch takes one of the two.  The refresh    *)
(* tokens of either address are rotated, those of the other not any more.    *)
EXTENDS MailSupervisor

CONSTANTS e1, e2

OnePlanned == <<e1>>

MCInit ==
  /\ SupervisorInit
  /\ \E e \in Emails : issued = [x \in Emails |-> IF x = e THEN 0 ELSE MaxToken]

MCSpec == MCInit /\ [][SupervisorNext]_supervisorVars /\ SupervisorFairness
=============================================================================
