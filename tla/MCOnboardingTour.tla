-------------------------- MODULE MCOnboardingTour --------------------------
(* Small instances of OnboardingTour for TLC. *)
EXTENDS OnboardingTour
CONSTANTS agent1, client1
RoleOfUsers == [u \in Accounts |-> IF u = agent1 THEN "agent" ELSE "client"]
=============================================================================
