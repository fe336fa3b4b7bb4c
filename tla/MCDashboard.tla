---- MODULE MCDashboard ----
(* One tab, whose streams may overlap: two live tokens. *)
EXTENDS Dashboard, TLC

CONSTANTS b1, u1, l1, l2, o1

OneUser == [b \in Tabs |-> u1]
OneOrganization == [u \in Users |-> o1]

DashboardFairSpec == DashboardSpec /\ DashboardFairness
====
