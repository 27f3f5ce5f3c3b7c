------------------------- MODULE PolicyDecisionsMC -------------------------
(* An instance of PolicyDecisions for TLC. *)
EXTENDS PolicyDecisions, TLC

\* Two roles inherit from each other, and a third from one of them.
Hierarchy == "junior" :> "senior" @@ "senior" :> "lead" @@ "lead" :> "senior"
RolesTogether == {{"junior"}, {"senior"}, {"lead"}, {"visitor", "guest"}, {"junior", "visitor"}, {"guest"}}
PolicyIdsOfRoles == "junior" :> {"base"} @@ "lead" :> {"guard"} @@ "visitor" :> {"guard", "gone"}

AllowAny == [type |-> "*", labels |-> {}, protocols |-> {}, effect |-> "allow"]
AllowSsh == [type |-> "linux", labels |-> {}, protocols |-> {"ssh"}, effect |-> "allow"]
DenyProd == [type |-> "*", labels |-> {"prod"}, protocols |-> {"*"}, effect |-> "deny"]

AtStart == "base" :> AllowSsh @@ "guard" :> AllowAny @@ "gone" :> Absent @@ "made" :> Absent
AdministratorWrites == {<<"guard", DenyProd>>, <<"guard", AllowAny>>, <<"made", AllowAny>>}

TwoTargets == {[type |-> "linux", labels |-> {"prod"}], [type |-> "windows", labels |-> {}]}
=============================================================================
