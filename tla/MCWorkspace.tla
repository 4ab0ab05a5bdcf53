----------------------------- MODULE MCWorkspace -----------------------------
(* The owner and one other user, who may be anything but the owner; an open *)
(* room and a confidential one.                                             *)
EXTENDS Workspace, TLC

SomeGrants == {{}, {"canManageMembers"}}
SomeKinds == {[visibility |-> "organization", classification |-> "internal"],
              [visibility |-> "restricted", classification |-> "confidential"]}
Symmetric == Permutations(Request)
=============================================================================
