-------------------------- MODULE MCActionLifecycle -------------------------
(* Two owners' approvals, an owner's rejection and a member's approval. *)
EXTENDS ActionLifecycle

CONSTANTS a1, a2, r1, m1, nobody

OwnersOnly == {a1, a2, r1}
TwoApprovals == {a1, a2}
WithMember == {a1, a2, m1}
OneRejection == {r1}

=============================================================================
