----------------------------- MODULE MCInvites -----------------------------
(* Two requests of the owner and two phones: codes are replaced while one is  *)
(* being typed on both phones, and the member is removed half way.            *)
EXTENDS Invites, TLC

InvitesSymmetry == Permutations(Requests) \cup Permutations(Phones)
=============================================================================
