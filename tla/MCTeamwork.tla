----------------------------- MODULE MCTeamwork -----------------------------
(* Two sensors and an actor that bans a host on its second message. *)
EXTENDS Teamwork

CONSTANTS s1, s2, x1, a1
=============================================================================
