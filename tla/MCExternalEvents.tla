-------------------------- MODULE MCExternalEvents --------------------------
(* ExternalEvents.tla for TLC. *)
EXTENDS ExternalEvents, TLC

CONSTANTS h1, h2, e1, e2

TwoHosts == {h1, h2}
OneHost == {h1}
TwoIds == {e1, e2}
=============================================================================
