----------------------- MODULE MCClientNotifications -----------------------
(* ClientNotifications for TLC. *)
EXTENDS ClientNotifications
=============================================================================
