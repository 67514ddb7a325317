--------------------------- MODULE MCNotifications --------------------------
(* One booking from creation to its end, two dispatchers and one poller.    *)
EXTENDS Notifications, TLC
=============================================================================
