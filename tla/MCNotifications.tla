--------------------------- MODULE MCNotifications ---------------------------
(* Instance of Notifications: one family and one device.                    *)
EXTENDS Notifications
============================================================================
