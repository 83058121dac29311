------------------------ MODULE MCNotificationOutbox ------------------------
(* NotificationOutbox, for TLC. *)
EXTENDS NotificationOutbox, TLC

\* The first event goes to both channels, the alert to one.
MCRoutes == <<{1, 2}, {1}>>
=============================================================================
