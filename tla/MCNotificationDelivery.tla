----------------------- MODULE MCNotificationDelivery -----------------------
(* NotificationDelivery with the limits of the code, for TLC.              *)
EXTENDS NotificationDelivery

CodeLimits == SendLimit = 3 /\ RetryLimit = 3
ASSUME CodeLimits
=============================================================================
