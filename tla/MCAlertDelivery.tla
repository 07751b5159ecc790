-------------------------- MODULE MCAlertDelivery --------------------------
(* Small instances of AlertDelivery for TLC.                               *)
EXTENDS AlertDelivery

CONSTANTS discord, email
BothChannels == <<discord, email>>
=============================================================================
