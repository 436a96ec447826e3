-------------------------- MODULE MCSFUStatusSender --------------------------
EXTENDS SFUStatusSender
=============================================================================
