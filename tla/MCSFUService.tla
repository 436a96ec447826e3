---------------------------- MODULE MCSFUService ----------------------------
EXTENDS SFUService
=============================================================================
