---------------------------- MODULE MC_StorageAlerts ----------------------------
EXTENDS StorageAlerts
CONSTANTS s1, r1
================================================================================
