------------------------------ MODULE MC_WebPush ------------------------------
EXTENDS WebPush

=============================================================================
