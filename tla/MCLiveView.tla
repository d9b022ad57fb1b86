----------------------------- MODULE MCLiveView -----------------------------
EXTENDS LiveView
=============================================================================
