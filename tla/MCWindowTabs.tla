---------------------------- MODULE MCWindowTabs ----------------------------
EXTENDS WindowTabs
=============================================================================
