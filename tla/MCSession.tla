---------------------------- MODULE MCSession ----------------------------
EXTENDS Session
==========================================================================
