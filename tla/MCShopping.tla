------------------------------ MODULE MCShopping ------------------------------
EXTENDS Shopping, TLC
==============================================================================
