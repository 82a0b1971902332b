----------------------------- MODULE MCOrderPages -----------------------------
EXTENDS OrderPages, TLC
==============================================================================
