----------------------------- MODULE MC_Threads -----------------------------
EXTENDS ThreadPrograms

MCPrograms == AllPrograms
=============================================================================
