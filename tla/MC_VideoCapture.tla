--------------------------- MODULE MC_VideoCapture ---------------------------
EXTENDS VideoCapture
=============================================================================
