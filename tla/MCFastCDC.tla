----------------------------- MODULE MCFastCDC -----------------------------
EXTENDS FastCDC

\* Two kinds of bytes that cut chunks of every length from 4 to 7, the limit included:
\* four bits of fingerprint, masks of three and of two ones.
TwoBytes == [a |-> 10, b |-> 11]
=============================================================================
