------------------------------- MODULE MCLzo1x -------------------------------
EXTENDS Lzo1x
=============================================================================
