------------------------- MODULE MCBandwidthLedger -------------------------
EXTENDS BandwidthLedger
CONSTANTS s1
=============================================================================
