-------------------------------- MODULE MCRx --------------------------------
EXTENDS Rx
=============================================================================
