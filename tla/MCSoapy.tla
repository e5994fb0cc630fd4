------------------------------ MODULE MCSoapy -------------------------------
EXTENDS Soapy
=============================================================================
