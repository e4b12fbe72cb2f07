--------------------------- MODULE MCMediaLifecycle ---------------------------
EXTENDS MediaLifecycle
=============================================================================
