---------------------------- MODULE MCZendFiber -----------------------------
EXTENDS ZendFiber
=============================================================================
