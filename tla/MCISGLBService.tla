--------------------------- MODULE MCISGLBService ----------------------------
EXTENDS ISGLBService
=============================================================================
