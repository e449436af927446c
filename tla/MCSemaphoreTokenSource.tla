----------------------- MODULE MCSemaphoreTokenSource -----------------------
EXTENDS SemaphoreTokenSource
=============================================================================
