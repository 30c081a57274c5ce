-------------------------- MODULE MCScopedOverride --------------------------
EXTENDS ScopedOverride
=============================================================================
