---- MODULE MCDebugStreams ----
EXTENDS DebugStreams
====
