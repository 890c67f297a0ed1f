---------------------------- MODULE MCLiveTelemetry ----------------------------
\* Two sessions with samples of one or two cells, four samples each: enough for the
\* buffers to be used a second time.
EXTENDS LiveTelemetry

Lengths == 1 .. 2

===============================================================================
