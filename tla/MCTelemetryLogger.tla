--------------------------- MODULE MCTelemetryLogger ---------------------------
\* Two live variables, one of them polled, before the two mandatory ones: memory has
\* room for three of the four, the log file for one more than its two. The third sample
\* of the first session is written into the buffer of its first; a second session
\* counts anew.
EXTENDS TelemetryLogger

CONSTANTS speed, live, time, lap

Variables == <<speed, live, time, lap>>

SamplesOf == <<3, 1>>

===============================================================================
