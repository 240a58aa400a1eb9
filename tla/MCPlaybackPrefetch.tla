------------------------- MODULE MCPlaybackPrefetch -------------------------
\* An instance of PlaybackPrefetch: a file of two and a half blocks and one of
\* a block and a half, in blocks of two bytes.
EXTENDS PlaybackPrefetch

MCFiles == {"long", "short"}
MCSize(f) == IF f = "long" THEN 5 ELSE 3
=============================================================================
