-------------------------- MODULE MCAudioCallback --------------------------
(***************************************************************************)
(* Two supported formats and one that is not, bounds of 1 and 2 frames,    *)
(* calls of 0 to 2; durations that grow and shrink.                        *)
(***************************************************************************)
EXTENDS AudioCallback

Format(channels, bytes) ==
  [sample_rate_hz |-> 48000, channel_count |-> channels,
   bytes_per_frame |-> bytes]

MCFormats == {Format(1, 1), Format(1, 2), Format(2, 1)}
MCFrameCounts == {0, 1, 2}
MCDurations == {1, 2}
MCObservations == {"stream_format", "cpu_usage"}
============================================================================
