---------------------------- MODULE MCEngineRates ----------------------------
(* A slow first request, then latencies in and between every bucket.        *)
EXTENDS EngineRates
MCLatency == <<9, 1, 3, 2, 5>>
MCBounds  == <<1, 4>>
=============================================================================
