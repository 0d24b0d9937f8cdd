--------------------------- MODULE MCResponseHeaders ---------------------------
(* Two handlers that share the encoder and a writerChan of one place. *)
EXTENDS ResponseHeaders, TLC

CONSTANTS s1, s2
TwoStreams == {s1, s2}
OneStream == {s1}
NoStream == {}
FourCalls == s1 :> 4
OneCallEach == s1 :> 1 @@ s2 :> 1

================================================================================
