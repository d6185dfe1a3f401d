--------------------------- MODULE MCFeedControl ---------------------------
(* Small instances of FeedControl for TLC. *)
EXTENDS FeedControl

\* Two portions, as the uint8_t argument of feed_food makes of 258; a detector
\* asks for one.
MCPortions == {258}
MCOnOff == {0, 1}
MCOnOnly == {1}
MCFoodDetector == {"food"}
MCWaterDetector == {"water"}
MCReports == {"REPORT_REMAIN"}
=============================================================================
