---------------------------- MODULE MCDataPoints ----------------------------
(* Frames with every point of the table, one of the wrong type, one that is *)
(* only reported, a BOOL that is neither 0 nor 1, and numbers of portions   *)
(* beyond a byte and cut to nothing.                                        *)
EXTENDS DataPoints

MixedFrames ==
    {<<Point(DPID_FEED_NUM, DP_TYPE_VALUE, 2),
       Point(DPID_WATER_NUM, DP_TYPE_BOOL, 2)>>,
     <<Point(DPID_WATER_NUM, DP_TYPE_ENUM, 1),
       Point(DPID_FEED_REMAINING, DP_TYPE_VALUE, 65536),
       Point(DPID_IPC_USAGE_MODE, DP_TYPE_ENUM, 0)>>,
     <<Point(DPID_HISTORY_DATA, DP_TYPE_BOOL, 1),
       Point(DPID_FEED_VOICE_RECORD, DP_TYPE_ENUM, 1),
       Point(DPID_FEED_NUM, DP_TYPE_VALUE, 258)>>,
     <<Point(DPID_FEED_NUM, DP_TYPE_VALUE, 0)>>,
     <<Point(DPID_FEED_NUM, DP_TYPE_VALUE, 256)>>}

\* Two requests to feed.
FeedFrames == {<<Point(DPID_FEED_NUM, DP_TYPE_VALUE, 2)>>}
=============================================================================
