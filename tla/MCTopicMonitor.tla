--------------------------- MODULE MCTopicMonitor ---------------------------
(* Instance of TopicMonitor for TLC: see MCTopics.cfg. *)
EXTENDS TopicMonitor, TLC
=============================================================================
