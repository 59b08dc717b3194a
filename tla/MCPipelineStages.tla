---------------------------- MODULE MCPipelineStages ----------------------------
(* The chain of the default scaling strategy.  Values are their own        *)
(* history: the poll they come from and the configurations applied; the    *)
(* calculation of the load index fails for one of two polls.               *)
EXTENDS PipelineStages, Sequences

CONSTANTS poll1, poll2, plain

MCSources == {"poll"}
MCStages == {"normalizer", "loadIndex", "partition"}
MCKind == [o \in MCSources \cup MCStages |->
             CASE o = "poll"       -> "PrometheusPoll"
               [] o = "normalizer" -> "RobustScalingNormalizer"
               [] o = "loadIndex"  -> "WeightedPNormLoadIndex"
               [] o = "partition"  -> "LongestProcessingTimePartition"]
MCProvider == [s \in MCStages |-> CASE s = "normalizer" -> "poll"
                                    [] s = "loadIndex"  -> "normalizer"
                                    [] s = "partition"  -> "loadIndex"]
MCConfigs == {plain, Malformed}
MCHistories == {<<>>} \cup UNION {{<<p>> \o path : path \in [1..n -> {plain}]} :
                                  p \in {poll1, poll2}, n \in 0..3}
MCPolls == {<<poll1>>, <<poll2>>}
MCNothing == <<>>
MCCalculate == [call \in MCStages \X MCConfigs \X MCHistories |->
                  IF call[1] = "loadIndex" /\ call[3] = <<poll2, plain>> THEN Failure
                  ELSE IF Len(call[3]) \in 1..3 /\ call[2] = plain THEN Append(call[3], call[2])
                  ELSE <<>>]
=============================================================================
