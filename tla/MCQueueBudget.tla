--------------------------- MODULE MCQueueBudget ---------------------------
(* Instance of QueueBudget: four spans of unequal weight, one of them not  *)
(* sampled, a budget that both its bounds can refuse, batches of two.      *)
EXTENDS QueueBudget

CONSTANTS s1, s2, s3, s4

MCSpans   == {s1, s2, s3, s4}
MCSampled == {s1, s2, s3}
MCSize    == [s \in MCSpans |-> IF s = s1 THEN 3 ELSE 1]
=============================================================================
