------------------------- MODULE MCReaderDelivery -------------------------
(***************************************************************************)
(* ReaderDelivery for TLC: one local writer, the receive loop, one reader.  *)
(***************************************************************************)
EXTENDS ReaderDelivery

CONSTANTS w1, rx, r1

OnePartition == [t \in Threads |-> "a"]

AnyQoS ==
  [policy : {"Block", "DropOldest", "DropNewest"}, durable : BOOLEAN, partition : {"a"}]
    \cup [policy : {"DropNewest"}, durable : {TRUE}, partition : {"b"}]
BlockQoS == [policy : {"Block"}, durable : {FALSE}, partition : {"a"}]
=============================================================================
