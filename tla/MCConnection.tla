----------------------------- MODULE MCConnection -----------------------------
(* Scripts for the runs: every sequence of at most MaxPackets packets with  *)
(* bodies around the limits, the bad ones included.                         *)
EXTENDS Connection, SequencesExt

CONSTANT MaxPackets

PacketKinds ==
    {[id |-> TRUE, len |-> l, known |-> TRUE] : l \in 0..(MaxMessageLen + 1)}
        \cup {[id |-> FALSE, len |-> 1, known |-> TRUE],
              [id |-> TRUE, len |-> 1, known |-> FALSE]}
AllScripts == BoundedSeq(PacketKinds, MaxPackets)

GoodKinds == {[id |-> TRUE, len |-> l, known |-> TRUE] : l \in 1..MaxMessageLen}
GoodScripts == BoundedSeq(GoodKinds, MaxPackets)
===============================================================================
