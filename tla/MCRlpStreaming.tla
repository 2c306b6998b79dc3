--------------------------- MODULE MCRlpStreaming ---------------------------
\* Strings on both sides of every threshold (empty, one byte below and above 0x80, 55
\* and 56 bytes), numbers at the edges of one, two and three bytes, and every wire
\* string of up to three bytes over the bytes where the header's form changes.
EXTENDS RlpStreaming

Fill(n, b) == [i \in 1..n |-> b]

MCStrings == {<<>>, <<5>>, <<200>>, Fill(55, 7), Fill(56, 130)}
MCNumbers == {0, 127, 128, 256}
MCChunkSizes == {30, 56}
MCEdges == {0, 1, 127, 128, 129, 130, 184, 192, 193, 194, 248, 249}
MCWire ==
    SeqOf(MCEdges, 3)
      \cup {<<184, 56>> \o Fill(n, 9) : n \in {55, 56, 57}}
      \cup {<<248, 56, 183>> \o Fill(n, 9) : n \in {54, 55, 56}}
      \cup {<<130, 1, 0>>, <<131, 1, 0, 0>>, <<132, 0, 1, 2, 3>>, <<185, 0, 56>> \o Fill(56, 9)}
=============================================================================
