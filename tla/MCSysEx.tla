------------------------------ MODULE MCSysEx ------------------------------
(* Messages for us, nearly for us and not for us, of every length from two   *)
(* bytes to past the end of the buffer.                                     *)
EXTENDS SysEx

Heads(s) == {SubSeq(s, 1, n) : n \in 0 .. Len(s)}
Bodies ==
  {<<0, 1, 121>> \o b : b \in Heads(<<2, 3, 4, 5, 6, 7>>)}
  \cup {<<0, 1, 120, 2>>, <<0, 1, 121, 6, 1>>, <<0, 1>>, <<0, 2, 121, 2>>}
  \cup {<<126, 127>> \o b : b \in Heads(<<6, 1, 2, 3, 4>>)}
  \cup {<<126, 5, 6, 1>>, <<126, 4, 6, 1>>, <<9>>, <<>>}
MCMessage == {<<240>> \o b \o <<247>> : b \in Bodies}
=============================================================================
