----------------------------- MODULE MCExchange -----------------------------
(* Values of the constants for the runs of Exchange.                       *)
EXTENDS Exchange

CONSTANTS u, t, s, i1, c1, c2

MCSays == {<<Text(u)>>, <<Text(u), Image(i1), Text(s)>>}
MCReplies ==
  {<<Text(t)>>, <<Use(c1), Use(c2)>>, <<Text(t), Use(c2)>>, <<Thinking, Text(t), Use(c1)>>,
   <<Text(t), Use(c1), Text(u)>>}
=============================================================================
