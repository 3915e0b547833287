------------------------------- MODULE MCAgent --------------------------------
EXTENDS Agent, TLC

CONSTANT p1

\* Two registries may return the same peer.
OnePeer == {p1}
Lists == {<<>>, <<p1>>, <<p1, p1>>}

\* Open and closed sections under each default.
SomePolicies ==
  {[default |-> "public", memories |-> "unset", growth |-> "private"],
   [default |-> "public", memories |-> "connections_only", growth |-> "unset"],
   [default |-> "connections_only", memories |-> "public", growth |-> "connections_only"],
   [default |-> "connections_only", memories |-> "private", growth |-> "unset"],
   [default |-> "private", memories |-> "unset", growth |-> "unset"]}
=============================================================================
