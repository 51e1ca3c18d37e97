----------------------------- MODULE MCProvider -----------------------------
(***************************************************************************)
(* A subscription of four answers: one without usable proxies, one with a  *)
(* duplicate, one that mixes URLs and Clash nodes, and one that cannot be  *)
(* parsed; and Clash with two profiles, in which not every group has       *)
(* candidates.                                                             *)
(***************************************************************************)
EXTENDS Provider, TLC

CONSTANTS clash, a, b, ss, malformed,       \* URLs, the last with a port that is none
          ValueError,
          hk, jp, us, au, direct,           \* nodes
          home, unnamed                     \* names of subscription nodes

MCUrls == {clash, a, b}

Parser == INSTANCE Subscription WITH
    Supported <- MCUrls, Malformed <- {malformed}, Unnamed <- unnamed

Documents ==
    {[tokens |-> <<ss>>, nodes |-> << >>],
     [tokens |-> <<clash, ss, a, clash>>, nodes |-> << >>],
     [tokens |-> <<clash, malformed, a>>, nodes |-> << >>],
     [tokens |-> <<a>>,
      nodes  |-> <<[name |-> home, url |-> a], [name |-> unnamed, url |-> ss],
                   [name |-> unnamed, url |-> b], [name |-> home, url |-> clash]>>]}

(* A document that raises is a failure of the refresh, not a list. *)
MCLists == {Parser!Parsed(document) : document \in Documents} \ {ValueError}

MCStatic == Parser!Direct(<<clash>>)

MCProxyNames == {<<"proxy", 1>>, <<"proxy", 2>>, <<"proxy", 3>>, <<"clash-proxy", 3>>, home}

MCNodes == {hk, jp, us, au, direct}

MCWatched == MCNodes \cup MCUrls

MCLayouts ==
    {[g \in {ProxyGroup, Global} |->
        IF g = Global THEN <<jp, hk>> ELSE <<hk, au, jp, direct, us>>],
     [g \in {ProxyGroup, Global} |->
        IF g = Global THEN <<direct, hk>> ELSE <<au>>]}
=============================================================================
