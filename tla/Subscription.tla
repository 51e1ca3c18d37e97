---------------------------- MODULE Subscription ----------------------------
(***************************************************************************)
(* What a subscription's answer becomes.  A document is the sequence of    *)
(* its tokens and the sequence of its Clash nodes; parsing the text of     *)
(* either into fields is left out, and so is base64: an encoded text has   *)
(* neither URLs nor nodes of its own, its decoded form is read instead.    *)
(* One token that urlsplit refuses is an exception for the whole document. *)
(***************************************************************************)
EXTENDS Integers, SequencesExt, Subsequence

CONSTANTS
    Supported,      \* URLs that become endpoints: a supported scheme or type,
                    \* a host and a port
    Malformed,      \* tokens whose host or port makes urlsplit raise
    ValueError,     \* that exception
    Unnamed         \* the name of a node without a name

(* A token is what normalize_proxy_url makes of it, a node its name and the *)
(* URL its fields make.                                                     *)
Usable(url) == url \in Supported

(* A port that is no number or too large, an IPv6 address that is none.     *)
(* Among the fields of a Clash node they raise nothing.                     *)
Raises(document) == \E i \in DOMAIN document.tokens : document.tokens[i] \in Malformed

(* The i-th URL kept, not the i-th token, is proxy-i; for tokens none of    *)
(* which raises.                                                            *)
Direct(tokens) ==
    LET kept == Kept(tokens, {url \in ToSet(tokens) : Usable(url)})
    IN  [i \in DOMAIN kept |-> [name |-> <<"proxy", i>>, url |-> kept[i]]]

UsableNode(node) == Usable(node.url)

(* A node without a name is numbered among all nodes, usable or not. *)
ClashNodes(nodes) ==
    LET all == [i \in DOMAIN nodes |->
                  [name |-> IF nodes[i].name = Unnamed
                            THEN <<"clash-proxy", i>> ELSE nodes[i].name,
                   url  |-> nodes[i].url]]
    IN  Kept(all, {node \in ToSet(all) : UsableNode(node)})

Add(endpoints, item) ==
    IF \E i \in DOMAIN endpoints : endpoints[i].url = item.url
    THEN endpoints ELSE Append(endpoints, item)

(* Of several endpoints with one URL the first. *)
Joined(found) ==
    LET joined[n \in 0 .. Len(found)] ==
            IF n = 0 THEN << >> ELSE Add(joined[n - 1], found[n])
    IN  joined[Len(found)]

(* parse_proxy_subscription. *)
Parsed(document) ==
    IF Raises(document) THEN ValueError
    ELSE Joined(Direct(document.tokens) \o ClashNodes(document.nodes))
=============================================================================
