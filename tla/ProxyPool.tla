------------------------------ MODULE ProxyPool ------------------------------
(***************************************************************************)
(* The pool of proxies shared by the worker and the proxy-check page:      *)
(* round robin over a list that a subscription replaces now and then.  A   *)
(* call of next_proxy_url holds the lock from its first line to its last,  *)
(* the HTTP request for the subscription included, so a call that need not *)
(* fetch is one step and any other is two.                                 *)
(*                                                                         *)
(* An operator marked "Fault" distorts the one after it.                   *)
(***************************************************************************)
EXTENDS Integers, Sequences

CONSTANTS
    Callers,        \* threads
    ProxyNames,
    Urls,
    Static,         \* the proxies the pool is built with
    Lists,          \* what parsing the subscription's answer may yield
    Subscribed,     \* is a subscription configured?
    RefreshSeconds,
    None

Endpoint == [name : ProxyNames, url : Urls]

Distinct(list) == \A i, j \in DOMAIN list : list[i].url = list[j].url => i = j

(* The two are assumed where the module is used, in Provider. *)
ListsAssumption ==
    /\ Static \in Seq(Endpoint)
    /\ Lists \subseteq Seq(Endpoint)
    /\ \A list \in Lists : Distinct(list)

PoolAssumption ==
    /\ Subscribed \in BOOLEAN
    /\ RefreshSeconds \in Nat
    /\ None \notin Callers
    /\ None \notin Endpoint

VARIABLES
    proxies,    \* _proxies
    cursor,     \* _cursor
    age,        \* _last_refresh: never, within refresh_seconds, or before
    holder,     \* the thread fetching the subscription under _lock
    last,       \* last_proxy_name and last_proxy_url
    round       \* the latest proxies handed out of this list, at most one
                \* for each of its entries (history)

poolVars == <<proxies, cursor, age, holder, last, round>>

PoolTypeOK ==
    /\ proxies \in Seq(Endpoint)
    /\ cursor \in Nat
    /\ age \in {"never", "fresh", "old"}
    /\ holder \in Callers \cup {None}
    /\ last \in Endpoint \cup {None}
    /\ round \in Seq(Endpoint)

-----------------------------------------------------------------------------

NeedsRefresh ==
    /\ Subscribed
    /\ \/ proxies = << >>
       \/ age # "fresh"
       \/ RefreshSeconds = 0

Picked(list, c) == list[(c % Len(list)) + 1]

LastOf(n, s) == IF Len(s) > n THEN Tail(s) ELSE s

(* The second half of next_proxy_url, after the refresh. *)
Serve(list, c) ==
    /\ proxies' = list
    /\ IF list = << >>
       THEN /\ last' = None
            /\ UNCHANGED <<cursor, round>>
       ELSE /\ last' = Picked(list, c)
            /\ cursor' = c + 1
            /\ round' = IF list = proxies
                        THEN LastOf(Len(list), Append(round, Picked(list, c)))
                        ELSE <<Picked(list, c)>>

(* next_proxy_url without a refresh. *)
NextProxy(t) ==
    /\ holder = None
    /\ ~NeedsRefresh
    /\ Serve(proxies, cursor)
    /\ UNCHANGED <<age, holder>>

(* next_proxy_url up to the request for the subscription. *)
FetchList(t) ==
    /\ holder = None
    /\ NeedsRefresh
    /\ holder' = t
    /\ UNCHANGED <<proxies, cursor, age, last, round>>

(* Fault: the cursor starts anew with every list. *)
RefreshRestarting(t) ==
    /\ holder = t
    /\ \E list \in Lists \ {<< >>} : Serve(list, 0)
    /\ age' = "fresh"
    /\ holder' = None

(* A list with an entry: it replaces the old one and is served from. *)
Refresh(t) ==
    /\ holder = t
    /\ \E list \in Lists \ {<< >>} : Serve(list, cursor % Len(list))
    /\ age' = "fresh"
    /\ holder' = None

(* Fault: acquire and release without try and finally. *)
RefreshFailsLocked(t) ==
    /\ holder = t
    /\ UNCHANGED poolVars

(* The request fails or the list is empty: an exception, whatever proxies   *)
(* the pool still has.                                                      *)
RefreshFails(t) ==
    /\ holder = t
    /\ holder' = None
    /\ UNCHANGED <<proxies, cursor, age, last, round>>

Expire ==
    /\ age = "fresh"
    /\ age' = "old"
    /\ UNCHANGED <<proxies, cursor, holder, last, round>>

PoolInit ==
    /\ proxies = Static
    /\ cursor = 0
    /\ age = "never"
    /\ holder = None
    /\ last = None
    /\ round = << >>

PoolNext ==
    \/ \E t \in Callers :
          NextProxy(t) \/ FetchList(t) \/ Refresh(t) \/ RefreshFails(t)
    \/ Expire

PoolSpec == PoolInit /\ [][PoolNext]_poolVars

-----------------------------------------------------------------------------

(* Round robin: as many calls in a row as the list has entries hand out as  *)
(* many different URLs, also across a refresh that brings the same list.    *)
(* Lists from a subscription have no duplicates; a static one may.          *)
RoundRobin ==
    age # "never" \/ Distinct(proxies) =>
        \A i, j \in DOMAIN round : round[i].url = round[j].url => i = j

(* Where the entries of a round stand in the list: the latest is the one    *)
(* before the cursor, and so on backwards.                                  *)
RoundPlaced ==
    /\ Len(round) <= Len(proxies)
    /\ \A k \in DOMAIN round :
          round[k] = Picked(proxies, cursor - 1 - (Len(round) - k))

PoolInv ==
    /\ PoolTypeOK
    /\ age # "never" => Distinct(proxies)
    /\ RoundPlaced
=============================================================================
