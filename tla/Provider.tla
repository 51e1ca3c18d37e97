------------------------------ MODULE Provider ------------------------------
(***************************************************************************)
(* The trends provider of the worker and the proxy-check page, on the      *)
(* proxy pool and the Clash controller they share.  The worker's thread    *)
(* collects one series after another: a proxy from the pool, its name,     *)
(* the request, and after an exception one switch of Clash and one retry.  *)
(* Page threads take proxies from the same pool and switch the same Clash. *)
(*                                                                         *)
(* The actions of ProxyPool and ClashController are steps of the thread    *)
(* that calls them; here each is joined with what the caller does next.    *)
(*                                                                         *)
(* An operator marked "Fault" distorts the one after it.                   *)
(***************************************************************************)
EXTENDS Integers, Sequences

CONSTANTS
    Collector,      \* the worker's thread
    Pages,          \* threads of the proxy-check page
    ProxyNames, Urls, Static, Lists, Subscribed, RefreshSeconds,
    Nodes, ProxyGroup, Global, Layouts, SkipNames, Keyworded, MaxMeddling,
    ClashUrl,       \* the proxy that is Clash's own port
    RotateOn429, RotateOnError, RetryAfterRotate,
    Profiles,       \* how many request profiles there are
    Watched,        \* the exits whose profiles are remembered
    MaxCollections, \* BOUND: series collected
    MaxVisits,      \* BOUND: clicks on the proxy-check page
    None

Callers == {Collector} \cup Pages

VARIABLES
    proxies, cursor, age, holder, last, round,
    mode, layout, now, lock, rotation, meddled, meddling, switchedBy,
    worker,         \* the local state of collect_keyword
    recorded,       \* last_proxy_name, last_proxy_url, last_profile_key
    assigned,       \* the keys with a request profile, in the order they came
    page,           \* what each page thread is doing
    collections, visits,
    sent,           \* the last request of this collection (history)
    seen            \* which exit has been seen with which profile (history)

Pool == INSTANCE ProxyPool
Clash == INSTANCE ClashController

poolVars == <<proxies, cursor, age, holder, last, round>>
clashVars == <<mode, layout, now, lock, rotation, meddled, meddling, switchedBy>>
providerVars == <<worker, recorded, assigned, page, collections, visits, sent, seen>>
vars == <<poolVars, clashVars, providerVars>>

ASSUME ProviderAssumption ==
    /\ Collector \notin Pages
    /\ {RotateOn429, RotateOnError, RetryAfterRotate} \subseteq BOOLEAN
    /\ Profiles \in Nat \ {0}
    /\ Subscribed \/ Static # << >>
    /\ MaxCollections \in Nat /\ MaxVisits \in Nat

ASSUME PoolAssumption == Pool!ListsAssumption /\ Pool!PoolAssumption

ASSUME ClashAssumption == Clash!LayoutsAssumption /\ Clash!ClashAssumption

ClashKey(node) == <<"clash", node>>
NameKey(name) == <<"name", name>>
Keys == {ClashKey(n) : n \in Nodes} \cup {NameKey(n) : n \in ProxyNames}

Worker == [pc        : {"idle", "pool", "name", "send", "rotate"},
           attempt   : {1, 2},
           node      : Nodes \cup {None},           \* profile_key, from the rotation
           proxy     : Pool!Endpoint \cup {None},   \* what the pool returned
           overtaken : BOOLEAN]  \* did a page take a proxy meanwhile? (history)

Record == [name : ProxyNames, url : Urls, key : Keys]
Request == [name : ProxyNames, url : Urls, key : Keys, overtaken : BOOLEAN]

(* Types, and the locks: held exactly by threads that are in a call. *)
TypeOK ==
    /\ Pool!PoolTypeOK
    /\ Clash!ClashTypeOK
    /\ Clash!LockHeld
    /\ worker \in Worker
    /\ recorded \in Record \cup {None}
    /\ assigned \in Seq(Keys)
    /\ page \in [Pages -> {"idle", "check", "rotate"}]
    /\ collections \in 0 .. MaxCollections
    /\ visits \in 0 .. MaxVisits
    /\ sent \in Request \cup {None}
    /\ holder = Collector => worker.pc = "pool"
    /\ lock = Collector => worker.pc = "rotate"
    /\ \A p \in Pages : /\ holder = p => page[p] = "check"
                        /\ lock = p => page[p] = "rotate"

-----------------------------------------------------------------------------
(* The worker. *)

Idle == [pc |-> "idle", attempt |-> 1, node |-> None, proxy |-> None,
         overtaken |-> FALSE]

(* _should_rotate_clash_proxy; the exception of a retry goes to the caller. *)
AfterException(rateLimit) ==
    IF worker.attempt = 1 /\ ((RotateOn429 /\ rateLimit) \/ RotateOnError)
    THEN [worker EXCEPT !.pc = "rotate"] ELSE Idle

StartCollection ==
    /\ worker.pc = "idle"
    /\ collections < MaxCollections
    /\ collections' = collections + 1
    /\ worker' = [Idle EXCEPT !.pc = "pool"]
    /\ sent' = None
    /\ UNCHANGED <<poolVars, clashVars, recorded, assigned, page, visits, seen>>

(* next_proxy_url returns to _build_trend_req. *)
TakeProxy ==
    /\ worker.pc = "pool"
    /\ Pool!NextProxy(Collector) \/ Pool!Refresh(Collector)
    /\ worker' = [worker EXCEPT !.pc = "name", !.proxy = last', !.overtaken = FALSE]
    /\ UNCHANGED <<clashVars, recorded, assigned, page, collections, visits, sent, seen>>

FetchSubscription ==
    /\ worker.pc = "pool"
    /\ Pool!FetchList(Collector)
    /\ UNCHANGED <<clashVars, providerVars>>

SubscriptionFails ==
    /\ worker.pc = "pool"
    /\ Pool!RefreshFails(Collector)
    /\ \E rateLimit \in BOOLEAN : worker' = AfterException(rateLimit)
    /\ UNCHANGED <<clashVars, recorded, assigned, page, collections, visits, sent, seen>>

KeyOf(name) == IF worker.node # None THEN ClashKey(worker.node) ELSE NameKey(name)

(* profile_for: a new key gets the next profile. *)
Assign(key) ==
    IF \E i \in DOMAIN assigned : assigned[i] = key THEN assigned ELSE Append(assigned, key)

ProfileOf(key) == ((CHOOSE i \in DOMAIN assigned : assigned[i] = key) - 1) % Profiles

(* Fault: the URL too is read from the pool. *)
BuildRequestFromPool ==
    /\ worker.pc = "name"
    /\ recorded' = [name |-> last.name, url |-> last.url, key |-> KeyOf(last.name)]
    /\ assigned' = Assign(KeyOf(last.name))
    /\ worker' = [worker EXCEPT !.pc = "send"]
    /\ UNCHANGED <<poolVars, clashVars, page, collections, visits, sent, seen>>

(* The rest of _build_trend_req: the name is read from the pool again. *)
BuildRequest ==
    /\ worker.pc = "name"
    /\ recorded' = [name |-> last.name, url |-> worker.proxy.url, key |-> KeyOf(last.name)]
    /\ assigned' = Assign(KeyOf(last.name))
    /\ worker' = [worker EXCEPT !.pc = "send"]
    /\ UNCHANGED <<poolVars, clashVars, page, collections, visits, sent, seen>>

(* Where a request comes out: at the node Clash has selected, if it goes    *)
(* through Clash.                                                           *)
Exit(url) == IF url = ClashUrl THEN now[Clash!EffectiveGroup] ELSE url

(* The requests of pytrends, from the first on. *)
Send ==
    /\ worker.pc = "send"
    /\ sent' = [name |-> worker.proxy.name, url |-> worker.proxy.url,
                key |-> KeyOf(recorded.name), overtaken |-> worker.overtaken]
    /\ seen' = seen \cup ({<<Exit(worker.proxy.url), ProfileOf(recorded.key)>>}
                          \cap (Watched \X Nat))
    /\ UNCHANGED <<poolVars, clashVars, recorded, assigned, page,
                   collections, visits>>

Answered == Send /\ worker' = Idle

RequestFails == Send /\ \E rateLimit \in BOOLEAN : worker' = AfterException(rateLimit)

StartRotation ==
    /\ worker.pc = "rotate"
    /\ rotation[Collector].pc = "idle"
    /\ Clash!Rotate(Collector)
    /\ UNCHANGED <<poolVars, providerVars>>

(* After the switch one retry, with the profile of the node. *)
AfterRotation(result) ==
    IF result \in Nodes /\ RetryAfterRotate
    THEN [worker EXCEPT !.pc = "pool", !.attempt = 2, !.node = result, !.proxy = None]
    ELSE Idle

RotateClash ==
    /\ worker.pc = "rotate"
    /\ Clash!RotationStep(Collector)
    /\ worker' = IF rotation'[Collector].pc = "idle"
                 THEN AfterRotation(rotation'[Collector].result) ELSE worker
    /\ UNCHANGED <<poolVars, recorded, assigned, page, collections, visits, sent, seen>>

CollectorStep ==
    \/ TakeProxy \/ FetchSubscription \/ SubscriptionFails
    \/ BuildRequest \/ Answered \/ RequestFails
    \/ StartRotation \/ RotateClash

-----------------------------------------------------------------------------
(* The proxy-check page. *)

Click(p, what) ==
    /\ page[p] = "idle"
    /\ visits < MaxVisits
    /\ visits' = visits + 1
    /\ page' = [page EXCEPT ![p] = what]
    /\ UNCHANGED <<poolVars, clashVars, worker, recorded, assigned,
                   collections, sent, seen>>

(* run_proxy_check takes a proxy; what it then asks of it changes nothing. *)
CheckProxy(p) ==
    /\ page[p] = "check"
    /\ Pool!NextProxy(p) \/ Pool!Refresh(p)
    /\ page' = [page EXCEPT ![p] = "idle"]
    /\ worker' = [worker EXCEPT !.overtaken = @ \/ worker.pc = "name"]
    /\ UNCHANGED <<clashVars, recorded, assigned, collections, visits, sent, seen>>

CheckFetches(p) ==
    /\ page[p] = "check"
    /\ Pool!FetchList(p)
    /\ UNCHANGED <<clashVars, providerVars>>

CheckFails(p) ==
    /\ page[p] = "check"
    /\ Pool!RefreshFails(p)
    /\ page' = [page EXCEPT ![p] = "idle"]
    /\ UNCHANGED <<clashVars, worker, recorded, assigned, collections, visits, sent, seen>>

PageStartsRotation(p) ==
    /\ page[p] = "rotate"
    /\ Clash!Rotate(p)
    /\ UNCHANGED <<poolVars, providerVars>>

PageRotates(p) ==
    /\ page[p] = "rotate"
    /\ Clash!RotationStep(p)
    /\ page' = IF rotation'[p].pc = "idle" THEN [page EXCEPT ![p] = "idle"] ELSE page
    /\ UNCHANGED <<poolVars, worker, recorded, assigned, collections, visits, sent, seen>>

PageStep(p) ==
    \/ CheckProxy(p) \/ CheckFetches(p) \/ CheckFails(p)
    \/ PageStartsRotation(p) \/ PageRotates(p)

-----------------------------------------------------------------------------

PoolExpires == Pool!Expire /\ UNCHANGED <<clashVars, providerVars>>

Meddling == Clash!UserStep /\ UNCHANGED <<poolVars, providerVars>>

Init ==
    /\ Pool!PoolInit
    /\ Clash!ClashInit
    /\ worker = Idle
    /\ recorded = None
    /\ assigned = << >>
    /\ page = [p \in Pages |-> "idle"]
    /\ collections = 0
    /\ visits = 0
    /\ sent = None
    /\ seen = {}

Next ==
    \/ StartCollection \/ CollectorStep
    \/ \E p \in Pages : Click(p, "check") \/ Click(p, "rotate") \/ PageStep(p)
    \/ PoolExpires
    \/ Meddling

Spec == Init /\ [][Next]_vars

(* Every request has a timeout, so threads go on. *)
FairSpec ==
    /\ Spec
    /\ WF_vars(CollectorStep)
    /\ \A p \in Pages : WF_vars(PageStep(p))

-----------------------------------------------------------------------------

(* The pool: in every round each URL has its turn once. *)
RoundRobin == Pool!RoundRobin

(* Clash: no thread of the program switches under another. *)
RotationFromCurrent == Clash!RotationFromCurrent

(* Clash: the next candidate, as README says. *)
NextCandidate == Clash!NextCandidate

(* What a failed attempt is logged with (last_proxy_url, last_profile_key,  *)
(* last_proxy_name) is what the last request of the collection was made     *)
(* with, although the pool has moved on; only the name is that of another   *)
(* proxy, and only if a page took one at that very moment.                  *)
RequestRecorded ==
    worker.pc = "idle" /\ sent # None =>
        /\ recorded.url = sent.url
        /\ recorded.key = sent.key
        /\ recorded.name = sent.name \/ sent.overtaken

(* README: "the immediate retry uses the new node's profile".  A retry that *)
(* goes through Clash's port comes out at the node whose profile it is sent *)
(* with, in whichever mode Clash is, unless its user or a page switches     *)
(* again after the worker has.  (The pool may give the retry another proxy; *)
(* then it has the profile of a node it never meets.)                       *)
RetryMatchesNode ==
    /\ worker.attempt = 2 /\ worker.pc = "send"
    /\ worker.proxy.url = ClashUrl
    /\ ~meddled[Collector]
    /\ switchedBy = Collector
    => recorded.key = ClashKey(Exit(worker.proxy.url))

(* Every collection returns or raises, whatever fails and whoever waits.    *)
CollectionEnds == worker.pc # "idle" ~> worker.pc = "idle"

(* README: "keeps each proxy or Clash node bound to a stable request        *)
(* profile".                                                                *)
StableProfiles ==
    \A a, b \in seen : a[1] = b[1] => a[2] = b[2]
=============================================================================
