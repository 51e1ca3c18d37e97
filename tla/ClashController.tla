--------------------------- MODULE ClashController ---------------------------
(***************************************************************************)
(* The switch to another node through Clash's controller: the mode, the    *)
(* group, a delay test per candidate and the selection are HTTP requests,  *)
(* made one after the other under the lock of the ClashController object.  *)
(* Clash itself, which its user may operate at any time, is external.      *)
(*                                                                         *)
(* An operator marked "Fault" distorts the one after it.                   *)
(***************************************************************************)
EXTENDS Integers, Sequences, Subsequence

CONSTANTS
    Callers,        \* threads
    Nodes,
    ProxyGroup,     \* proxy_group, from the settings
    Global,         \* the group "GLOBAL"
    Layouts,        \* the member lists Clash may have for its groups
    SkipNames,      \* nodes skipped by name or prefix
    Keyworded,      \* nodes whose names contain an allowed keyword
    MaxMeddling,    \* BOUND: what the user of Clash does to it
    None

Groups == {ProxyGroup, Global}

(* The two are assumed where the module is used, in Provider. *)
LayoutsAssumption == Layouts # {} /\ Layouts \subseteq [Groups -> Seq(Nodes)]

ClashAssumption ==
    /\ MaxMeddling \in Nat
    /\ None \notin Callers
    /\ {None, "error"} \cap Nodes = {}

VARIABLES
    mode,       \* Clash's mode
    layout,     \* the members of its groups, "all"
    now,        \* the node selected in each group, "now"
    lock,       \* the thread holding _lock
    rotation,   \* rotate_proxy_with_group, per thread
    meddled,    \* has the user touched Clash since the thread's rotation began?
    meddling,   \* how often the user has
    switchedBy  \* the thread whose selection came last (history)

clashVars == <<mode, layout, now, lock, rotation, meddled, meddling, switchedBy>>

Rotation == [pc      : {"idle", "mode", "group", "test", "select"},
             group   : Groups,
             current : Nodes \cup {None},
             todo    : Seq(Nodes),         \* candidates not yet tested
             failed  : SUBSET Nodes,       \* candidates that failed (history)
             result  : Nodes \cup {None, "error"}]

ClashTypeOK ==
    /\ mode \in {"rule", "global"}
    /\ layout \in Layouts
    /\ now \in [Groups -> Nodes \cup {None}]
    /\ lock \in Callers \cup {None}
    /\ rotation \in [Callers -> Rotation]
    /\ meddled \in [Callers -> BOOLEAN]
    /\ meddling \in 0 .. MaxMeddling
    /\ switchedBy \in Callers \cup {None}

(* A rotation holds the lock throughout. *)
LockHeld == \A t \in Callers : rotation[t].pc # "idle" => lock = t

-----------------------------------------------------------------------------

EffectiveGroup == IF mode = "global" THEN Global ELSE ProxyGroup

Eligible(node) == node \notin SkipNames /\ node \in Keyworded

Candidates(group) == Kept(layout[group], {node \in Nodes : Eligible(node)})

(* The first place of a node. *)
Place(candidates, node) ==
    CHOOSE i \in DOMAIN candidates :
        candidates[i] = node /\ \A j \in 1 .. i - 1 : candidates[j] # node

(* Fault: the current node is the first to be tried. *)
FromCurrent(candidates, current) ==
    IF \E i \in DOMAIN candidates : candidates[i] = current
    THEN LET i == Place(candidates, current)
         IN  SubSeq(candidates, i, Len(candidates)) \o SubSeq(candidates, 1, i - 1)
    ELSE candidates

(* Fault: a current node that is no candidate counts as the first. *)
AfterFirst(candidates, current) ==
    LET i == IF \E j \in DOMAIN candidates : candidates[j] = current
             THEN Place(candidates, current) ELSE 1
    IN  IF candidates = << >> THEN candidates
        ELSE SubSeq(candidates, i + 1, Len(candidates)) \o SubSeq(candidates, 1, i)

(* The candidates after the current one, then those up to it. *)
Ordered(candidates, current) ==
    IF \E i \in DOMAIN candidates : candidates[i] = current
    THEN LET i == Place(candidates, current)
         IN  SubSeq(candidates, i + 1, Len(candidates)) \o SubSeq(candidates, 1, i)
    ELSE candidates

(* Fault: the lock is not taken. *)
RotateUnlocked(t) ==
    /\ rotation[t].pc = "idle"
    /\ lock' = t
    /\ rotation' = [rotation EXCEPT ![t].pc = "mode", ![t].result = None]
    /\ meddled' = [meddled EXCEPT ![t] = FALSE]
    /\ UNCHANGED <<mode, layout, now, meddling, switchedBy>>

Rotate(t) ==
    /\ lock = None
    /\ rotation[t].pc = "idle"
    /\ lock' = t
    /\ rotation' = [rotation EXCEPT ![t].pc = "mode", ![t].result = None]
    /\ meddled' = [meddled EXCEPT ![t] = FALSE]
    /\ UNCHANGED <<mode, layout, now, meddling, switchedBy>>

(* Fault: the configured group in every mode. *)
ReadModeIgnored(t) ==
    /\ rotation[t].pc = "mode"
    /\ rotation' = [rotation EXCEPT ![t].pc = "group", ![t].group = ProxyGroup]
    /\ UNCHANGED <<mode, layout, now, lock, meddled, meddling, switchedBy>>

(* effective_proxy_group_name. *)
ReadMode(t) ==
    /\ rotation[t].pc = "mode"
    /\ rotation' = [rotation EXCEPT ![t].pc = "group", ![t].group = EffectiveGroup]
    /\ UNCHANGED <<mode, layout, now, lock, meddled, meddling, switchedBy>>

Resting(result) == [pc |-> "idle", group |-> ProxyGroup, current |-> None,
                    todo |-> << >>, failed |-> {}, result |-> result]

(* The rotation ends with a result or an exception and releases the lock. *)
Finish(t, result) ==
    /\ rotation' = [rotation EXCEPT ![t] = Resting(result)]
    /\ lock' = None

(* get_proxy_group and the order of its candidates. *)
ReadGroup(t) ==
    LET group == rotation[t].group
        order == Ordered(Candidates(group), now[group])
    IN  /\ rotation[t].pc = "group"
        /\ order # << >>
        /\ rotation' = [rotation EXCEPT ![t].pc = "test",
                                        ![t].current = now[group],
                                        ![t].todo = order]
        /\ UNCHANGED <<mode, layout, now, lock, meddled, meddling, switchedBy>>

NoCandidates(t) ==
    /\ rotation[t].pc = "group"
    /\ Candidates(rotation[t].group) = << >>
    /\ Finish(t, None)
    /\ UNCHANGED <<mode, layout, now, meddled, meddling, switchedBy>>

TestPasses(t) ==
    /\ rotation[t].pc = "test"
    /\ rotation' = [rotation EXCEPT ![t].pc = "select"]
    /\ UNCHANGED <<mode, layout, now, lock, meddled, meddling, switchedBy>>

(* No delay, or an exception: on to the next candidate. *)
TestFails(t) ==
    /\ rotation[t].pc = "test"
    /\ Len(rotation[t].todo) > 1
    /\ rotation' = [rotation EXCEPT ![t].todo = Tail(@),
                                    ![t].failed = @ \cup {Head(rotation[t].todo)}]
    /\ UNCHANGED <<mode, layout, now, lock, meddled, meddling, switchedBy>>

LastTestFails(t) ==
    /\ rotation[t].pc = "test"
    /\ Len(rotation[t].todo) = 1
    /\ Finish(t, "error")
    /\ UNCHANGED <<mode, layout, now, meddled, meddling, switchedBy>>

(* select_proxy; Clash refuses a node its group no longer has. *)
SelectProxy(t) ==
    LET group == rotation[t].group
        node  == Head(rotation[t].todo)
    IN  /\ rotation[t].pc = "select"
        /\ \E i \in DOMAIN layout[group] : layout[group][i] = node
        /\ now' = [now EXCEPT ![group] = node]
        /\ switchedBy' = t
        /\ Finish(t, node)
        /\ UNCHANGED <<mode, layout, meddled, meddling>>

(* The selection is made but its answer is lost. *)
AnswerLost(t) ==
    LET group == rotation[t].group
        node  == Head(rotation[t].todo)
    IN  /\ rotation[t].pc = "select"
        /\ \E i \in DOMAIN layout[group] : layout[group][i] = node
        /\ now' = [now EXCEPT ![group] = node]
        /\ switchedBy' = t
        /\ Finish(t, "error")
        /\ UNCHANGED <<mode, layout, meddled, meddling>>

(* Fault: the lock is not released by an exception. *)
RequestFailsLocked(t) ==
    /\ rotation[t].pc \in {"mode", "group", "select"}
    /\ rotation' = [rotation EXCEPT ![t] = Resting("error")]
    /\ UNCHANGED <<mode, layout, now, lock, meddled, meddling, switchedBy>>

(* The controller is away, or refuses, or does not know the group. *)
RequestFails(t) ==
    /\ rotation[t].pc \in {"mode", "group", "select"}
    /\ Finish(t, "error")
    /\ UNCHANGED <<mode, layout, now, meddled, meddling, switchedBy>>

RotationStep(t) ==
    \/ ReadMode(t) \/ ReadGroup(t) \/ NoCandidates(t)
    \/ TestPasses(t) \/ TestFails(t) \/ LastTestFails(t)
    \/ SelectProxy(t) \/ AnswerLost(t) \/ RequestFails(t)

-----------------------------------------------------------------------------
(* The user of Clash. *)

Meddle ==
    /\ meddling < MaxMeddling
    /\ meddling' = meddling + 1
    /\ meddled' = [t \in Callers |-> TRUE]

UserSelects ==
    /\ Meddle
    /\ \E group \in Groups : \E i \in DOMAIN layout[group] :
          now' = [now EXCEPT ![group] = layout[group][i]]
    /\ UNCHANGED <<mode, layout, lock, rotation, switchedBy>>

UserChangesMode ==
    /\ Meddle
    /\ mode' \in {"rule", "global"} \ {mode}
    /\ UNCHANGED <<layout, now, lock, rotation, switchedBy>>

(* Clash loads another profile; a group keeps its node if it still has it. *)
UserReloads ==
    /\ Meddle
    /\ layout' \in Layouts \ {layout}
    /\ now' = [g \in Groups |->
                 IF \E i \in DOMAIN layout'[g] : layout'[g][i] = now[g] THEN now[g]
                 ELSE IF layout'[g] = << >> THEN None ELSE layout'[g][1]]
    /\ UNCHANGED <<mode, lock, rotation, switchedBy>>

UserStep == UserSelects \/ UserChangesMode \/ UserReloads

ClashInit ==
    /\ mode \in {"rule", "global"}
    /\ layout \in Layouts
    /\ now = [g \in Groups |-> IF layout[g] = << >> THEN None ELSE layout[g][1]]
    /\ lock = None
    /\ rotation = [t \in Callers |-> Resting(None)]
    /\ meddled = [t \in Callers |-> FALSE]
    /\ meddling = 0
    /\ switchedBy = None

ClashNext ==
    \/ \E t \in Callers : Rotate(t) \/ RotationStep(t)
    \/ UserStep

ClashSpec == ClashInit /\ [][ClashNext]_clashVars

-----------------------------------------------------------------------------

(* While candidates are tested and one is selected the node the order was   *)
(* made from is still selected, unless the user has touched Clash: no       *)
(* thread of the program switches under another.                            *)
RotationFromCurrent ==
    \A t \in Callers :
        rotation[t].pc \in {"test", "select"} /\ ~meddled[t] =>
            rotation[t].current = now[rotation[t].group]

(* The members of a group strictly after one position and before another,   *)
(* going round.                                                             *)
Between(list, p, q) ==
    {list[((p + d - 1) % Len(list)) + 1] : d \in 1 .. ((q - p - 1) % Len(list))}

(* README: "switches the currently effective proxy group to the next        *)
(* candidate", and only to eligible ones: in a group that lists no member   *)
(* twice, every member passed over between the node that was selected and   *)
(* the one that is selected next, in Clash's own order, is not eligible or  *)
(* has just failed its test.  If the node that was selected is not eligible *)
(* the same holds of every member from the first of the group.              *)
NextCandidate ==
    \A t \in Callers :
        rotation[t].pc = "select" /\ ~meddled[t] =>
            LET list == layout[rotation[t].group]
                current == now[rotation[t].group]
                next == Head(rotation[t].todo)
            IN  /\ Eligible(next)
                /\ \A p, q \in DOMAIN list :
                      /\ \A i, j \in DOMAIN list : list[i] = list[j] => i = j
                      /\ list[p] = current /\ Eligible(list[p])
                      /\ list[q] = next
                      => \A node \in Between(list, p, q) :
                            Eligible(node) => node \in rotation[t].failed
                /\ \A q \in DOMAIN list :
                      /\ \A i, j \in DOMAIN list : list[i] = list[j] => i = j
                      /\ \A p \in DOMAIN list : list[p] = current => ~Eligible(list[p])
                      /\ list[q] = next
                      => \A i \in 1 .. q - 1 :
                            Eligible(list[i]) => list[i] \in rotation[t].failed
=============================================================================
