------------------------ MODULE Subscription_proofs -------------------------
(***************************************************************************)
(* What parse_proxy_subscription returns, for every document: the lists    *)
(* ProxyPool is about.                                                     *)
(***************************************************************************)
EXTENDS Subscription, Recursion

Node(Names, Urls) == [name : Names, url : Urls]

DirectName == {"proxy"} \X Nat

EndpointName(Names) == DirectName \cup ({"clash-proxy"} \X Nat) \cup Names

Endpoint(Names) == [name : EndpointName(Names), url : Supported]

(* The usable tokens, numbered.                                              *)
LEMMA DirectTyped ==
    ASSUME NEW Names, NEW Urls, NEW tokens \in Seq(Urls)
    PROVE  /\ Direct(tokens) \in Seq(Endpoint(Names))
           /\ \A k \in DOMAIN Direct(tokens) : Direct(tokens)[k].name \in DirectName
           /\ \A url \in Supported :
                 (\E i \in DOMAIN tokens : tokens[i] = url)
                 <=> (\E k \in DOMAIN Direct(tokens) : Direct(tokens)[k].url = url)
<1> DEFINE keep == {url \in ToSet(tokens) : Usable(url)}
           kept == Kept(tokens, keep)
           n == Len(kept)
           direct == Direct(tokens)
<1>1. kept \in Seq(Urls) /\ n \in Nat /\ DOMAIN kept = 1 .. n
  BY KeptPlaced
<1>2. PICK place : IsPlacing(place, kept, tokens, keep, Len(tokens))
  BY KeptPlaced
<1>3. DOMAIN tokens = 1 .. Len(tokens)
  OBVIOUS
<1>4. \A url : url \in keep
               <=> url \in Supported /\ \E i \in DOMAIN tokens : tokens[i] = url
  BY DEF ToSet, Usable
<1>5. direct = [i \in 1 .. n |-> [name |-> <<"proxy", i>>, url |-> kept[i]]]
  BY <1>1 DEF Direct
<1> HIDE DEF keep, kept, n, direct
<1>6. /\ place \in [1 .. n -> 1 .. Len(tokens)]
      /\ \A i \in 1 .. n : kept[i] = tokens[place[i]] /\ kept[i] \in keep
      /\ \A p \in 1 .. Len(tokens) : tokens[p] \in keep => \E i \in 1 .. n : place[i] = p
  BY <1>2 DEF IsPlacing, n
<1>7. ASSUME NEW i \in 1 .. n
      PROVE  /\ <<"proxy", i>> \in DirectName
             /\ [name |-> <<"proxy", i>>, url |-> kept[i]] \in Endpoint(Names)
  BY <1>4, <1>6 DEF Endpoint, EndpointName, DirectName
<1>8. direct \in Seq(Endpoint(Names)) /\ DOMAIN direct = 1 .. n
  BY <1>1, <1>5, <1>7
<1>9. \A k \in DOMAIN direct : direct[k].name \in DirectName /\ direct[k].url = kept[k]
  BY <1>5, <1>7
<1>10. \A url \in Supported :
          (\E i \in DOMAIN tokens : tokens[i] = url)
          <=> (\E k \in DOMAIN direct : direct[k].url = url)
  <2>1. ASSUME NEW url \in Supported, NEW i \in DOMAIN tokens, tokens[i] = url
        PROVE  \E k \in DOMAIN direct : direct[k].url = url
    <3>1. i \in 1 .. Len(tokens) /\ tokens[i] \in keep
      BY <1>3, <1>4, <2>1
    <3>2. PICK k \in 1 .. n : place[k] = i
      BY <1>6, <3>1
    <3> QED
      BY <1>6, <1>8, <1>9, <2>1, <3>2
  <2>2. ASSUME NEW url \in Supported, NEW k \in DOMAIN direct, direct[k].url = url
        PROVE  \E i \in DOMAIN tokens : tokens[i] = url
    BY <1>4, <1>6, <1>8, <1>9, <2>2
  <2> QED
    BY <2>1, <2>2
<1> QED
  BY <1>8, <1>9, <1>10 DEF direct

(* The usable nodes, by their names or their numbers.                        *)
LEMMA ClashNodesTyped ==
    ASSUME NEW Names, NEW Urls, NEW nodes \in Seq(Node(Names, Urls))
    PROVE  /\ ClashNodes(nodes) \in Seq(Endpoint(Names))
           /\ \A url \in Supported :
                 (\E i \in DOMAIN nodes : nodes[i].url = url)
                 <=> (\E k \in DOMAIN ClashNodes(nodes) : ClashNodes(nodes)[k].url = url)
<1> DEFINE N == Len(nodes)
           all == [i \in DOMAIN nodes |->
                     [name |-> IF nodes[i].name = Unnamed
                               THEN <<"clash-proxy", i>> ELSE nodes[i].name,
                      url  |-> nodes[i].url]]
           keep == {node \in ToSet(all) : UsableNode(node)}
           clash == ClashNodes(nodes)
           n == Len(clash)
           X == [name : EndpointName(Names), url : Urls]
<1>1. N \in Nat /\ DOMAIN nodes = 1 .. N
  OBVIOUS
<1>2. clash = Kept(all, keep)
  BY DEF ClashNodes
<1>3. ASSUME NEW i \in 1 .. N
      PROVE  all[i] \in X /\ all[i].url = nodes[i].url
  <2>1. nodes[i].name \in Names /\ nodes[i].url \in Urls
    <3>1. nodes[i] \in Node(Names, Urls)
      BY <1>1
    <3> QED
      BY <3>1 DEF Node
  <2>2. <<"clash-proxy", i>> \in EndpointName(Names)
    BY <1>1 DEF EndpointName
  <2>3. nodes[i].name \in EndpointName(Names)
    BY <2>1 DEF EndpointName
  <2> QED
    BY <1>1, <2>1, <2>2, <2>3
<1>4. all = [i \in 1 .. N |-> all[i]]
  BY <1>1
<1> HIDE DEF all, X
<1>5. all \in Seq(X) /\ DOMAIN all = 1 .. N /\ Len(all) = N
  BY <1>1, <1>3, <1>4
<1>6. clash \in Seq(X) /\ \E place : IsPlacing(place, clash, all, keep, N)
  BY <1>2, <1>5, KeptPlaced
<1>7. PICK place : IsPlacing(place, clash, all, keep, N)
  BY <1>6
<1>8. \A node : node \in keep <=> node.url \in Supported /\ \E i \in 1 .. N : all[i] = node
  BY <1>5 DEF ToSet, UsableNode, Usable
<1> HIDE DEF keep, clash, n
<1>9. /\ n \in Nat /\ DOMAIN clash = 1 .. n
      /\ clash \in [1 .. n -> X]
  BY <1>6 DEF n
<1>10. /\ place \in [1 .. n -> 1 .. N]
       /\ \A i \in 1 .. n : clash[i] = all[place[i]] /\ clash[i] \in keep
       /\ \A p \in 1 .. N : all[p] \in keep => \E i \in 1 .. n : place[i] = p
  BY <1>7 DEF IsPlacing, n
<1>11. clash \in Seq(Endpoint(Names))
  <2>1. ASSUME NEW i \in 1 .. n PROVE clash[i] \in Endpoint(Names)
    BY <1>8, <1>9, <1>10 DEF Endpoint, X
  <2>2. clash = [i \in 1 .. n |-> clash[i]]
    BY <1>9
  <2> QED
    BY <1>9, <2>1, <2>2
<1>12. ASSUME NEW url \in Supported
       PROVE  (\E i \in DOMAIN nodes : nodes[i].url = url)
              <=> (\E k \in DOMAIN clash : clash[k].url = url)
  <2>1. ASSUME NEW i \in DOMAIN nodes, nodes[i].url = url
        PROVE  \E k \in DOMAIN clash : clash[k].url = url
    <3>1. i \in 1 .. N /\ all[i].url = url /\ all[i] \in keep
      BY <1>1, <1>3, <1>8, <2>1
    <3>2. PICK k \in 1 .. n : place[k] = i
      BY <1>10, <3>1
    <3> QED
      BY <1>9, <1>10, <3>1, <3>2
  <2>2. ASSUME NEW k \in DOMAIN clash, clash[k].url = url
        PROVE  \E i \in DOMAIN nodes : nodes[i].url = url
    <3>1. k \in 1 .. n /\ place[k] \in 1 .. N /\ clash[k] = all[place[k]]
      BY <1>9, <1>10
    <3> QED
      BY <1>1, <1>3, <2>2, <3>1
  <2> QED
    BY <2>1, <2>2
<1> QED
  BY <1>11, <1>12 DEF clash

(* The list made of the first n endpoints found: each URL once, and the      *)
(* endpoint that brought it first.                                           *)
IsJoined(list, found, n) ==
    /\ \A i, j \in DOMAIN list : list[i].url = list[j].url => i = j
    /\ \A k \in 1 .. n : \E i \in DOMAIN list : list[i].url = found[k].url
    /\ \A i \in DOMAIN list : \E k \in 1 .. n :
          list[i] = found[k] /\ \A m \in 1 .. k - 1 : found[m].url # found[k].url

LEMMA AddJoins ==
    ASSUME NEW E, NEW found \in Seq(E), NEW n \in 1 .. Len(found),
           NEW list \in Seq(E), IsJoined(list, found, n - 1)
    PROVE  /\ Add(list, found[n]) \in Seq(E)
           /\ IsJoined(Add(list, found[n]), found, n)
<1> DEFINE item == found[n]
           more == Append(list, item)
           L == Len(list)
<1>1. /\ n \in Nat /\ n - 1 \in Nat /\ item \in E /\ L \in Nat
      /\ DOMAIN list = 1 .. L /\ n \in 1 .. n
      /\ \A k \in 1 .. n : k \in 1 .. n - 1 \/ k = n
      /\ \A k \in 1 .. n - 1 : k \in 1 .. n
  OBVIOUS
<1>2. CASE \E i \in DOMAIN list : list[i].url = item.url
  <2>1. Add(list, item) = list
    BY <1>2 DEF Add
  <2>2. IsJoined(list, found, n)
    BY <1>1, <1>2 DEF IsJoined
  <2> QED
    BY <2>1, <2>2
<1>3. CASE ~ \E i \in DOMAIN list : list[i].url = item.url
  <2>1. Add(list, item) = more
    BY <1>3 DEF Add
  <2>7. /\ \A i, j \in 1 .. L : list[i].url = list[j].url => i = j
        /\ \A k \in 1 .. n - 1 : \E i \in 1 .. L : list[i].url = found[k].url
        /\ \A i \in 1 .. L : list[i].url # item.url
    BY <1>1, <1>3 DEF IsJoined
  <2>2. /\ more \in Seq(E) /\ DOMAIN more = 1 .. L + 1
        /\ \A i \in 1 .. L : more[i] = list[i] /\ i \in 1 .. L + 1
        /\ more[L + 1] = item /\ L + 1 \in 1 .. L + 1
        /\ \A i \in 1 .. L + 1 : i \in 1 .. L \/ i = L + 1
    <3> HIDE DEF item
    <3> QED
      BY <1>1
  <2> HIDE DEF more, item, L
  <2>3. \A i, j \in DOMAIN more : more[i].url = more[j].url => i = j
    <3> SUFFICES ASSUME NEW i \in 1 .. L + 1, NEW j \in 1 .. L + 1,
                        more[i].url = more[j].url
                 PROVE  i = j
      BY <2>2
    <3>1. CASE i \in 1 .. L /\ j \in 1 .. L
      BY <2>2, <2>7, <3>1
    <3>2. CASE i \in 1 .. L /\ j = L + 1
      BY <2>2, <2>7, <3>2
    <3>3. CASE i = L + 1 /\ j \in 1 .. L
      BY <2>2, <2>7, <3>3
    <3> QED
      BY <2>2, <3>1, <3>2, <3>3
  <2>4. \A k \in 1 .. n : \E i \in DOMAIN more : more[i].url = found[k].url
    <3> SUFFICES ASSUME NEW k \in 1 .. n
                 PROVE  \E i \in 1 .. L + 1 : more[i].url = found[k].url
      BY <2>2
    <3>1. CASE k = n
      BY <2>2, <3>1 DEF item
    <3>2. CASE k \in 1 .. n - 1
      <4>1. PICK i \in 1 .. L : list[i].url = found[k].url
        BY <2>7, <3>2
      <4> QED
        BY <2>2, <4>1
    <3> QED
      BY <1>1, <3>1, <3>2
  <2>5. \A m \in 1 .. n - 1 : found[m].url # item.url
    <3> SUFFICES ASSUME NEW m \in 1 .. n - 1 PROVE found[m].url # item.url
      OBVIOUS
    <3>1. PICK i \in 1 .. L : list[i].url = found[m].url
      BY <2>7
    <3> QED
      BY <2>7, <3>1
  <2>6. \A i \in DOMAIN more : \E k \in 1 .. n :
           more[i] = found[k] /\ \A m \in 1 .. k - 1 : found[m].url # found[k].url
    <3> SUFFICES ASSUME NEW i \in DOMAIN more
                 PROVE  \E k \in 1 .. n :
                           /\ more[i] = found[k]
                           /\ \A m \in 1 .. k - 1 : found[m].url # found[k].url
      OBVIOUS
    <3>1. CASE i = L + 1
      BY <1>1, <2>2, <2>5, <3>1 DEF item
    <3>2. CASE i \in 1 .. L
      <4>1. more[i] = list[i] /\ i \in DOMAIN list
        BY <1>1, <2>2, <3>2 DEF L
      <4>2. PICK k \in 1 .. n - 1 :
               list[i] = found[k] /\ \A m \in 1 .. k - 1 : found[m].url # found[k].url
        BY <4>1 DEF IsJoined
      <4> QED
        BY <1>1, <4>1, <4>2
    <3> QED
      BY <2>2, <3>1, <3>2
  <2> QED
    BY <2>1, <2>2, <2>3, <2>4, <2>6 DEF IsJoined, item
<1> QED
  BY <1>2, <1>3

(* The list made of everything found.                                        *)
LEMMA JoinedJoins ==
    ASSUME NEW E, NEW found \in Seq(E)
    PROVE  /\ Joined(found) \in Seq(E)
           /\ IsJoined(Joined(found), found, Len(found))
<1> DEFINE N == Len(found)
           X == Seq(E)
           base == << >>
           Next(f, n) == Add(f[n - 1], found[n])
           Rec(f) == f = [n \in 0 .. N |-> IF n = 0 THEN base ELSE Next(f, n)]
           joined == CHOOSE f : Rec(f)
           step == [p \in (1 .. N) \X X |-> Add(p[2], found[p[1]])]
<1>1. N \in Nat /\ base \in X /\ found \in Seq(E)
  OBVIOUS
<1>2. Joined(found) = joined[N]
  BY DEF Joined
<1>3. IsStep(step, N, X)
  <2>1. ASSUME NEW list \in X, NEW n \in 1 .. N PROVE Add(list, found[n]) \in X
    <3>1. found[n] \in E
      BY <1>1
    <3> HIDE DEF N
    <3> QED
      BY <3>1 DEF Add
  <2>2. \A p \in (1 .. N) \X X : p[1] \in 1 .. N /\ p[2] \in X
    OBVIOUS
  <2> HIDE DEF N, X
  <2> QED
    BY <2>1, <2>2 DEF IsStep
<1>4. \A f : \A n \in 1 .. N : f[n - 1] \in X => step[<<n, f[n - 1]>>] = Next(f, n)
  <2> HIDE DEF N, X
  <2> QED
    OBVIOUS
<1> HIDE DEF step, N, X, base, Next
<1>5. PICK f : IsRun(f, N, X, base, step)
  BY <1>1, <1>3, RunExists
<1>6. \A n \in 1 .. N : f[n] = Next(f, n)
  <2> SUFFICES ASSUME NEW n \in 1 .. N PROVE f[n] = Next(f, n)
    OBVIOUS
  <2>1. n - 1 \in 0 .. N
    BY <1>1
  <2>2. f[n - 1] \in X
    BY <1>5, <2>1 DEF IsRun
  <2> QED
    BY <1>4, <1>5, <2>2 DEF IsRun
<1>7. Rec(f)
  BY <1>1, <1>5, <1>6 DEF IsRun
<1>8. Rec(joined)
  BY <1>7
<1> HIDE DEF joined
<1>9. joined[0] = base /\ \A n \in 1 .. N : joined[n] = Next(joined, n)
  <2>1. \A n \in 0 .. N : joined[n] = IF n = 0 THEN base ELSE Next(joined, n)
    BY <1>8
  <2>2. 0 \in 0 .. N /\ \A n \in 1 .. N : n \in 0 .. N /\ n # 0
    BY <1>1
  <2> QED
    BY <2>1, <2>2
<1> DEFINE S == {n \in Nat : n <= N => joined[n] \in X /\ IsJoined(joined[n], found, n)}
<1>10. 0 \in S
  BY <1>1, <1>9 DEF base, IsJoined
<1>11. ASSUME NEW n \in Nat, n \in S PROVE n + 1 \in S
  <2> SUFFICES ASSUME n + 1 <= N
               PROVE  joined[n + 1] \in X /\ IsJoined(joined[n + 1], found, n + 1)
    OBVIOUS
  <2>1. joined[n] \in X /\ IsJoined(joined[n], found, n)
    BY <1>1, <1>11
  <2> DEFINE m == n + 1
             list == joined[n]
  <2>2. m \in 1 .. N /\ m - 1 = n
    BY <1>1
  <2> HIDE DEF m
  <2>3. joined[m] = Add(list, found[m])
    BY <1>9, <2>2 DEF Next
  <2> HIDE DEF list
  <2>4. list \in Seq(E) /\ IsJoined(list, found, m - 1) /\ m \in 1 .. Len(found)
    BY <2>1, <2>2 DEF X, N, list
  <2>5. Add(list, found[m]) \in Seq(E) /\ IsJoined(Add(list, found[m]), found, m)
    BY <1>1, <2>4, AddJoins
  <2> QED
    BY <2>3, <2>5 DEF X, m
<1> HIDE DEF S
<1>12. N \in S
  BY <1>1, <1>10, <1>11, Induction
<1> QED
  BY <1>1, <1>2, <1>12 DEF S, X, N

-----------------------------------------------------------------------------

(* A document of which no token raises becomes a list as ProxyPool assumes   *)
(* it: endpoints with supported URLs, none of them twice.  No usable URL of  *)
(* the document is lost and none is made up, and one that is among the       *)
(* tokens goes by the name it has there.  Of any other document nothing is   *)
(* left, whatever usable URLs it has beside the token that raises.           *)
THEOREM ParsedIsList ==
    ASSUME NEW Names, NEW Urls,
           NEW document \in [tokens : Seq(Urls), nodes : Seq(Node(Names, Urls))]
    PROVE  LET list == Parsed(document)
           IN  /\ (\E t \in DOMAIN document.tokens : document.tokens[t] \in Malformed)
                  => list = ValueError
               /\ (\A t \in DOMAIN document.tokens : document.tokens[t] \notin Malformed)
                  => /\ list \in Seq(Endpoint(Names))
                     /\ \A i, j \in DOMAIN list : list[i].url = list[j].url => i = j
                     /\ \A url \in Supported :
                           \/ \E i \in DOMAIN document.tokens : document.tokens[i] = url
                           \/ \E i \in DOMAIN document.nodes : document.nodes[i].url = url
                           <=> \E i \in DOMAIN list : list[i].url = url
                     /\ \A i \in DOMAIN list :
                           (\E t \in DOMAIN document.tokens :
                               document.tokens[t] = list[i].url)
                           => list[i].name \in DirectName
<1> DEFINE E == Endpoint(Names)
           direct == Direct(document.tokens)
           clash == ClashNodes(document.nodes)
           found == direct \o clash
           list == Joined(found)
           D == Len(direct)
           C == Len(clash)
<1>1. document.tokens \in Seq(Urls) /\ document.nodes \in Seq(Node(Names, Urls))
  OBVIOUS
<1>2. /\ direct \in Seq(E)
      /\ \A k \in DOMAIN direct : direct[k].name \in DirectName
      /\ \A url \in Supported :
            (\E i \in DOMAIN document.tokens : document.tokens[i] = url)
            <=> (\E k \in DOMAIN direct : direct[k].url = url)
  BY <1>1, DirectTyped
<1>3. /\ clash \in Seq(E)
      /\ \A url \in Supported :
            (\E i \in DOMAIN document.nodes : document.nodes[i].url = url)
            <=> (\E k \in DOMAIN clash : clash[k].url = url)
  BY <1>1, ClashNodesTyped
<1> HIDE DEF direct, clash, E
<1>4. /\ D \in Nat /\ C \in Nat /\ DOMAIN direct = 1 .. D /\ DOMAIN clash = 1 .. C
      /\ found \in Seq(E) /\ Len(found) = D + C
      /\ \A k \in 1 .. D : found[k] = direct[k] /\ k \in 1 .. D + C
      /\ \A k \in 1 .. C : found[D + k] = clash[k] /\ D + k \in 1 .. D + C
      /\ \A k \in 1 .. D + C : k \in 1 .. D \/ \E m \in 1 .. C : k = D + m
  <2>1. D \in Nat /\ C \in Nat /\ DOMAIN direct = 1 .. D /\ DOMAIN clash = 1 .. C
    BY <1>2, <1>3
  <2>2. found \in Seq(E) /\ Len(found) = D + C
    BY <1>2, <1>3
  <2>3. \A k \in 1 .. D : found[k] = direct[k] /\ k \in 1 .. D + C
    BY <1>2, <1>3
  <2>4. \A k \in 1 .. C : found[D + k] = clash[k] /\ D + k \in 1 .. D + C
    BY <1>2, <1>3
  <2>5. ASSUME NEW k \in 1 .. D + C, k \notin 1 .. D
        PROVE  \E m \in 1 .. C : k = D + m
    <3> HIDE DEF D, C
    <3>1. k - D \in 1 .. C /\ k = D + (k - D)
      BY <2>1, <2>5
    <3> QED
      BY <3>1
  <2> QED
    BY <2>1, <2>2, <2>3, <2>4, <2>5
<1>5. list \in Seq(E) /\ IsJoined(list, found, D + C)
  <2>1. /\ Joined(found) \in Seq(E)
        /\ IsJoined(Joined(found), found, Len(found))
    BY <1>4, JoinedJoins
  <2> QED
    BY <1>4, <2>1
<1>9. /\ Raises(document) => Parsed(document) = ValueError
      /\ ~Raises(document) => Parsed(document) = list
  BY DEF Parsed, direct, clash
<1> HIDE DEF list, found, D, C
<1>6. \A i, j \in DOMAIN list : list[i].url = list[j].url => i = j
  BY <1>5 DEF IsJoined
<1>7. ASSUME NEW url \in Supported
      PROVE  \/ \E i \in DOMAIN document.tokens : document.tokens[i] = url
             \/ \E i \in DOMAIN document.nodes : document.nodes[i].url = url
             <=> \E i \in DOMAIN list : list[i].url = url
  <2>1. (\E i \in DOMAIN list : list[i].url = url)
        <=> \E k \in 1 .. D + C : found[k].url = url
    <3>1. ASSUME NEW i \in DOMAIN list, list[i].url = url
          PROVE  \E k \in 1 .. D + C : found[k].url = url
      <4>1. PICK k \in 1 .. D + C : list[i] = found[k]
        BY <1>5 DEF IsJoined
      <4> QED
        BY <3>1, <4>1
    <3>2. ASSUME NEW k \in 1 .. D + C, found[k].url = url
          PROVE  \E i \in DOMAIN list : list[i].url = url
      <4>1. PICK i \in DOMAIN list : list[i].url = found[k].url
        BY <1>5 DEF IsJoined
      <4> QED
        BY <3>2, <4>1
    <3> QED
      BY <3>1, <3>2
  <2>2. (\E k \in 1 .. D + C : found[k].url = url)
        <=> \/ \E k \in 1 .. D : direct[k].url = url
            \/ \E k \in 1 .. C : clash[k].url = url
    BY <1>4
  <2> QED
    BY <1>2, <1>3, <1>4, <2>1, <2>2
<1>8. ASSUME NEW i \in DOMAIN list, NEW t \in DOMAIN document.tokens,
             document.tokens[t] = list[i].url
      PROVE  list[i].name \in DirectName
  <2>1. PICK k \in 1 .. D + C :
           list[i] = found[k] /\ \A m \in 1 .. k - 1 : found[m].url # found[k].url
    BY <1>5 DEF IsJoined
  <2>2. list[i].url \in Supported
    <3>1. list[i] \in E
      BY <1>5
    <3> QED
      BY <3>1 DEF E, Endpoint
  <2>3. PICK m \in 1 .. D : direct[m].url = list[i].url
    BY <1>2, <1>4, <1>8, <2>2
  <2>4. found[m].url = found[k].url
    BY <1>4, <2>1, <2>3
  <2>5. ~ (m < k)
    BY <1>4, <2>1, <2>4
  <2>6. k \in 1 .. D
    BY <1>4, <2>5
  <2> QED
    BY <1>2, <1>4, <2>1, <2>6
<1> QED
  BY <1>5, <1>6, <1>7, <1>8, <1>9 DEF E, Raises
=============================================================================
