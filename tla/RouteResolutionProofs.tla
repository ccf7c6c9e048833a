----------------------- MODULE RouteResolutionProofs -----------------------
(***************************************************************************)
(* Proofs about the route registry under the proxy, for any number of      *)
(* routes, forms and requests: only what was published routes a request,   *)
(* a route that preflight can call ready serves every plain one, a request *)
(* tries each upstream once, and turns are shared by weight.               *)
(***************************************************************************)
EXTENDS RouteResolution, UpstreamListsProofs

-----------------------------------------------------------------------------
\* What the list looks like after one of its elements is taken out.
LEMMA RemoveAtElements ==
    ASSUME NEW S, NEW s \in Seq(S), NEW i \in 1 .. Len(s)
    PROVE  /\ RemoveAt(s, i) \in Seq(S)
           /\ Len(RemoveAt(s, i)) = Len(s) - 1
           /\ \A k \in 1 .. Len(s) - 1 :
                  RemoveAt(s, i)[k] = IF k < i THEN s[k] ELSE s[k + 1]
  <1> DEFINE l == SubSeq(s, 1, i - 1)
             r == SubSeq(s, i + 1, Len(s))
  <1>0. Len(s) \in Nat /\ i \in Int /\ \A k \in 1 .. Len(s) : s[k] \in S
    BY ElementOfSeq
  <1>1. /\ l \in Seq(S) /\ Len(l) = i - 1
        /\ \A k \in 1 .. i - 1 : l[k] = s[k]
    <2>1. \A k \in 1 .. i - 1 : s[k] \in S
      BY <1>0
    <2>2. /\ l \in Seq(S) /\ Len(l) = IF 1 <= i - 1 THEN i - 1 - 1 + 1 ELSE 0
          /\ \A k \in 1 .. i - 1 - 1 + 1 : l[k] = s[1 + k - 1]
      BY <1>0, <2>1, SubSeqProperties
    <2>3. QED
      BY <1>0, <2>2
  <1>2. /\ r \in Seq(S) /\ Len(r) = Len(s) - i
        /\ \A k \in 1 .. Len(s) - i : r[k] = s[i + k]
    <2>1. \A k \in i + 1 .. Len(s) : s[k] \in S
      BY <1>0
    <2>2. /\ r \in Seq(S)
          /\ Len(r) = IF i + 1 <= Len(s) THEN Len(s) - (i + 1) + 1 ELSE 0
          /\ \A k \in 1 .. Len(s) - (i + 1) + 1 : r[k] = s[(i + 1) + k - 1]
      BY <1>0, <2>1, SubSeqProperties
    <2>3. QED
      BY <1>0, <2>2
  <1> HIDE DEF l, r
  <1>3. /\ l \o r \in Seq(S) /\ Len(l \o r) = Len(l) + Len(r)
        /\ \A k \in 1 .. Len(l) + Len(r) :
               (l \o r)[k] = IF k <= Len(l) THEN l[k] ELSE r[k - Len(l)]
    BY <1>1, <1>2, ConcatProperties
  <1>4. RemoveAt(s, i) = l \o r
    BY DEF RemoveAt, l, r
  <1>5. ASSUME NEW k \in 1 .. Len(s) - 1
        PROVE  (l \o r)[k] = IF k < i THEN s[k] ELSE s[k + 1]
    <2>1. CASE k < i
      BY <1>0, <1>1, <1>2, <1>3, <2>1
    <2>2. CASE i <= k
      <3>1. (l \o r)[k] = r[k - (i - 1)]
        BY <1>0, <1>1, <1>2, <1>3, <2>2
      <3>2. r[k - (i - 1)] = s[i + (k - (i - 1))]
        BY <1>0, <1>2, <2>2
      <3>3. QED
        BY <1>0, <2>2, <3>1, <3>2
    <2>3. k < i \/ i <= k
      BY <1>0
    <2>4. QED
      BY <2>1, <2>2, <2>3
  <1>6. Len(l \o r) = Len(s) - 1
    BY <1>0, <1>1, <1>2, <1>3
  <1>7. QED
    BY <1>3, <1>4, <1>5, <1>6

\* And after an element is put in.
LEMMA InsertAtElements ==
    ASSUME NEW S, NEW s \in Seq(S), NEW i \in 1 .. Len(s) + 1, NEW e \in S
    PROVE  /\ InsertAt(s, i, e) \in Seq(S)
           /\ Len(InsertAt(s, i, e)) = Len(s) + 1
           /\ \A k \in 1 .. Len(s) + 1 :
                  InsertAt(s, i, e)[k] =
                      IF k < i THEN s[k] ELSE IF k = i THEN e ELSE s[k - 1]
  <1> DEFINE l == SubSeq(s, 1, i - 1)
             m == l \o <<e>>
             r == SubSeq(s, i, Len(s))
  <1>0. Len(s) \in Nat /\ i \in Int /\ \A k \in 1 .. Len(s) : s[k] \in S
    BY ElementOfSeq
  <1>1. /\ l \in Seq(S) /\ Len(l) = i - 1
        /\ \A k \in 1 .. i - 1 : l[k] = s[k]
    <2>1. \A k \in 1 .. i - 1 : s[k] \in S
      BY <1>0
    <2>2. /\ l \in Seq(S) /\ Len(l) = IF 1 <= i - 1 THEN i - 1 - 1 + 1 ELSE 0
          /\ \A k \in 1 .. i - 1 - 1 + 1 : l[k] = s[1 + k - 1]
      BY <1>0, <2>1, SubSeqProperties
    <2>3. QED
      BY <1>0, <2>2
  <1>2. /\ r \in Seq(S) /\ Len(r) = Len(s) + 1 - i
        /\ \A k \in 1 .. Len(s) + 1 - i : r[k] = s[i + k - 1]
    <2>1. \A k \in i .. Len(s) : s[k] \in S
      BY <1>0
    <2>2. /\ r \in Seq(S)
          /\ Len(r) = IF i <= Len(s) THEN Len(s) - i + 1 ELSE 0
          /\ \A k \in 1 .. Len(s) - i + 1 : r[k] = s[i + k - 1]
      BY <1>0, <2>1, SubSeqProperties
    <2>3. QED
      BY <1>0, <2>2
  <1> HIDE DEF l, r
  <1>3. <<e>> \in Seq(S) /\ Len(<<e>>) = 1 /\ <<e>>[1] = e
    OBVIOUS
  <1>4. /\ m \in Seq(S) /\ Len(m) = i
        /\ \A k \in 1 .. i : m[k] = IF k < i THEN s[k] ELSE e
    <2>1. /\ m \in Seq(S) /\ Len(m) = Len(l) + Len(<<e>>)
          /\ \A k \in 1 .. Len(l) + Len(<<e>>) :
                 m[k] = IF k <= Len(l) THEN l[k] ELSE <<e>>[k - Len(l)]
      BY <1>1, <1>3, ConcatProperties
    <2>2. ASSUME NEW k \in 1 .. i
          PROVE  m[k] = IF k < i THEN s[k] ELSE e
      <3>1. CASE k < i
        BY <1>0, <1>1, <1>3, <2>1, <3>1
      <3>2. CASE k = i
        <4>1. m[k] = <<e>>[k - Len(l)] /\ k - Len(l) = 1
          BY <1>0, <1>1, <1>3, <2>1, <3>2
        <4>2. QED
          BY <1>3, <3>2, <4>1
      <3>3. k < i \/ k = i
        BY <1>0
      <3>4. QED
        BY <3>1, <3>2, <3>3
    <2>3. Len(m) = i
      BY <1>0, <1>1, <1>3, <2>1
    <2>4. QED
      BY <2>1, <2>2, <2>3
  <1> HIDE DEF m
  <1>5. /\ m \o r \in Seq(S) /\ Len(m \o r) = Len(m) + Len(r)
        /\ \A k \in 1 .. Len(m) + Len(r) :
               (m \o r)[k] = IF k <= Len(m) THEN m[k] ELSE r[k - Len(m)]
    BY <1>2, <1>4, ConcatProperties
  <1>6. InsertAt(s, i, e) = m \o r
    BY DEF InsertAt, l, m, r
  <1>7. ASSUME NEW k \in 1 .. Len(s) + 1
        PROVE  (m \o r)[k] = IF k < i THEN s[k] ELSE IF k = i THEN e ELSE s[k - 1]
    <2>1. CASE k <= i
      BY <1>0, <1>2, <1>4, <1>5, <2>1
    <2>2. CASE k > i
      <3>1. (m \o r)[k] = r[k - i]
        BY <1>0, <1>2, <1>4, <1>5, <2>2
      <3>2. r[k - i] = s[i + (k - i) - 1]
        BY <1>0, <1>2, <2>2
      <3>3. QED
        BY <1>0, <2>2, <3>1, <3>2
    <2>3. k <= i \/ k > i
      BY <1>0
    <2>4. QED
      BY <2>1, <2>2, <2>3
  <1>8. Len(m \o r) = Len(s) + 1
    BY <1>0, <1>2, <1>4, <1>5
  <1>9. QED
    BY <1>5, <1>6, <1>7, <1>8

-----------------------------------------------------------------------------
\* Taking a route out leaves the others in order, under other ids.
LEMMA RemovedInOrder ==
    ASSUME NEW s, NEW p, InOrder(s, p), NEW i \in DOMAIN s
    PROVE  /\ InOrder(RemoveAt(s, i), p)
           /\ \A k \in DOMAIN RemoveAt(s, i) : RemoveAt(s, i)[k].id # s[i].id
           /\ i \in 1 .. Len(RemoveAt(s, i)) + 1
  <1> DEFINE t == RemoveAt(s, i)
  <1>1. s \in Seq(Route) /\ Len(s) \in Nat /\ DOMAIN s = 1 .. Len(s) /\ i \in 1 .. Len(s)
    BY LenProperties DEF InOrder
  <1>2. /\ t \in Seq(Route) /\ Len(t) = Len(s) - 1
        /\ \A k \in 1 .. Len(s) - 1 : t[k] = IF k < i THEN s[k] ELSE s[k + 1]
    BY <1>1, RemoveAtElements
  <1>3. DOMAIN t = 1 .. Len(s) - 1
    BY <1>1, <1>2, LenProperties
  <1> HIDE DEF t
  <1>4. ASSUME NEW k \in DOMAIN t
        PROVE  \E m \in DOMAIN s : /\ t[k] = s[m] /\ m # i
                                   /\ m = IF k < i THEN k ELSE k + 1
    <2>1. CASE k < i
      BY <1>1, <1>2, <1>3, <2>1
    <2>2. CASE i <= k
      BY <1>1, <1>2, <1>3, <2>2
    <2>3. k < i \/ i <= k
      BY <1>1, <1>3
    <2>4. QED
      BY <2>1, <2>2, <2>3
  <1>5. \A k \in DOMAIN t : t[k].id # s[i].id
    BY <1>4 DEF InOrder
  <1>6. ASSUME NEW j \in DOMAIN t, NEW k \in DOMAIN t, t[j].id = t[k].id
        PROVE  j = k
    <2>1. PICK m \in DOMAIN s : t[j] = s[m] /\ m = IF j < i THEN j ELSE j + 1
      BY <1>4
    <2>2. PICK n \in DOMAIN s : t[k] = s[n] /\ n = IF k < i THEN k ELSE k + 1
      BY <1>4
    <2>3. m = n
      BY <1>6, <2>1, <2>2 DEF InOrder
    <2>4. QED
      BY <1>1, <1>3, <2>1, <2>2, <2>3
  <1>7. \A k \in DOMAIN t : /\ PolicyAccepted(t[k].form)
                            /\ t[k].status = "Active" => t[k].form = p[t[k].id]
    BY <1>4 DEF InOrder
  <1>8. InOrder(t, p)
    BY <1>2, <1>6, <1>7 DEF InOrder
  <1>9. i \in 1 .. Len(t) + 1
    BY <1>1, <1>2
  <1>10. QED
    BY <1>5, <1>8, <1>9 DEF t

\* A write puts its row somewhere in the list.
LEMMA ListedAt ==
    ASSUME NEW s \in Seq(Route), NEW i \in 1 .. Len(s) + 1, NEW r \in Route,
           NEW list \in Listed(s, i, r)
    PROVE  \E j \in 1 .. Len(s) + 1 :
               /\ list \in Seq(Route)
               /\ DOMAIN list = 1 .. Len(s) + 1
               /\ \A k \in 1 .. Len(s) + 1 :
                      list[k] = IF k < j THEN s[k] ELSE IF k = j THEN r ELSE s[k - 1]
  <1>1. Len(s) \in Nat
    BY LenProperties
  <1>2. PICK j \in 1 .. Len(s) + 1 : list = InsertAt(s, j, r)
    <2>1. CASE backend = "memory"
      BY <2>1 DEF Listed
    <2>2. CASE backend # "memory"
      BY <2>2 DEF Listed
    <2> QED
      BY <2>1, <2>2
  <1>3. /\ InsertAt(s, j, r) \in Seq(Route)
        /\ Len(InsertAt(s, j, r)) = Len(s) + 1
        /\ \A k \in 1 .. Len(s) + 1 :
               InsertAt(s, j, r)[k] =
                   IF k < j THEN s[k] ELSE IF k = j THEN r ELSE s[k - 1]
    <2>1. s \in Seq(Route) /\ j \in 1 .. Len(s) + 1 /\ r \in Route
      OBVIOUS
    <2> QED
      BY <2>1, InsertAtElements, SMTT(60)
  <1>4. DOMAIN list = 1 .. Len(s) + 1
    BY <1>1, <1>2, <1>3, LenProperties
  <1> QED
    BY <1>2, <1>3, <1>4

\* Putting one in under a new id keeps the order, wherever it is put.
LEMMA ListedInOrder ==
    ASSUME NEW s, NEW p, InOrder(s, p), NEW i \in 1 .. Len(s) + 1, NEW r \in Route,
           PolicyAccepted(r.form), r.status = "Active" => r.form = p[r.id],
           \A k \in DOMAIN s : s[k].id # r.id,
           NEW list \in Listed(s, i, r)
    PROVE  InOrder(list, p)
  <1>1. s \in Seq(Route) /\ Len(s) \in Nat /\ DOMAIN s = 1 .. Len(s)
    BY LenProperties DEF InOrder
  <1>2. PICK j \in 1 .. Len(s) + 1 :
            /\ list \in Seq(Route)
            /\ DOMAIN list = 1 .. Len(s) + 1
            /\ \A k \in 1 .. Len(s) + 1 :
                   list[k] = IF k < j THEN s[k] ELSE IF k = j THEN r ELSE s[k - 1]
    BY <1>1, ListedAt, SMTT(60)
  <1>3. ASSUME NEW k \in DOMAIN list, k # j
        PROVE  \E m \in DOMAIN s : list[k] = s[m] /\ m = IF k < j THEN k ELSE k - 1
    <2>1. CASE k < j
      BY <1>1, <1>2, <2>1
    <2>2. CASE j < k
      BY <1>1, <1>2, <2>2
    <2>3. k < j \/ j < k
      BY <1>1, <1>2, <1>3
    <2>4. QED
      BY <2>1, <2>2, <2>3
  <1>4. j \in DOMAIN list /\ list[j] = r
    BY <1>1, <1>2
  <1>5. ASSUME NEW k \in DOMAIN list, NEW l \in DOMAIN list, list[k].id = list[l].id
        PROVE  k = l
    <2>1. CASE k = j \/ l = j
      BY <1>3, <1>4, <1>5, <2>1
    <2>2. CASE k # j /\ l # j
      <3>1. PICK m \in DOMAIN s : list[k] = s[m] /\ m = IF k < j THEN k ELSE k - 1
        BY <1>3, <2>2
      <3>2. PICK n \in DOMAIN s : list[l] = s[n] /\ n = IF l < j THEN l ELSE l - 1
        BY <1>3, <2>2
      <3>3. m = n
        BY <1>5, <3>1, <3>2 DEF InOrder
      <3>4. QED
        BY <1>1, <1>2, <2>2, <3>1, <3>2, <3>3
    <2>3. QED
      BY <2>1, <2>2
  <1>6. \A k \in DOMAIN list :
            /\ PolicyAccepted(list[k].form)
            /\ list[k].status = "Active" => list[k].form = p[list[k].id]
    BY <1>3, <1>4 DEF InOrder
  <1>7. QED
    BY <1>2, <1>5, <1>6 DEF InOrder

-----------------------------------------------------------------------------
LEMMA InitRegistry == Init => RegistryInv
  <1> SUFFICES ASSUME Init PROVE RegistryInv
    OBVIOUS
  <1>1. /\ routes \in Seq(Route) /\ live = LivePolicies(routes)
        /\ \A i \in DOMAIN routes : PolicyAccepted(routes[i].form)
        /\ \A i, j \in DOMAIN routes : routes[i].id = routes[j].id => i = j
    BY SeedsAssumption DEF Init, RegistryInit
  <1>2. \A i \in DOMAIN routes : routes[i] \in Route
    BY <1>1, LenProperties
  <1>3. ASSUME NEW i \in DOMAIN routes, routes[i].status = "Active"
        PROVE  routes[i].form = live[routes[i].id]
    <2> DEFINE d == routes[i].id
    <2>1. d \in Ids
      BY <1>2 DEF Route
    <2>2. (CHOOSE j \in DOMAIN routes : routes[j].id = d) = i
      BY <1>1
    <2>3. QED
      BY <1>1, <1>3, <2>1, <2>2 DEF LivePolicies
  <1>4. ASSUME NEW id \in Ids
        PROVE  live[id] \in Forms \cup {Unset}
    <2>1. CASE \E i \in DOMAIN routes : routes[i].id = id /\ routes[i].status = "Active"
      <3>1. (CHOOSE j \in DOMAIN routes : routes[j].id = id) \in DOMAIN routes
        BY <2>1
      <3>2. QED
        BY <1>1, <1>2, <2>1, <3>1 DEF LivePolicies, Route
    <2>2. CASE ~\E i \in DOMAIN routes : routes[i].id = id /\ routes[i].status = "Active"
      BY <1>1, <2>2 DEF LivePolicies
    <2>3. QED
      BY <2>1, <2>2
  <1>5. live \in [Ids -> Forms \cup {Unset}]
    <2>1. live = [id \in Ids |-> live[id]]
      BY <1>1 DEF LivePolicies
    <2>2. QED
      BY <1>4, <2>1
  <1>6. QED
    BY <1>1, <1>3, <1>5 DEF RegistryInv, InOrder

\* The registry stays in order: one step per operation.
LEMMA NextRegistry == RegistryInv /\ [Next]_vars => RegistryInv'
  <1> SUFFICES ASSUME RegistryInv, [Next]_vars PROVE RegistryInv'
    OBVIOUS
  <1>1. InOrder(routes, live) /\ live \in [Ids -> Forms \cup {Unset}]
    BY DEF RegistryInv
  <1>2. routes \in Seq(Route) /\ Len(routes) \in Nat
        /\ \A i \in DOMAIN routes : routes[i] \in Route
    BY <1>1, LenProperties DEF InOrder
  <1>3. ASSUME NEW id \in Ids, NEW f \in Forms, CreateRoute(id, f)
        PROVE  RegistryInv'
    <2> DEFINE r == [id |-> id, form |-> f, status |-> "Draft"]
    <2>1. r \in Route /\ PolicyAccepted(r.form) /\ r.status # "Active"
          /\ \A k \in DOMAIN routes : routes[k].id # r.id
      BY <1>3 DEF CreateRoute, Route
    <2>2. routes' \in Listed(routes, 1, r) /\ live' = live
      BY <1>3 DEF CreateRoute, Edited
    <2>3. 1 \in 1 .. Len(routes) + 1
      BY <1>2
    <2> HIDE DEF r
    <2>4. InOrder(routes', live)
      BY <1>1, <2>1, <2>2, <2>3, ListedInOrder
    <2>5. QED
      BY <1>1, <2>2, <2>4 DEF RegistryInv, InOrder
  <1>4. ASSUME NEW i \in DOMAIN routes, NEW f \in Forms, UpdateRoute(i, f)
        PROVE  RegistryInv'
    <2> DEFINE r == [routes[i] EXCEPT !.form = f, !.status = "Draft"]
    <2>1. r \in Route /\ r.form = f /\ r.status # "Active" /\ r.id = routes[i].id
      BY <1>2 DEF Route
    <2>2. PolicyAccepted(r.form)
      BY <1>4, <2>1 DEF UpdateRoute
    <2>3. routes' \in Listed(RemoveAt(routes, i), i, r) /\ live' = live
      BY <1>4 DEF UpdateRoute, Edited
    <2> HIDE DEF r
    <2>4. InOrder(routes', live)
      <3>1. /\ InOrder(RemoveAt(routes, i), live)
            /\ \A k \in DOMAIN RemoveAt(routes, i) : RemoveAt(routes, i)[k].id # r.id
            /\ i \in 1 .. Len(RemoveAt(routes, i)) + 1
        BY <1>1, <2>1, RemovedInOrder
      <3>2. QED
        BY <2>1, <2>2, <2>3, <3>1, ListedInOrder
    <2>5. QED
      BY <1>1, <2>3, <2>4 DEF RegistryInv, InOrder
  <1>5. ASSUME NEW i \in DOMAIN routes, PublishRoute(i)
        PROVE  RegistryInv'
    <2> DEFINE r == [routes[i] EXCEPT !.status = "Active"]
               rest == RemoveAt(routes, i)
    <2>1. r \in Route /\ r.form = routes[i].form /\ r.id = routes[i].id
      BY <1>2 DEF Route
    <2>2. PolicyAccepted(r.form)
      BY <1>1, <2>1 DEF InOrder
    <2>3. routes' \in Listed(rest, i, r) /\ live' = [live EXCEPT ![r.id] = r.form]
      BY <1>5, <2>1 DEF PublishRoute, Edited
    <2>4. r.id \in Ids /\ r.form \in Forms
      BY <2>1 DEF Route
    <2> HIDE DEF r, rest
    <2>5. live'[r.id] = r.form /\ live' \in [Ids -> Forms \cup {Unset}]
          /\ \A id \in Ids : id # r.id => live'[id] = live[id]
      BY <1>1, <2>3, <2>4
    <2>6. /\ InOrder(rest, live)
          /\ \A k \in DOMAIN rest : rest[k].id # r.id
          /\ i \in 1 .. Len(rest) + 1
      BY <1>1, <2>1, RemovedInOrder DEF rest
    <2>7. \A k \in DOMAIN rest : rest[k].id \in Ids
      <3>1. \A k \in DOMAIN rest : rest[k] \in Route
        BY <2>6, LenProperties DEF InOrder
      <3>2. QED
        BY <3>1 DEF Route
    <2>8. InOrder(rest, live')
      BY <2>5, <2>6, <2>7 DEF InOrder
    <2>9. InOrder(routes', live')
      BY <2>1, <2>2, <2>3, <2>5, <2>6, <2>8, ListedInOrder
    <2>10. QED
      BY <2>5, <2>9 DEF RegistryInv, InOrder
  <1>6. ASSUME UNCHANGED registryVars
        PROVE  RegistryInv'
    BY <1>1, <1>6 DEF registryVars, RegistryInv, InOrder
  <1>7. CASE RegistrySteps
    BY <1>3, <1>4, <1>5, <1>7 DEF RegistrySteps
  <1>8. CASE \E p \in ProxyRequests : ProxyOwn(p) \/ ProxyUnrouted(p)
    BY <1>6, <1>8 DEF ProxyOwn, ProxyUnrouted, registryVars
  <1>9. CASE \E p \in ProxyRequests, i \in DOMAIN routes : ProxyRouted(p, i)
    BY <1>6, <1>9 DEF ProxyRouted
  <1>10. CASE UNCHANGED vars
    BY <1>6, <1>10 DEF vars
  <1>11. QED
    BY <1>7, <1>8, <1>9, <1>10 DEF Next

\* The registry is in order in every reachable state.
THEOREM RegistryInOrder == Spec => []RegistryInv
  BY InitRegistry, NextRegistry, PTL DEF Spec

-----------------------------------------------------------------------------
\* A step that uses a route and leaves the registry alone has chosen an active
\* one, and that is in the form it was published with.
LEMMA UsesPublished ==
    RegistryInv /\ [Next]_vars =>
        [UNCHANGED registryVars /\ via' # NoRoute => via'.form = live[via'.id]]_vars
  <1> SUFFICES ASSUME RegistryInv, Next, UNCHANGED registryVars, via' # NoRoute
               PROVE  via'.form = live[via'.id] \/ UNCHANGED vars
    OBVIOUS
  <1>1. CASE RegistrySteps /\ UNCHANGED <<selectionVars, via>>
    BY <1>1 DEF vars
  <1>2. CASE \E p \in ProxyRequests : ProxyOwn(p) \/ ProxyUnrouted(p)
    BY <1>2 DEF ProxyOwn, ProxyUnrouted
  <1>3. CASE \E p \in ProxyRequests, i \in DOMAIN routes : ProxyRouted(p, i)
    <2>1. PICK p \in ProxyRequests, i \in DOMAIN routes : ProxyRouted(p, i)
      BY <1>3
    <2>2. routes[i].status = "Active"
      BY <2>1 DEF ProxyRouted, Chosen, Covers
    <2>3. via'.id = routes[i].id /\ via'.form = routes[i].form
      BY <2>1 DEF ProxyRouted
    <2>4. QED
      BY <2>2, <2>3 DEF RegistryInv, InOrder
  <1>4. QED
    BY <1>1, <1>2, <1>3 DEF Next

\* Only what was published routes a request.
THEOREM PublishedOnly == Spec => RoutedAsPublished
  BY RegistryInOrder, UsesPublished, PTL DEF Spec, RoutedAsPublished

-----------------------------------------------------------------------------
\* Preflight blocks a form whose upstreams are no addresses.
LEMMA ReadyIsValid ==
    ASSUME NEW f \in ReadyForms
    PROVE  ValidUpstreams(f.cands)
  <1> SUFFICES ASSUME ~ValidUpstreams(f.cands) PROVE FALSE
    OBVIOUS
  <1>1. PICK answers \in Answers :
            Ready([id |-> Unset, form |-> f, status |-> "Draft"], answers)
    BY DEF ReadyForms
  <1>2. Health(f, answers) = "Invalid"
    BY DEF Health
  <1>3. "Block" \in Checks([id |-> Unset, form |-> f, status |-> "Draft"], answers)
    BY <1>2 DEF Checks
  <1>4. QED
    BY <1>1, <1>3 DEF Ready

\* A plain request is merged with an accepted policy into one that is usable,
\* and whose weights, if they matter, are those the policy was accepted with.
LEMMA PlainServed ==
    ASSUME NEW p \in ProxyRequests, NEW f \in Forms, PolicyAccepted(f),
           ValidUpstreams(f.cands),
           p.strategy # "unknown", DOMAIN p.weights = {}, p.canary = NoPolicy
    PROVE  Usable(Merged(p, f), f.cands) /\ ~Refused(ToSelect(Merged(p, f), f.cands))
  <1> DEFINE o == Merged(p, f)
  <1>1. p \in ProxyRequest /\ f \in Form
    BY ProxyRequestsAssumption, FormsAssumption
  <1>2. /\ o.strategy = IF p.strategy = Unset THEN f.strategy ELSE p.strategy
        /\ o.weights = f.weights
        /\ o.headers = p.headers
        /\ o.canary = [part \in DOMAIN NoPolicy |->
                         IF p.canary[part] = Unset THEN f.canary[part] ELSE p.canary[part]]
    BY <1>1 DEF Merged, ProxyRequest
  <1>3. DOMAIN NoPolicy = {"header", "value", "upstream"}
        /\ \A part \in DOMAIN NoPolicy : p.canary[part] = Unset
    BY DEF NoPolicy
  <1>4. /\ o.canary.header = f.canary.header
        /\ o.canary.value = f.canary.value
        /\ o.canary.upstream = f.canary.upstream
    BY <1>2, <1>3
  <1>5. f.canary = NoPolicy => o.canary = NoPolicy
    BY <1>2, <1>3 DEF NoPolicy
  <1> HIDE DEF o
  <1>6. o.strategy # "unknown"
    BY <1>2 DEF PolicyAccepted, Strategies
  <1>7. o.canary # NoPolicy => /\ o.canary.header # Unset
                               /\ o.canary.upstream \in Upstreams
    BY <1>4, <1>5 DEF PolicyAccepted
  <1>8. CanaryMatches(o) => o.canary # NoPolicy
    <2>1. Unset \notin DOMAIN o.headers
      BY <1>1, <1>2, ProxyRequestsAssumption DEF ProxyRequest
    <2>2. QED
      BY <2>1 DEF CanaryMatches, NoPolicy
  <1>9. Usable(o, f.cands)
    BY <1>6, <1>7, <1>8, UnsetAssumption DEF Usable
  <1>10. WeightsValid(ToSelect(o, f.cands))
    BY <1>2 DEF ToSelect, WeightsValid, PolicyAccepted
  <1>11. QED
    BY <1>9, <1>10 DEF Refused, o

\* A published route that preflight can call ready serves every plain request.
THEOREM ReadyServes == Spec => []ReadyRouteServes
  <1>1. RegistryInv => ReadyRouteServes
    <2> SUFFICES ASSUME RegistryInv, NEW p \in ProxyRequests, NEW i \in Chosen(p),
                        p.strategy # "unknown", DOMAIN p.weights = {},
                        p.canary = NoPolicy, routes[i].form \in ReadyForms
                 PROVE  LET f == routes[i].form
                            o == Merged(p, f)
                        IN  Usable(o, f.cands) /\ ~Refused(ToSelect(o, f.cands))
      BY DEF ReadyRouteServes
    <2>1. i \in DOMAIN routes
      BY DEF Chosen
    <2>2. routes[i].form \in Forms /\ PolicyAccepted(routes[i].form)
      BY <2>1 DEF ReadyForms, RegistryInv, InOrder
    <2>3. QED
      BY <2>2, ReadyIsValid, PlainServed
  <1>2. QED
    BY <1>1, RegistryInOrder, PTL

-----------------------------------------------------------------------------
(* The weights before a candidate.                                         *)

\* The library folds over a list from its end, by a function on the sets of
\* its positions.
IsWalk(g, p, t, n) ==
    g = [s \in SUBSET (1 .. n) |->
            IF s = {} THEN 0 ELSE g[s \ {Max(s)}] + Weight(p, t[Max(s)])]
Walk(p, t, n) == (CHOOSE g : IsWalk(g, p, t, n))[1 .. n]

LEMMA WalkAt ==
    ASSUME NEW g, NEW p, NEW t, NEW n, IsWalk(g, p, t, n), NEW s \in SUBSET (1 .. n)
    PROVE  g[s] = IF s = {} THEN 0 ELSE g[s \ {Max(s)}] + Weight(p, t[Max(s)])
  BY DEF IsWalk

LEMMA MaxIs ==
    ASSUME NEW s \in SUBSET Int, NEW n \in s, \A k \in s : k <= n
    PROVE  Max(s) = n
  <1> DEFINE m == CHOOSE x \in s : \A y \in s : x >= y
  <1>1. m \in s /\ \A k \in s : m >= k
    <2>1. n \in s /\ \A k \in s : n >= k
      OBVIOUS
    <2> QED
      BY <2>1
  <1>2. Max(s) = m
    BY DEF Max
  <1> HIDE DEF m
  <1>3. m \in Int /\ n \in Int /\ m >= n /\ m <= n
    BY <1>1
  <1> QED
    BY <1>2, <1>3

LEMMA WalksExist ==
    ASSUME NEW p, NEW t, NEW n \in Nat
    PROVE  \E g : IsWalk(g, p, t, n)
  <1> DEFINE Bad == {m \in Nat : ~ \E g : IsWalk(g, p, t, m)}
  <1> SUFFICES ASSUME Bad # {} PROVE FALSE
    OBVIOUS
  <1>1. PICK m \in Nat : /\ ~ \E g : IsWalk(g, p, t, m)
                         /\ \A k \in Nat : k < m => \E g : IsWalk(g, p, t, k)
    <2>1. PICK m \in Bad : \A k \in Bad : m <= k
      BY Least
    <2>2. \A k \in Nat : k < m => ~ (m <= k)
      OBVIOUS
    <2> QED
      BY <2>1, <2>2
  <1> HIDE DEF Bad
  <1>2. CASE m = 0
    <2> DEFINE g == [s \in SUBSET (1 .. m) |-> 0]
    <2>1. \A s \in SUBSET (1 .. m) : s = {}
      BY <1>2
    <2>2. g = [s \in SUBSET (1 .. m) |->
                  IF s = {} THEN 0 ELSE g[s \ {Max(s)}] + Weight(p, t[Max(s)])]
      BY <2>1
    <2> HIDE DEF g
    <2>3. IsWalk(g, p, t, m)
      BY <2>2 DEF IsWalk
    <2> QED
      BY <1>1, <2>3
  <1>3. CASE m # 0
    <2>1. m - 1 \in Nat /\ m - 1 < m
      BY <1>3
    <2>2. PICK f : IsWalk(f, p, t, m - 1)
      BY <1>1, <2>1
    <2> DEFINE g == [s \in SUBSET (1 .. m) |->
                        IF m \in s THEN f[s \ {m}] + Weight(p, t[m]) ELSE f[s]]
    <2>3. ASSUME NEW s \in SUBSET (1 .. m)
          PROVE  g[s] = IF s = {} THEN 0 ELSE g[s \ {Max(s)}] + Weight(p, t[Max(s)])
      <3>1. CASE m \in s
        <4>1. Max(s) = m
          <5>1. s \in SUBSET Int /\ \A k \in s : k <= m
            OBVIOUS
          <5> QED
            BY <3>1, <5>1, MaxIs
        <4>2. g[s \ {m}] = f[s \ {m}]
          OBVIOUS
        <4> QED
          BY <3>1, <4>1, <4>2
      <3>2. CASE m \notin s
        <4>1. s \in SUBSET (1 .. m - 1)
          BY <3>2
        <4>2. g[s] = f[s] /\ g[s \ {Max(s)}] = f[s \ {Max(s)}]
          BY <3>2
        <4>3. f[s] = IF s = {} THEN 0 ELSE f[s \ {Max(s)}] + Weight(p, t[Max(s)])
          BY <2>2, <4>1, WalkAt
        <4> QED
          BY <4>2, <4>3
      <3> QED
        BY <3>1, <3>2
    <2>4. g = [s \in SUBSET (1 .. m) |-> g[s]]
      OBVIOUS
    <2> HIDE DEF g
    <2>5. IsWalk(g, p, t, m)
      BY <2>3, <2>4 DEF IsWalk
    <2> QED
      BY <1>1, <2>5
  <1> QED
    BY <1>2, <1>3

LEMMA WalkStep ==
    ASSUME NEW g, NEW p, NEW t, NEW n \in Nat, IsWalk(g, p, t, n), NEW i \in 0 .. n
    PROVE  g[1 .. i] = IF i = 0 THEN 0 ELSE g[1 .. i - 1] + Weight(p, t[i])
  <1>1. PICK r : r = 1 .. i
    OBVIOUS
  <1>2. r \in SUBSET (1 .. n)
    BY <1>1
  <1>3. g[r] = IF r = {} THEN 0 ELSE g[r \ {Max(r)}] + Weight(p, t[Max(r)])
    BY <1>2, WalkAt
  <1>4. CASE i = 0
    <2>1. r = {}
      BY <1>1, <1>4
    <2> QED
      BY <1>1, <1>3, <1>4, <2>1
  <1>5. CASE i # 0
    <2>1. i \in r /\ r \in SUBSET Int /\ \A k \in r : k <= i
      BY <1>1, <1>5
    <2>2. Max(r) = i
      BY <2>1, MaxIs
    <2>3. r \ {i} = 1 .. i - 1 /\ r # {}
      BY <1>1, <1>5
    <2> QED
      BY <1>1, <1>3, <1>5, <2>2, <2>3
  <1> QED
    BY <1>4, <1>5

\* The weight before a candidate grows by its own.
LEMMA SeenSteps ==
    ASSUME NEW p, p.cands \in Seq(Upstreams)
    PROVE  /\ Seen(p, 0) = 0
           /\ \A i \in 1 .. Len(p.cands) :
                  Seen(p, i) = Seen(p, i - 1) + Weight(p, p.cands[i])
  <1> DEFINE c == p.cands
             n == Len(c)
  <1>1. n \in Nat /\ \A k \in 1 .. n : c[k] \in Upstreams
    BY LenProperties, ElementOfSeq
  <1> HIDE DEF n
  <1>2. ASSUME NEW i \in 0 .. n
        PROVE  /\ Seen(p, i) = Walk(p, SubSeq(c, 1, i), i)
               /\ \A k \in 1 .. i : SubSeq(c, 1, i)[k] = c[k]
    <2> DEFINE t == SubSeq(c, 1, i)
    <2>1. t \in Seq(Upstreams) /\ Len(t) = i /\ \A k \in 1 .. i : t[k] = c[k]
      <3>1. \A k \in 1 .. i : c[k] \in Upstreams
        BY <1>1
      <3>2. /\ t \in Seq(Upstreams) /\ Len(t) = IF 1 <= i THEN i - 1 + 1 ELSE 0
            /\ \A k \in 1 .. i - 1 + 1 : t[k] = c[1 + k - 1]
        BY <1>1, <3>1, SubSeqProperties
      <3> QED
        BY <1>1, <3>2
    <2>2. DOMAIN t = 1 .. i
      BY <2>1, LenProperties
    <2>3. Seen(p, i) = (CHOOSE g : g = [s \in SUBSET DOMAIN t |->
                            IF s = {} THEN 0 ELSE g[s \ {Max(s)}] + Weight(p, t[Max(s)])])[DOMAIN t]
      BY DEF Seen, FoldLeft, MapThenFoldSet
    <2> QED
      BY <2>1, <2>2, <2>3 DEF Walk, IsWalk
  <1>3. ASSUME NEW i \in 0 .. n, NEW g, IsWalk(g, p, c, n)
        PROVE  Seen(p, i) = g[1 .. i]
    <2> DEFINE t == SubSeq(c, 1, i)
               h == CHOOSE f : IsWalk(f, p, t, i)
    <2>1. IsWalk(h, p, t, i)
      <3>1. i \in Nat
        BY <1>1
      <3> QED
        BY <3>1, WalksExist
    <2>2. i \in Nat /\ n \in Nat /\ i <= n /\ \A k \in 1 .. i : t[k] = c[k]
      BY <1>1, <1>2
    <2> HIDE DEF h, t, c
    <2>3. h[1 .. i] = g[1 .. i]
      <3> DEFINE Bad == {k \in 0 .. i : h[1 .. k] # g[1 .. k]}
      <3> SUFFICES ASSUME Bad # {} PROVE FALSE
        BY <2>2
      <3>1. PICK j \in Bad : \A k \in Bad : j <= k
        <4>1. Bad \in SUBSET Nat
          OBVIOUS
        <4> HIDE DEF Bad
        <4> QED
          BY <4>1, Least
      <3>2. j \in 0 .. i /\ j \in 0 .. n
        BY <2>2
      <3>3. g[1 .. j] = IF j = 0 THEN 0 ELSE g[1 .. j - 1] + Weight(p, c[j])
        BY <1>3, <2>2, <3>2, WalkStep
      <3>4. h[1 .. j] = IF j = 0 THEN 0 ELSE h[1 .. j - 1] + Weight(p, t[j])
        BY <2>1, <2>2, <3>2, WalkStep
      <3>5. j # 0 => j - 1 \in 0 .. i /\ ~ (j <= j - 1)
        BY <2>2, <3>2
      <3>6. j # 0 => g[1 .. j - 1] = h[1 .. j - 1]
        BY <3>1, <3>5
      <3>7. j # 0 => t[j] = c[j]
        BY <2>2, <3>2
      <3>8. g[1 .. j] = h[1 .. j]
        BY <3>3, <3>4, <3>6, <3>7
      <3> QED
        BY <3>8
    <2> USE DEF c
    <2> QED
      BY <1>2, <2>3 DEF Walk, h, t
  <1>4. PICK g : IsWalk(g, p, c, n)
    BY <1>1, WalksExist
  <1>5. 0 \in 0 .. n /\ \A i \in 1 .. n : i \in 0 .. n /\ i - 1 \in 0 .. n /\ i # 0
    BY <1>1
  <1>6. \A i \in 0 .. n : g[1 .. i] = IF i = 0 THEN 0 ELSE g[1 .. i - 1] + Weight(p, c[i])
    BY <1>1, <1>4, WalkStep
  <1> QED
    BY <1>3, <1>4, <1>5, <1>6 DEF n

\* A plan that draws turns: its weights are positive.
Turns(p) ==
    /\ p \in Plans /\ Len(p.cands) > 1 /\ p.strategy # "ordered"
    /\ p.strategy = "weighted" => WeightsValid(p)

LEMMA PlanFields ==
    ASSUME NEW p \in Plans
    PROVE  /\ p.cands \in Seq(Upstreams) /\ p.cands # <<>> /\ IsInjective(p.cands)
           /\ Len(p.cands) \in Nat /\ DOMAIN p.cands = 1 .. Len(p.cands)
           /\ p.weights \in Weights
           /\ \A i \in 1 .. Len(p.cands) : p.cands[i] \in Upstreams
           /\ ToSet(p.cands) = {p.cands[i] : i \in 1 .. Len(p.cands)}
  <1>1. PICK q \in Requests : p = Plan(q)
    BY DEF Plans
  <1>2. q \in Request /\ q.cands # <<>> /\ IsInjective(q.cands)
    BY RequestsAssumption
  <1>3. /\ p.cands \in Seq(Upstreams) /\ p.cands # <<>> /\ IsInjective(p.cands)
        /\ p.weights \in Weights
    BY <1>1, <1>2 DEF Plan, Request
  <1> QED
    BY <1>3, LenProperties, ElementOfSeq DEF ToSet

LEMMA WeightPositive ==
    ASSUME NEW p, Turns(p), NEW u
    PROVE  Weight(p, u) \in Nat \ {0}
  <1>1. p.weights \in Weights
    BY PlanFields DEF Turns
  <1>2. p.strategy = "weighted" /\ u \in DOMAIN p.weights =>
            p.weights[u] \in Int /\ p.weights[u] > 0
    BY <1>1, WeightsAssumption DEF Turns, WeightsValid
  <1> QED
    BY <1>2 DEF Weight

LEMMA SeenGrows ==
    ASSUME NEW p, Turns(p)
    PROVE  \A i \in 0 .. Len(p.cands) :
               Seen(p, i) \in Nat /\ \A j \in 0 .. i : Seen(p, j) + i - j <= Seen(p, i)
  <1> DEFINE n == Len(p.cands)
             Good(i) == Seen(p, i) \in Nat /\ \A j \in 0 .. i : Seen(p, j) + i - j <= Seen(p, i)
             Bad == {i \in 0 .. n : ~Good(i)}
  <1>1. p.cands \in Seq(Upstreams) /\ n \in Nat
    BY PlanFields DEF Turns
  <1>2. Seen(p, 0) = 0 /\ \A i \in 1 .. n : Seen(p, i) = Seen(p, i - 1) + Weight(p, p.cands[i])
    BY <1>1, SeenSteps
  <1> SUFFICES ASSUME Bad # {} PROVE FALSE
    OBVIOUS
  <1> HIDE DEF Good, n
  <1>3. PICK i \in Bad : \A k \in Bad : i <= k
    <2>1. Bad \in SUBSET Nat
      BY <1>1
    <2> HIDE DEF Bad
    <2> QED
      BY <2>1, Least
  <1>4. i # 0
    BY <1>2, <1>3 DEF Good
  <1>5. i - 1 \in 0 .. n /\ ~ (i <= i - 1) /\ i \in 1 .. n
    BY <1>1, <1>4
  <1>6. Good(i - 1)
    BY <1>3, <1>5
  <1>7. Seen(p, i) = Seen(p, i - 1) + Weight(p, p.cands[i]) /\ Weight(p, p.cands[i]) \in Nat \ {0}
    BY <1>2, <1>5, WeightPositive
  <1>8. Good(i)
    <2>1. Seen(p, i) \in Nat /\ Seen(p, i - 1) \in Nat /\ Seen(p, i - 1) + 1 <= Seen(p, i)
      BY <1>6, <1>7 DEF Good
    <2>2. ASSUME NEW j \in 0 .. i
          PROVE  Seen(p, j) + i - j <= Seen(p, i)
      <3>1. CASE j = i
        BY <1>5, <2>1, <3>1
      <3>2. CASE j # i
        <4>1. j \in 0 .. i - 1
          BY <1>5, <3>2
        <4>2. Seen(p, j) + (i - 1) - j <= Seen(p, i - 1)
          BY <1>6, <4>1 DEF Good
        <4>3. Seen(p, j) \in Nat
          <5>1. CASE j = i - 1
            BY <2>1, <5>1
          <5>2. CASE j # i - 1
            <6>1. j \in 0 .. n /\ ~ (i <= j)
              BY <1>1, <1>5, <4>1
            <6>2. Good(j)
              BY <1>3, <6>1
            <6> QED
              BY <6>2 DEF Good
          <5> QED
            BY <5>1, <5>2
        <4> QED
          BY <1>5, <2>1, <4>1, <4>2, <4>3
      <3> QED
        BY <3>1, <3>2
    <2> QED
      BY <2>1, <2>2 DEF Good
  <1> QED
    BY <1>8

\* The turn falls to one candidate, the one in whose share the cursor is.
LEMMA SelectedIs ==
    ASSUME NEW p, Turns(p), cursor \in Nat
    PROVE  /\ Total(p) \in Nat \ {0} /\ cursor % Total(p) \in 0 .. Total(p) - 1
           /\ Selected(p) \in 1 .. Len(p.cands)
           /\ Seen(p, Selected(p) - 1) <= cursor % Total(p)
           /\ cursor % Total(p) < Seen(p, Selected(p))
  <1> DEFINE n == Len(p.cands)
             c == cursor % Total(p)
             Above == {i \in 1 .. n : c < Seen(p, i)}
             Chosen1(i) == c < Seen(p, i) /\ \A j \in 1 .. i - 1 : c >= Seen(p, j)
  <1>1. n \in Nat /\ n > 1 /\ DOMAIN p.cands = 1 .. n /\ p.cands \in Seq(Upstreams)
    BY PlanFields DEF Turns
  <1>2. \A i \in 0 .. n : Seen(p, i) \in Nat /\ \A j \in 0 .. i : Seen(p, j) + i - j <= Seen(p, i)
    BY SeenGrows
  <1>3. Seen(p, 0) = 0
    BY <1>1, SeenSteps
  <1>4. Total(p) = Seen(p, n) /\ Total(p) \in Nat \ {0}
    <2>1. n \in 0 .. n /\ 0 \in 0 .. n
      BY <1>1
    <2>2. Seen(p, n) \in Nat /\ Seen(p, 0) + n - 0 <= Seen(p, n)
      BY <1>2, <2>1
    <2> QED
      BY <1>1, <1>3, <2>2 DEF Total
  <1>5. c \in 0 .. Total(p) - 1
    BY <1>4
  <1> HIDE DEF n, c
  <1>6. PICK i \in 1 .. n : Chosen1(i)
    <2>1. n \in Above
      BY <1>1, <1>4, <1>5
    <2>2. PICK i \in Above : \A k \in Above : i <= k
      <3>1. Above \in SUBSET Nat
        BY <1>1
      <3> HIDE DEF Above
      <3> QED
        BY <2>1, <3>1, Least
    <2>3. ASSUME NEW j \in 1 .. i - 1
          PROVE  c >= Seen(p, j)
      <3>1. j \in 1 .. n /\ ~ (i <= j)
        BY <1>1, <2>2
      <3>2. ~ (c < Seen(p, j))
        BY <2>2, <3>1
      <3>3. Seen(p, j) \in Nat /\ c \in Nat
        <4>1. j \in 0 .. n
          BY <1>1, <3>1
        <4> QED
          BY <1>2, <1>4, <1>5, <4>1
      <3> QED
        BY <3>2, <3>3
    <2> QED
      BY <2>2, <2>3
  <1>7. Selected(p) \in 1 .. n /\ Chosen1(Selected(p))
    <2>1. Selected(p) = CHOOSE k \in 1 .. n : Chosen1(k)
      BY <1>1 DEF Selected, c
    <2> HIDE DEF Chosen1
    <2> QED
      BY <1>6, <2>1
  <1>8. Seen(p, Selected(p) - 1) <= c
    <2>1. CASE Selected(p) = 1
      BY <1>3, <1>4, <1>5, <2>1
    <2>2. CASE Selected(p) # 1
      <3>1. Selected(p) - 1 \in 1 .. Selected(p) - 1
        BY <1>1, <1>7, <2>2
      <3>2. Selected(p) - 1 \in 0 .. n
        BY <1>1, <1>7
      <3> QED
        BY <1>2, <1>4, <1>5, <1>7, <3>1, <3>2
    <2> QED
      BY <2>1, <2>2
  <1> QED
    BY <1>4, <1>5, <1>7, <1>8 DEF n, c

-----------------------------------------------------------------------------
(* The order of upstreams.                                                 *)

\* What a request may try of its own: its candidates and its canary.
Own(q) == ToSet(q.cands) \cup ({q.canary} \ {NoCanary})

\* A list of just these, before the fallbacks are added.
IsOrder(q, order) ==
    /\ order \in Seq(Upstreams) /\ IsInjective(order) /\ order # <<>>
    /\ ToSet(order) = Own(q)
    /\ q.canary # NoCanary => order[1] = q.canary

LEMMA RequestFields ==
    ASSUME NEW q \in Requests
    PROVE  /\ q.cands \in Seq(Upstreams) /\ q.cands # <<>> /\ IsInjective(q.cands)
           /\ q.fallback \in Seq(Upstreams)
           /\ q.canary \in Upstreams \cup {NoCanary}
           /\ Plan(q) \in Plans /\ Plan(q).cands = q.cands
           /\ Plan(q).strategy = q.strategy
  <1>1. q \in Request /\ q.cands # <<>> /\ IsInjective(q.cands)
    BY RequestsAssumption
  <1>2. Plan(q) \in Plans /\ Plan(q).cands = q.cands /\ Plan(q).strategy = q.strategy
    BY DEF Plan, Plans
  <1> QED
    BY <1>1, <1>2 DEF Request

LEMMA CanaryOrder ==
    ASSUME NEW q \in Requests, q.canary # NoCanary
    PROVE  IsOrder(q, AppendUpstreams(<<q.canary>>, q.cands))
  <1> DEFINE c == <<q.canary>>
             t == AppendUpstreams(c, q.cands)
  <1>1. q.canary \in Upstreams /\ q.cands \in Seq(Upstreams)
    BY RequestFields
  <1>2. /\ c \in Seq(Upstreams) /\ c # <<>> /\ IsInjective(c) /\ Len(c) = 1 /\ c[1] = q.canary
        /\ ToSet(c) = {q.canary}
    BY <1>1 DEF IsInjective, ToSet
  <1> HIDE DEF c
  <1>3. /\ t \in Seq(Upstreams) /\ IsInjective(t) /\ t # <<>>
        /\ ToSet(t) = ToSet(c) \cup ToSet(q.cands)
        /\ \A k \in 1 .. Len(c) : t[k] = c[k]
    BY <1>1, <1>2, Appended
  <1> HIDE DEF t
  <1>4. t[1] = q.canary
    BY <1>2, <1>3
  <1>5. ToSet(t) = Own(q)
    BY <1>2, <1>3 DEF Own
  <1> QED
    BY <1>3, <1>4, <1>5 DEF IsOrder, t, c

LEMMA DeclaredOrder ==
    ASSUME NEW q \in Requests, q.canary = NoCanary
    PROVE  IsOrder(q, q.cands)
  BY RequestFields DEF IsOrder, Own

LEMMA TurnedOrder ==
    ASSUME NEW q \in Requests, q.canary = NoCanary, NEW i \in 1 .. Len(q.cands)
    PROVE  IsOrder(q, Rotated(q.cands, i))
  BY RequestFields, TurnedList DEF IsOrder, Own

\* As many upstreams as the list is long.
LEMMA OrderLength ==
    ASSUME NEW q, NEW order, IsOrder(q, order)
    PROVE  Cardinality(Own(q)) = Len(order) /\ Len(order) \in Nat
  <1> DEFINE n == Len(order)
  <1>1. n \in Nat /\ DOMAIN order = 1 .. n
    BY LenProperties DEF IsOrder
  <1>2. order = [i \in 1 .. n |-> order[i]] /\ Own(q) = {order[i] : i \in 1 .. n}
    BY <1>1 DEF IsOrder, ToSet
  <1> HIDE DEF n
  <1>3. order \in [1 .. n -> Own(q)]
    BY <1>2
  <1>4. order \in Bijection(1 .. n, Own(q))
    BY <1>1, <1>2, <1>3 DEF IsOrder, Bijection, Injection, Surjection, IsInjective
  <1>5. IsFiniteSet(1 .. n) /\ Cardinality(1 .. n) = n
    <2>1. \A m \in Nat : IsFiniteSet(1 .. m) /\ Cardinality(1 .. m) = m
      BY FS_Interval
    <2> QED
      BY <1>1, <2>1
  <1>6. ExistsBijection(1 .. n, Own(q))
    BY <1>4 DEF ExistsBijection
  <1> QED
    BY <1>1, <1>5, <1>6, FS_Bijection DEF n

TriedOnce(q, tries) ==
    /\ tries \in Seq(Upstreams)
    /\ IsInjective(tries)
    /\ ToSet(tries) = Own(q) \cup ToSet(q.fallback)
    /\ ToSet(SubSeq(tries, 1, Cardinality(Own(q)))) = Own(q)
    /\ q.canary # NoCanary => tries[1] = q.canary

LEMMA OrderTried ==
    ASSUME NEW q \in Requests, NEW order, IsOrder(q, order)
    PROVE  TriedOnce(q, AppendUpstreams(order, q.fallback))
  <1> DEFINE t == AppendUpstreams(order, q.fallback)
             n == Len(order)
             own == SubSeq(t, 1, n)
  <1>1. order \in Seq(Upstreams) /\ q.fallback \in Seq(Upstreams)
    BY RequestFields DEF IsOrder
  <1>2. n \in Nat /\ Cardinality(Own(q)) = n /\ n # 0 /\ DOMAIN order = 1 .. n
    BY OrderLength, EmptySeq, LenProperties DEF IsOrder
  <1>3. /\ t \in Seq(Upstreams) /\ IsInjective(t)
        /\ ToSet(t) = ToSet(order) \cup ToSet(q.fallback)
        /\ n <= Len(t) /\ \A k \in 1 .. n : t[k] = order[k]
    BY <1>1, Appended DEF IsOrder
  <1> HIDE DEF t, n
  <1>4. t[1] = order[1]
    <2>1. 1 \in 1 .. n
      BY <1>2
    <2> QED
      BY <1>3, <2>1
  <1>5. ToSet(own) = ToSet(order)
    <2>1. \A k \in 1 .. n : t[k] \in Upstreams
      <3>1. \A k \in 1 .. n : order[k] \in Upstreams
        BY <1>1, ElementOfSeq DEF n
      <3> QED
        BY <1>3, <3>1
    <2>2. /\ own \in Seq(Upstreams) /\ Len(own) = IF 1 <= n THEN n - 1 + 1 ELSE 0
          /\ \A k \in 1 .. n - 1 + 1 : own[k] = t[1 + k - 1]
      BY <1>2, <2>1, SubSeqProperties
    <2>3. Len(own) = n /\ \A k \in 1 .. n : own[k] = order[k]
      BY <1>2, <1>3, <2>2
    <2>4. DOMAIN own = 1 .. n
      BY <2>2, <2>3, LenProperties
    <2> HIDE DEF own
    <2> QED
      BY <1>2, <2>3, <2>4 DEF ToSet
  <1> QED
    BY <1>2, <1>3, <1>4, <1>5 DEF IsOrder, TriedOnce, t

-----------------------------------------------------------------------------
(* The shares.                                                             *)

\* All turns so far were those of one plan.
Sole(p) == \A o \in Plans \ {p} : \A u \in DOMAIN first[o] : first[o][u] = 0

\* Of r turns of a cycle, those that fall to candidate i.
Within(p, i, r) ==
    IF r <= Seen(p, i - 1) THEN 0
    ELSE IF r <= Seen(p, i) THEN r - Seen(p, i - 1)
    ELSE Weight(p, p.cands[i])

\* After n cycles and r turns.
Shared(p, n, r) ==
    /\ cursor = n * Total(p) + r /\ r < Total(p)
    /\ \A i \in 1 .. Len(p.cands) :
           first[p][p.cands[i]] = n * Weight(p, p.cands[i]) + Within(p, i, r)

InShares(p) == \E n, r \in Nat : Shared(p, n, r)

\* A request that was resolved, as it is remembered.
Remembered ==
    last # <<>> =>
        /\ Len(last) = 1 /\ last[1].req \in Requests
        /\ TriedOnce(last[1].req, last[1].tries)

SelectionInv ==
    /\ cursor \in 0 .. MaxDraws
    /\ first = [p \in Plans |-> first[p]]
    /\ \A p \in Plans : first[p] \in [ToSet(p.cands) -> 0 .. cursor]
    /\ Remembered
    /\ \A p \in Plans : Turns(p) /\ Sole(p) => InShares(p)

\* The facts about weights that a turn needs.
LEMMA CandidateWeights ==
    ASSUME NEW p, Turns(p)
    PROVE  /\ Total(p) = Seen(p, Len(p.cands)) /\ Seen(p, 0) = 0 /\ Total(p) \in Nat \ {0}
           /\ \A i \in 0 .. Len(p.cands) : Seen(p, i) \in Nat
           /\ \A i \in 1 .. Len(p.cands) :
                  /\ Weight(p, p.cands[i]) \in Nat \ {0}
                  /\ Seen(p, i) = Seen(p, i - 1) + Weight(p, p.cands[i])
           /\ \A i \in 0 .. Len(p.cands) : \A j \in 0 .. i : Seen(p, j) <= Seen(p, i)
  <1> DEFINE n == Len(p.cands)
  <1>1. p.cands \in Seq(Upstreams) /\ n \in Nat /\ n > 1
    BY PlanFields DEF Turns
  <1> HIDE DEF n
  <1>2. \A i \in 0 .. n : Seen(p, i) \in Nat /\ \A j \in 0 .. i : Seen(p, j) + i - j <= Seen(p, i)
    BY SeenGrows DEF n
  <1>3. \A i \in 0 .. n : \A j \in 0 .. i : Seen(p, j) <= Seen(p, i)
    <2> SUFFICES ASSUME NEW i \in 0 .. n, NEW j \in 0 .. i PROVE Seen(p, j) <= Seen(p, i)
      OBVIOUS
    <2>1. j \in 0 .. n
      BY <1>1
    <2>2. Seen(p, j) \in Nat /\ Seen(p, i) \in Nat /\ Seen(p, j) + i - j <= Seen(p, i)
      BY <1>2, <2>1
    <2> QED
      BY <1>1, <2>2
  <1>4. Total(p) \in Nat \ {0}
    <2>1. n \in 0 .. n /\ 0 \in 0 .. n
      BY <1>1
    <2>2. Seen(p, n) \in Nat /\ Seen(p, 0) + n - 0 <= Seen(p, n) /\ Seen(p, 0) \in Nat
      BY <1>2, <2>1
    <2> QED
      BY <1>1, <2>2 DEF Total, n
  <1> QED
    BY <1>1, <1>2, <1>3, <1>4, SeenSteps, WeightPositive DEF Total, n

\* One more turn falls to the candidate in whose share the cursor is.
LEMMA WithinNext ==
    ASSUME NEW p, Turns(p), NEW r \in 0 .. Total(p) - 1,
           NEW s \in 1 .. Len(p.cands), Seen(p, s - 1) <= r, r < Seen(p, s),
           NEW i \in 1 .. Len(p.cands)
    PROVE  /\ Within(p, i, r) \in Nat
           /\ Within(p, i, r + 1) = Within(p, i, r) + (IF i = s THEN 1 ELSE 0)
           /\ r + 1 = Total(p) => Within(p, i, r + 1) = Weight(p, p.cands[i])
  <1> DEFINE n == Len(p.cands)
             before == Seen(p, i - 1)
             after == Seen(p, i)
             w == Weight(p, p.cands[i])
  <1>1. n \in Nat
    BY PlanFields DEF Turns
  <1>2. i - 1 \in 0 .. n /\ i \in 0 .. n /\ s - 1 \in 0 .. n /\ s \in 0 .. n /\ n \in 0 .. n
    BY <1>1
  <1>3. /\ before \in Nat /\ after \in Nat /\ w \in Nat \ {0} /\ after = before + w
        /\ Seen(p, s - 1) \in Nat /\ Seen(p, s) \in Nat
        /\ after <= Total(p) /\ Total(p) \in Nat
    <2>1. /\ \A k \in 0 .. n : Seen(p, k) \in Nat
          /\ w \in Nat \ {0} /\ after = before + w
          /\ Total(p) = Seen(p, n)
      BY CandidateWeights
    <2>2. after <= Seen(p, n)
      <3>1. i \in 0 .. n
        BY <1>2
      <3> QED
        BY <1>2, <3>1, CandidateWeights
    <2> QED
      BY <1>2, <2>1, <2>2
  <1>4. i = s => before <= r /\ r < after
    OBVIOUS
  <1>5. i < s => after <= r
    <2> SUFFICES ASSUME i < s PROVE after <= r
      OBVIOUS
    <2>1. i \in 0 .. s - 1
      BY <1>1
    <2>2. after <= Seen(p, s - 1)
      BY <1>2, <2>1, CandidateWeights
    <2> QED
      BY <1>3, <2>2
  <1>6. s < i => r < before
    <2> SUFFICES ASSUME s < i PROVE r < before
      OBVIOUS
    <2>1. s \in 0 .. i - 1
      BY <1>1
    <2>2. Seen(p, s) <= before
      BY <1>2, <2>1, CandidateWeights
    <2> QED
      BY <1>3, <2>2
  <1>7. i = s \/ i < s \/ s < i
    BY <1>1
  <1>8. r \in Nat
    BY <1>3
  <1>9. \A x : Within(p, i, x) =
                   IF x <= before THEN 0 ELSE IF x <= after THEN x - before ELSE w
    BY DEF Within
  <1> HIDE DEF n, before, after, w
  <1>10. CASE i = s
    <2>1. Within(p, i, r) = r - before
      BY <1>3, <1>4, <1>8, <1>9, <1>10
    <2>2. Within(p, i, r + 1) = r + 1 - before
      BY <1>3, <1>4, <1>8, <1>9, <1>10
    <2>3. r + 1 = Total(p) => r + 1 - before = w
      BY <1>3, <1>4, <1>8, <1>10
    <2>4. r - before \in Nat /\ r + 1 - before = (r - before) + 1
      BY <1>3, <1>4, <1>8, <1>10
    <2> HIDE DEF Within
    <2> QED
      BY <1>10, <2>1, <2>2, <2>3, <2>4 DEF w
  <1>11. CASE i < s
    <2>1. Within(p, i, r) = w /\ Within(p, i, r + 1) = w
      BY <1>3, <1>5, <1>8, <1>9, <1>11
    <2> QED
      BY <1>1, <1>3, <1>11, <2>1 DEF w
  <1>12. CASE s < i
    <2>1. Within(p, i, r) = 0 /\ Within(p, i, r + 1) = 0 /\ r + 1 < Total(p)
      BY <1>3, <1>6, <1>8, <1>9, <1>12
    <2> QED
      BY <1>1, <1>12, <2>1
  <1> QED
    BY <1>7, <1>10, <1>11, <1>12

\* What is left of a division is what is left.
LEMMA Remainder ==
    ASSUME NEW n \in Nat, NEW t \in Nat \ {0}, NEW r \in 0 .. t - 1
    PROVE  (n * t + r) % t = r
  <1> DEFINE c == n * t + r
             q == c \div t
             m == c % t
  <1>1. c \in Nat /\ n * t \in Nat
    OBVIOUS
  <1>2. q \in Int /\ m \in 0 .. t - 1 /\ c = t * q + m
    BY <1>1
  <1> HIDE DEF q, m
  <1>3. q = n
    <2>1. CASE q <= n - 1
      <3>1. t * q <= t * (n - 1)
        BY <1>2, <2>1
      <3>2. t * (n - 1) = n * t - t
        OBVIOUS
      <3> QED
        BY <1>1, <1>2, <3>1, <3>2
    <2>2. CASE q >= n + 1
      <3>1. t * q >= t * (n + 1)
        BY <1>2, <2>2
      <3>2. t * (n + 1) = n * t + t
        OBVIOUS
      <3> QED
        BY <1>1, <1>2, <3>1, <3>2
    <2> QED
      BY <1>2, <2>1, <2>2
  <1>4. t * n = n * t
    OBVIOUS
  <1>5. m = r
    BY <1>1, <1>2, <1>3, <1>4
  <1> QED
    BY <1>5 DEF m

LEMMA NoneWithin ==
    ASSUME NEW p, Turns(p), NEW i \in 1 .. Len(p.cands)
    PROVE  Within(p, i, 0) = 0
  <1>1. Len(p.cands) \in Nat
    BY PlanFields DEF Turns
  <1>2. i - 1 \in 0 .. Len(p.cands)
    BY <1>1
  <1>3. Seen(p, i - 1) \in Nat
    BY <1>2, CandidateWeights
  <1>4. \A x : x <= Seen(p, i - 1) => Within(p, i, x) = 0
    BY DEF Within
  <1>5. 0 <= Seen(p, i - 1)
    BY <1>3
  <1> QED
    BY <1>4, <1>5

LEMMA TurnShared ==
    ASSUME NEW p, Turns(p), InShares(p), cursor \in Nat,
           first[p] \in [ToSet(p.cands) -> Nat],
           cursor' = cursor + 1,
           first'[p] = [first[p] EXCEPT ![p.cands[Selected(p)]] = @ + 1]
    PROVE  InShares(p)'
  <1> DEFINE s == Selected(p)
             c == p.cands
             t == Total(p)
  <1>1. PICK n \in Nat, r \in Nat : Shared(p, n, r)
    BY DEF InShares
  <1>2. /\ t \in Nat \ {0} /\ s \in 1 .. Len(c)
        /\ Seen(p, s - 1) <= cursor % t /\ cursor % t < Seen(p, s)
    BY SelectedIs
  <1>3. r \in 0 .. t - 1 /\ cursor = n * t + r
    BY <1>1, <1>2 DEF Shared
  <1>4. cursor % t = r
    BY <1>2, <1>3, Remainder
  <1> HIDE DEF s, t
  <1>5. ASSUME NEW i \in 1 .. Len(c)
        PROVE  /\ Within(p, i, r) \in Nat
               /\ Within(p, i, r + 1) = Within(p, i, r) + (IF i = s THEN 1 ELSE 0)
               /\ r + 1 = t => Within(p, i, r + 1) = Weight(p, c[i])
    <2>1. Seen(p, s - 1) <= r /\ r < Seen(p, s) /\ r \in 0 .. Total(p) - 1
      BY <1>2, <1>3, <1>4 DEF t
    <2>2. s \in 1 .. Len(p.cands) /\ i \in 1 .. Len(p.cands)
      BY <1>2
    <2> HIDE DEF c
    <2>3. /\ Within(p, i, r) \in Nat
          /\ Within(p, i, r + 1) = Within(p, i, r) + (IF i = s THEN 1 ELSE 0)
          /\ r + 1 = Total(p) => Within(p, i, r + 1) = Weight(p, p.cands[i])
      BY <2>1, <2>2, WithinNext
    <2> QED
      BY <2>3 DEF t, c
  <1>6. ASSUME NEW i \in 1 .. Len(c)
        PROVE  first'[p][c[i]] = first[p][c[i]] + (IF i = s THEN 1 ELSE 0)
    <2>1. /\ IsInjective(c) /\ DOMAIN c = 1 .. Len(c)
          /\ c[i] \in ToSet(c) /\ c[s] \in ToSet(c)
      <3>1. p \in Plans
        BY DEF Turns
      <3>2. /\ IsInjective(p.cands) /\ DOMAIN p.cands = 1 .. Len(p.cands)
            /\ ToSet(p.cands) = {p.cands[k] : k \in 1 .. Len(p.cands)}
        BY <3>1, PlanFields
      <3> QED
        BY <1>2, <3>2
    <2>2. first'[p] = [first[p] EXCEPT ![c[s]] = first[p][c[s]] + 1]
      BY DEF s
    <2>3. CASE i = s
      BY <2>1, <2>2, <2>3
    <2>4. CASE i # s
      <3>1. c[i] # c[s]
        BY <1>2, <2>1, <2>4 DEF IsInjective
      <3>2. first[p][c[i]] \in Nat
        BY <2>1
      <3> QED
        BY <2>1, <2>2, <2>4, <3>1, <3>2
    <2> QED
      BY <2>3, <2>4
  <1>7. \A i \in 1 .. Len(c) : Weight(p, c[i]) \in Nat \ {0}
    BY WeightPositive
  <1>8. \A i \in 1 .. Len(c) : first[p][c[i]] = n * Weight(p, c[i]) + Within(p, i, r)
    BY <1>1 DEF Shared
  <1>9. CASE r + 1 < t
    <2>1. cursor' = n * t + (r + 1) /\ r + 1 \in Nat
      BY <1>2, <1>3
    <2>2. ASSUME NEW i \in 1 .. Len(c)
          PROVE  first'[p][c[i]] = n * Weight(p, c[i]) + Within(p, i, r + 1)
      <3> DEFINE w == n * Weight(p, c[i])
                 d == IF i = s THEN 1 ELSE 0
                 x == Within(p, i, r)
                 y == Within(p, i, r + 1)
      <3>1. w \in Nat /\ d \in Nat /\ x \in Nat
        BY <1>5, <1>7
      <3>2. y = x + d /\ first'[p][c[i]] = (w + x) + d
        BY <1>5, <1>6, <1>8
      <3> HIDE DEF w, d, x, y
      <3>3. first'[p][c[i]] = w + y
        BY <3>1, <3>2
      <3> QED
        BY <3>3 DEF w, y
    <2>3. Shared(p, n, r + 1)'
      BY <1>9, <2>1, <2>2 DEF Shared, t
    <2> QED
      BY <2>1, <2>3 DEF InShares
  <1>10. CASE r + 1 = t
    <2>1. cursor' = (n + 1) * t + 0 /\ n + 1 \in Nat /\ 0 < t
      BY <1>2, <1>3, <1>10
    <2>2. ASSUME NEW i \in 1 .. Len(c)
          PROVE  first'[p][c[i]] = (n + 1) * Weight(p, c[i]) + Within(p, i, 0)
      <3> DEFINE v == Weight(p, c[i])
                 d == IF i = s THEN 1 ELSE 0
                 x == Within(p, i, r)
      <3>1. v \in Nat /\ d \in Nat /\ x \in Nat
        BY <1>5, <1>7
      <3>2. v = x + d /\ first'[p][c[i]] = (n * v + x) + d
        BY <1>5, <1>6, <1>8, <1>10
      <3>3. Within(p, i, 0) = 0
        BY NoneWithin
      <3> HIDE DEF v, d, x
      <3>4. first'[p][c[i]] = (n + 1) * v + 0
        BY <3>1, <3>2
      <3> QED
        BY <3>3, <3>4 DEF v
    <2>3. Shared(p, n + 1, 0)'
      BY <2>1, <2>2 DEF Shared, t
    <2> QED
      BY <2>1, <2>3 DEF InShares
  <1> QED
    BY <1>2, <1>3, <1>9, <1>10

-----------------------------------------------------------------------------
(* The steps.                                                              *)

LEMMA InitSelection == SelectionInit => SelectionInv
  <1> SUFFICES ASSUME SelectionInit PROVE SelectionInv
    OBVIOUS
  <1>1. cursor = 0 /\ first = [p \in Plans |-> [u \in ToSet(p.cands) |-> 0]] /\ last = <<>>
    BY DEF SelectionInit
  <1>2. cursor \in 0 .. MaxDraws
    BY <1>1, BoundsAssumption
  <1>3. first = [p \in Plans |-> first[p]]
    BY <1>1
  <1>4. \A p \in Plans : first[p] \in [ToSet(p.cands) -> 0 .. cursor]
    BY <1>1
  <1>5. ASSUME NEW p \in Plans, Turns(p)
        PROVE  InShares(p)
    <2>1. Total(p) \in Nat \ {0}
      BY <1>5, CandidateWeights
    <2>2. cursor = 0 * Total(p) + 0 /\ 0 < Total(p)
      BY <1>1, <2>1
    <2>3. ASSUME NEW i \in 1 .. Len(p.cands)
          PROVE  first[p][p.cands[i]] = 0 * Weight(p, p.cands[i]) + Within(p, i, 0)
      <3>1. p.cands[i] \in ToSet(p.cands)
        BY PlanFields
      <3>2. first[p][p.cands[i]] = 0
        BY <1>1, <3>1
      <3>3. Within(p, i, 0) = 0
        BY <1>5, NoneWithin
      <3>4. Weight(p, p.cands[i]) \in Nat
        BY <1>5, WeightPositive
      <3> QED
        BY <3>2, <3>3, <3>4
    <2>4. Shared(p, 0, 0)
      BY <2>2, <2>3 DEF Shared
    <2> QED
      BY <2>4 DEF InShares
  <1>6. Remembered
    BY <1>1 DEF Remembered
  <1> QED
    BY <1>2, <1>3, <1>4, <1>5, <1>6 DEF SelectionInv

LEMMA ResolvedRemembered ==
    ASSUME NEW q \in Requests, NEW order, IsOrder(q, order), Resolved(q, order)
    PROVE  Remembered'
  <1> DEFINE e == [req |-> q, tries |-> AppendUpstreams(order, q.fallback)]
  <1>1. TriedOnce(q, AppendUpstreams(order, q.fallback))
    BY OrderTried
  <1>2. last' = <<e>> /\ e.req = q /\ e.tries = AppendUpstreams(order, q.fallback)
    BY DEF Resolved
  <1> HIDE DEF e
  <1>3. Len(last') = 1 /\ last'[1] = e
    BY <1>2
  <1>4. TriedOnce(last'[1].req, last'[1].tries)
    BY <1>1, <1>2, <1>3
  <1> QED
    BY <1>2, <1>3, <1>4 DEF Remembered, TriedOnce, Own

\* A step that draws no turn.
LEMMA SameShares ==
    ASSUME SelectionInv, UNCHANGED <<cursor, first>>, Remembered'
    PROVE  SelectionInv'
  <1>1. \A p \in Plans : (Sole(p)' <=> Sole(p)) /\ (InShares(p)' <=> InShares(p))
    BY DEF Sole, InShares, Shared
  <1> QED
    BY <1>1 DEF SelectionInv

LEMMA TurnKeeps ==
    ASSUME SelectionInv, NEW q \in Requests, TakeTurn(q)
    PROVE  SelectionInv'
  <1> DEFINE p == Plan(q)
             s == Selected(p)
             u == q.cands[s]
  <1>1. Turns(p) /\ p \in Plans /\ p.cands = q.cands
    <2>1. Rotates(q) /\ ~Refused(q)
      BY DEF TakeTurn
    <2>2. WeightsValid(p) <=> WeightsValid(q)
      BY DEF WeightsValid, Plan
    <2> HIDE DEF p
    <2> QED
      BY <2>1, <2>2, RequestFields DEF p, Rotates, Refused, Turns
  <1>2. /\ cursor \in 0 .. MaxDraws /\ cursor < MaxDraws /\ cursor' = cursor + 1
        /\ Resolved(q, Rotated(q.cands, s))
        /\ first' = [first EXCEPT ![p] = [first[p] EXCEPT ![u] = first[p][u] + 1]]
    BY DEF TakeTurn, SelectionInv
  <1> HIDE DEF p
  <1>3. cursor \in Nat /\ cursor + 1 \in 0 .. MaxDraws
    BY <1>2, BoundsAssumption
  <1>4. s \in 1 .. Len(q.cands)
    BY <1>1, <1>3, SelectedIs
  <1> HIDE DEF s
  <1>5. u \in ToSet(p.cands)
    BY <1>1, <1>4, PlanFields
  <1> HIDE DEF u
  <1>6. /\ first = [o \in Plans |-> first[o]]
        /\ \A o \in Plans : first[o] \in [ToSet(o.cands) -> 0 .. cursor]
    BY DEF SelectionInv
  <1>7. /\ first' = [o \in Plans |-> first'[o]]
        /\ first'[p] = [first[p] EXCEPT ![u] = first[p][u] + 1]
        /\ \A o \in Plans \ {p} : first'[o] = first[o]
    <2>1. first' = [o \in Plans |-> IF o = p THEN [first[p] EXCEPT ![u] = first[p][u] + 1]
                                             ELSE first[o]]
      BY <1>1, <1>2, <1>6
    <2> QED
      BY <1>1, <2>1
  <1>8. ASSUME NEW o \in Plans
        PROVE  first'[o] \in [ToSet(o.cands) -> 0 .. cursor']
    <2>1. CASE o = p
      <3>1. first[p] \in [ToSet(p.cands) -> 0 .. cursor]
        BY <1>1, <1>6
      <3>2. first[p][u] + 1 \in 0 .. cursor' /\ \A v \in ToSet(p.cands) : first[p][v] \in 0 .. cursor'
        BY <1>2, <1>3, <1>5, <3>1
      <3> QED
        BY <1>7, <2>1, <3>1, <3>2
    <2>2. CASE o # p
      <3>1. first[o] \in [ToSet(o.cands) -> 0 .. cursor]
        BY <1>6
      <3>2. 0 .. cursor \subseteq 0 .. cursor'
        BY <1>2, <1>3
      <3> QED
        BY <1>7, <2>2, <3>1, <3>2
    <2> QED
      BY <2>1, <2>2
  <1>9. ASSUME NEW o \in Plans, Turns(o), Sole(o)'
        PROVE  InShares(o)'
    <2>1. first'[p][u] # 0
      <3>1. first[p] \in [ToSet(p.cands) -> 0 .. cursor]
        BY <1>1, <1>6
      <3>2. first'[p][u] = first[p][u] + 1 /\ first[p][u] \in Nat
        BY <1>3, <1>5, <1>7, <3>1
      <3> QED
        BY <3>2
    <2>2. u \in DOMAIN first'[p]
      BY <1>1, <1>5, <1>8
    <2>3. o = p
      BY <1>1, <1>9, <2>1, <2>2 DEF Sole
    <2>4. Sole(p)
      BY <1>7, <1>9, <2>3 DEF Sole
    <2>5. InShares(p)
      BY <1>1, <2>4 DEF SelectionInv
    <2>6. first[p] \in [ToSet(p.cands) -> Nat]
      <3>1. 0 .. cursor \subseteq Nat
        BY <1>3
      <3> QED
        BY <1>1, <1>6, <3>1
    <2>7. InShares(p)'
      BY <1>1, <1>2, <1>3, <1>7, <2>5, <2>6, TurnShared DEF u, s
    <2> QED
      BY <2>3, <2>7
  <1>10. Remembered'
    <2>1. q.canary = NoCanary
      BY DEF TakeTurn, Rotates
    <2>2. IsOrder(q, Rotated(q.cands, s))
      BY <1>4, <2>1, TurnedOrder
    <2> QED
      BY <1>2, <2>2, ResolvedRemembered
  <1>11. cursor' \in 0 .. MaxDraws
    BY <1>2, <1>3
  <1> QED
    BY <1>7, <1>8, <1>9, <1>10, <1>11 DEF SelectionInv

LEMMA SelectKeeps ==
    ASSUME SelectionInv, NEW q \in Requests, Select(q)
    PROVE  SelectionInv'
  <1>1. CASE CanaryFirst(q)
    <2>1. Remembered' /\ UNCHANGED <<cursor, first>>
      BY <1>1, CanaryOrder, ResolvedRemembered DEF CanaryFirst
    <2> QED
      BY <2>1, SameShares
  <1>2. CASE AsDeclared(q)
    <2>1. Remembered' /\ UNCHANGED <<cursor, first>>
      BY <1>2, DeclaredOrder, ResolvedRemembered DEF AsDeclared
    <2> QED
      BY <2>1, SameShares
  <1>3. CASE TakeTurn(q)
    BY <1>3, TurnKeeps
  <1>4. CASE Refuse(q)
    <2>1. Remembered' /\ UNCHANGED <<cursor, first>>
      BY <1>4 DEF Refuse, Remembered
    <2> QED
      BY <2>1, SameShares
  <1> QED
    BY <1>1, <1>2, <1>3, <1>4 DEF Select

LEMMA ServeKeeps ==
    ASSUME SelectionInv, NEW o, NEW cands, Serve(o, cands),
           Usable(o, cands) => ToSelect(o, cands) \in Requests
    PROVE  SelectionInv'
  <1>1. CASE Usable(o, cands)
    <2>1. ToSelect(o, cands) \in Requests /\ Select(ToSelect(o, cands))
      BY <1>1 DEF Serve
    <2> QED
      BY <2>1, SelectKeeps
  <1>2. CASE ~Usable(o, cands)
    <2>1. Remembered' /\ UNCHANGED <<cursor, first>>
      BY <1>2 DEF Serve, Remembered
    <2> QED
      BY <2>1, SameShares
  <1> QED
    BY <1>1, <1>2


-----------------------------------------------------------------------------
(* Distinct patterns.                                                      *)

Distinct(list) ==
    backend = "postgres" =>
        \A i, j \in DOMAIN list : list[i].form.pattern = list[j].form.pattern => i = j

LEMMA RemovedDistinct ==
    ASSUME NEW s \in Seq(Route), NEW i \in DOMAIN s, Distinct(s)
    PROVE  /\ RemoveAt(s, i) \in Seq(Route)
           /\ Distinct(RemoveAt(s, i))
           /\ PatternFree(RemoveAt(s, i), s[i].form)
           /\ i \in 1 .. Len(RemoveAt(s, i)) + 1
  <1> DEFINE t == RemoveAt(s, i)
  <1>1. Len(s) \in Nat /\ DOMAIN s = 1 .. Len(s) /\ i \in 1 .. Len(s)
    BY LenProperties
  <1>2. /\ t \in Seq(Route) /\ Len(t) = Len(s) - 1
        /\ \A k \in 1 .. Len(s) - 1 : t[k] = IF k < i THEN s[k] ELSE s[k + 1]
    BY <1>1, RemoveAtElements
  <1>3. DOMAIN t = 1 .. Len(s) - 1
    BY <1>1, <1>2, LenProperties
  <1> HIDE DEF t
  <1>4. ASSUME NEW k \in DOMAIN t
        PROVE  \E m \in DOMAIN s : /\ t[k] = s[m] /\ m # i
                                   /\ m = IF k < i THEN k ELSE k + 1
    <2>1. CASE k < i
      BY <1>1, <1>2, <1>3, <2>1
    <2>2. CASE i <= k
      BY <1>1, <1>2, <1>3, <2>2
    <2>3. k < i \/ i <= k
      BY <1>1, <1>3
    <2> QED
      BY <2>1, <2>2, <2>3
  <1>5. PatternFree(t, s[i].form)
    BY <1>4 DEF PatternFree, Distinct
  <1>6. ASSUME backend = "postgres", NEW j \in DOMAIN t, NEW k \in DOMAIN t,
               t[j].form.pattern = t[k].form.pattern
        PROVE  j = k
    <2>1. PICK m \in DOMAIN s : t[j] = s[m] /\ m = IF j < i THEN j ELSE j + 1
      BY <1>4
    <2>2. PICK n \in DOMAIN s : t[k] = s[n] /\ n = IF k < i THEN k ELSE k + 1
      BY <1>4
    <2>3. m = n
      BY <1>6, <2>1, <2>2 DEF Distinct
    <2> QED
      BY <1>1, <1>3, <2>1, <2>2, <2>3
  <1>7. Distinct(t)
    BY <1>6 DEF Distinct
  <1>8. i \in 1 .. Len(t) + 1
    BY <1>1, <1>2
  <1> QED
    BY <1>2, <1>5, <1>7, <1>8 DEF t

LEMMA ListedDistinct ==
    ASSUME NEW s \in Seq(Route), Distinct(s), NEW i \in 1 .. Len(s) + 1, NEW r \in Route,
           PatternFree(s, r.form), NEW list \in Listed(s, i, r)
    PROVE  Distinct(list)
  <1>1. Len(s) \in Nat /\ DOMAIN s = 1 .. Len(s)
    BY LenProperties
  <1>2. PICK j \in 1 .. Len(s) + 1 :
            /\ list \in Seq(Route)
            /\ DOMAIN list = 1 .. Len(s) + 1
            /\ \A k \in 1 .. Len(s) + 1 :
                   list[k] = IF k < j THEN s[k] ELSE IF k = j THEN r ELSE s[k - 1]
    BY <1>1, ListedAt, SMTT(60)
  <1>3. ASSUME NEW k \in DOMAIN list, k # j
        PROVE  \E m \in DOMAIN s : list[k] = s[m] /\ m = IF k < j THEN k ELSE k - 1
    <2>1. CASE k < j
      BY <1>1, <1>2, <2>1
    <2>2. CASE j < k
      BY <1>1, <1>2, <2>2
    <2>3. k < j \/ j < k
      BY <1>1, <1>2, <1>3
    <2> QED
      BY <2>1, <2>2, <2>3
  <1>4. j \in DOMAIN list /\ list[j] = r
    BY <1>1, <1>2
  <1>5. ASSUME backend = "postgres", NEW k \in DOMAIN list, NEW l \in DOMAIN list,
               list[k].form.pattern = list[l].form.pattern
        PROVE  k = l
    <2>1. CASE k = j \/ l = j
      BY <1>3, <1>4, <1>5, <2>1 DEF PatternFree
    <2>2. CASE k # j /\ l # j
      <3>1. PICK m \in DOMAIN s : list[k] = s[m] /\ m = IF k < j THEN k ELSE k - 1
        BY <1>3, <2>2
      <3>2. PICK n \in DOMAIN s : list[l] = s[n] /\ n = IF l < j THEN l ELSE l - 1
        BY <1>3, <2>2
      <3>3. m = n
        BY <1>5, <3>1, <3>2 DEF Distinct
      <3> QED
        BY <1>1, <1>2, <2>2, <3>1, <3>2, <3>3
    <2> QED
      BY <2>1, <2>2
  <1> QED
    BY <1>5 DEF Distinct

\* An operation on the registry keeps the patterns apart.
LEMMA RegistryStepsDistinct ==
    ASSUME RegistryInv, Distinct(routes), RegistrySteps
    PROVE  Distinct(routes)' /\ UNCHANGED backend /\ edits < MaxEdits /\ edits' = edits + 1
  <1>1. routes \in Seq(Route) /\ Len(routes) \in Nat
        /\ \A i \in DOMAIN routes : routes[i] \in Route
    BY LenProperties DEF RegistryInv, InOrder
  <1>2. ASSUME NEW list, UNCHANGED backend, routes' = list, Distinct(list)
        PROVE  Distinct(routes)'
    BY <1>2 DEF Distinct
  <1>3. ASSUME NEW id \in Ids, NEW f \in Forms, CreateRoute(id, f)
        PROVE  Distinct(routes)' /\ UNCHANGED backend /\ edits < MaxEdits /\ edits' = edits + 1
    <2> DEFINE r == [id |-> id, form |-> f, status |-> "Draft"]
    <2>1. r \in Route /\ PatternFree(routes, r.form)
      BY <1>3 DEF CreateRoute, Route
    <2>2. /\ routes' \in Listed(routes, 1, r) /\ UNCHANGED backend
          /\ edits < MaxEdits /\ edits' = edits + 1
      BY <1>3 DEF CreateRoute, Edited
    <2>3. 1 \in 1 .. Len(routes) + 1
      BY <1>1
    <2> HIDE DEF r
    <2>4. Distinct(routes')
      BY <1>1, <2>1, <2>2, <2>3, ListedDistinct
    <2> QED
      BY <1>2, <2>2, <2>4
  <1>4. ASSUME NEW i \in DOMAIN routes, NEW f \in Forms, UpdateRoute(i, f)
        PROVE  Distinct(routes)' /\ UNCHANGED backend /\ edits < MaxEdits /\ edits' = edits + 1
    <2> DEFINE r == [routes[i] EXCEPT !.form = f, !.status = "Draft"]
               rest == RemoveAt(routes, i)
    <2>1. r \in Route /\ r.form = f
      BY <1>1 DEF Route
    <2>2. /\ routes' \in Listed(rest, i, r) /\ UNCHANGED backend
          /\ PatternFree(rest, r.form) /\ edits < MaxEdits /\ edits' = edits + 1
      BY <1>4, <2>1 DEF UpdateRoute, Edited
    <2> HIDE DEF r, rest
    <2>3. rest \in Seq(Route) /\ Distinct(rest) /\ i \in 1 .. Len(rest) + 1
      BY <1>1, RemovedDistinct DEF rest
    <2>4. Distinct(routes')
      BY <2>1, <2>2, <2>3, ListedDistinct
    <2> QED
      BY <1>2, <2>2, <2>4
  <1>5. ASSUME NEW i \in DOMAIN routes, PublishRoute(i)
        PROVE  Distinct(routes)' /\ UNCHANGED backend /\ edits < MaxEdits /\ edits' = edits + 1
    <2> DEFINE r == [routes[i] EXCEPT !.status = "Active"]
               rest == RemoveAt(routes, i)
    <2>1. r \in Route /\ r.form = routes[i].form
      BY <1>1 DEF Route
    <2>2. /\ routes' \in Listed(rest, i, r) /\ UNCHANGED backend
          /\ edits < MaxEdits /\ edits' = edits + 1
      BY <1>5 DEF PublishRoute, Edited
    <2> HIDE DEF r, rest
    <2>3. /\ rest \in Seq(Route) /\ Distinct(rest) /\ PatternFree(rest, routes[i].form)
          /\ i \in 1 .. Len(rest) + 1
      BY <1>1, RemovedDistinct DEF rest
    <2>4. Distinct(routes')
      BY <2>1, <2>2, <2>3, ListedDistinct
    <2> QED
      BY <1>2, <2>2, <2>4
  <1> QED
    BY <1>3, <1>4, <1>5 DEF RegistrySteps

-----------------------------------------------------------------------------
(* Routing as a whole.                                                     *)

\* The registry is in order with distinct patterns, what a request went
\* through is remembered with its form, and the selection keeps its counts.
RoutingInv ==
    /\ SelectionInv
    /\ RegistryInv
    /\ backend \in DOMAIN Seeds
    /\ Distinct(routes)
    /\ edits \in 0 .. MaxEdits
    /\ via = NoRoute \/ via \in [id : Ids, form : Forms]

LEMMA InitRouting == Init => RoutingInv
  <1> SUFFICES ASSUME Init PROVE RoutingInv
    OBVIOUS
  <1>1. SelectionInit /\ via = NoRoute /\ edits = 0 /\ backend \in DOMAIN Seeds
        /\ routes \in Seeds[backend]
    BY DEF Init, RegistryInit
  <1>2. edits \in 0 .. MaxEdits
    BY <1>1, EditsBound
  <1>3. Distinct(routes)
    BY <1>1, SeedsAssumption DEF Distinct
  <1> QED
    BY <1>1, <1>2, <1>3, InitSelection, InitRegistry DEF RoutingInv

LEMMA NextRouting == RoutingInv /\ [Next]_vars => RoutingInv'
  <1> SUFFICES ASSUME RoutingInv, [Next]_vars PROVE RoutingInv'
    OBVIOUS
  <1>1. RegistryInv'
    BY NextRegistry DEF RoutingInv
  <1>2. /\ SelectionInv /\ RegistryInv /\ backend \in DOMAIN Seeds /\ Distinct(routes)
        /\ edits \in 0 .. MaxEdits
        /\ via = NoRoute \/ via \in [id : Ids, form : Forms]
    BY DEF RoutingInv
  <1>3. ASSUME UNCHANGED selectionVars
        PROVE  SelectionInv'
    <2>1. Remembered' /\ UNCHANGED <<cursor, first>>
      BY <1>2, <1>3 DEF selectionVars, SelectionInv, Remembered
    <2> QED
      BY <1>2, <2>1, SameShares
  <1>4. ASSUME UNCHANGED registryVars
        PROVE  backend' \in DOMAIN Seeds /\ Distinct(routes)' /\ edits' \in 0 .. MaxEdits
    BY <1>2, <1>4 DEF registryVars, Distinct
  <1>5. CASE RegistrySteps /\ UNCHANGED <<selectionVars, via>>
    <2>1. SelectionInv' /\ via' = via
      BY <1>3, <1>5
    <2>2. Distinct(routes)' /\ backend' = backend /\ edits < MaxEdits /\ edits' = edits + 1
      BY <1>2, <1>5, RegistryStepsDistinct
    <2>3. edits' \in 0 .. MaxEdits
      BY <1>2, <2>2, EditsBound
    <2> QED
      BY <1>1, <1>2, <2>1, <2>2, <2>3 DEF RoutingInv
  <1>6. ASSUME NEW p \in ProxyRequests, ProxyOwn(p)
        PROVE  RoutingInv'
    <2>1. Serve(p, p.own) /\ via' = NoRoute /\ UNCHANGED registryVars
      BY <1>6 DEF ProxyOwn
    <2>2. Usable(p, p.own) => ToSelect(p, p.own) \in Requests
      BY SelectionsAssumption
    <2>3. SelectionInv'
      BY <1>2, <2>1, <2>2, ServeKeeps
    <2> QED
      BY <1>1, <1>4, <2>1, <2>3 DEF RoutingInv, NoRoute
  <1>7. ASSUME NEW p \in ProxyRequests, ProxyUnrouted(p)
        PROVE  RoutingInv'
    <2>1. last' = <<>> /\ via' = NoRoute /\ UNCHANGED <<cursor, first>> /\ UNCHANGED registryVars
      BY <1>7 DEF ProxyUnrouted
    <2>2. SelectionInv'
      <3>1. Remembered'
        BY <2>1 DEF Remembered
      <3> QED
        BY <1>2, <2>1, <3>1, SameShares
    <2> QED
      BY <1>1, <1>4, <2>1, <2>2 DEF RoutingInv, NoRoute
  <1>8. ASSUME NEW p \in ProxyRequests, NEW i \in DOMAIN routes, ProxyRouted(p, i)
        PROVE  RoutingInv'
    <2> DEFINE f == routes[i].form
    <2>1. /\ Serve(Merged(p, f), f.cands) /\ p.own = <<>> /\ UNCHANGED registryVars
          /\ via' = [id |-> routes[i].id, form |-> f]
      BY <1>8 DEF ProxyRouted
    <2>2. f \in Forms /\ routes[i].id \in Ids
      <3>1. routes \in Seq(Route)
        BY <1>2 DEF RegistryInv, InOrder
      <3>2. routes[i] \in Route
        BY <3>1, LenProperties
      <3> QED
        BY <3>2 DEF Route
    <2> HIDE DEF f
    <2>3. Usable(Merged(p, f), f.cands) => ToSelect(Merged(p, f), f.cands) \in Requests
      BY <2>1, <2>2, SelectionsAssumption
    <2>4. SelectionInv'
      BY <1>2, <2>1, <2>3, ServeKeeps
    <2>5. via' \in [id : Ids, form : Forms]
      BY <2>1, <2>2
    <2> QED
      BY <1>1, <1>4, <2>1, <2>4, <2>5 DEF RoutingInv
  <1>9. CASE UNCHANGED vars
    <2>1. UNCHANGED selectionVars /\ UNCHANGED registryVars /\ UNCHANGED via
      BY <1>9 DEF vars
    <2> QED
      BY <1>1, <1>2, <1>3, <1>4, <2>1 DEF RoutingInv, NoRoute
  <1> QED
    BY <1>5, <1>6, <1>7, <1>8, <1>9 DEF Next

THEOREM RoutingInductive == Spec => []RoutingInv
  BY InitRouting, NextRouting, PTL DEF Spec

\* The routes stay in order, in Postgres with distinct patterns, and the
\* cursor, the counts and the answer have the types the module says.
THEOREM TypeCorrect == Spec => []TypeOK
  <1>1. RoutingInv => TypeOK
    <2> SUFFICES ASSUME RoutingInv PROVE TypeOK
      OBVIOUS
    <2>1. /\ cursor \in 0 .. MaxDraws
          /\ first = [p \in Plans |-> first[p]]
          /\ \A p \in Plans : first[p] \in [ToSet(p.cands) -> 0 .. cursor]
          /\ Remembered
      BY DEF RoutingInv, SelectionInv
    <2>2. \A p \in Plans : first[p] \in [ToSet(p.cands) -> 0 .. MaxDraws]
      <3>1. 0 .. cursor \subseteq 0 .. MaxDraws
        BY <2>1, BoundsAssumption
      <3> SUFFICES ASSUME NEW p \in Plans
                   PROVE  first[p] \in [ToSet(p.cands) -> 0 .. MaxDraws]
        OBVIOUS
      <3>2. first[p] \in [ToSet(p.cands) -> 0 .. cursor]
        BY <2>1
      <3> QED
        BY <3>1, <3>2
    <2>3. DOMAIN first = Plans
      BY <2>1
    <2>4. SelectionTypeOK
      BY <2>1, <2>2, <2>3 DEF SelectionTypeOK, Remembered, TriedOnce
    <2>5. ASSUME NEW i \in DOMAIN routes
          PROVE  PatternFree(RemoveAt(routes, i), routes[i].form)
      <3>1. routes \in Seq(Route) /\ Distinct(routes)
        BY DEF RoutingInv, RegistryInv, InOrder
      <3> QED
        BY <3>1, RemovedDistinct
    <2> QED
      BY <2>4, <2>5 DEF RoutingInv, TypeOK
  <1> QED
    BY <1>1, RoutingInductive, PTL

\* Whatever its strategy, weights, canary and fallbacks, a request tries each
\* upstream that could answer once: the canary in front, its own candidates
\* next, then the fallbacks that are no candidates.
THEOREM TriesEachOnce == Spec => []EachUpstreamOnce
  <1>1. RoutingInv => EachUpstreamOnce
    BY DEF RoutingInv, SelectionInv, Remembered, TriedOnce, Own, EachUpstreamOnce
  <1> QED
    BY <1>1, RoutingInductive, PTL

\* After every full cycle of a plan that alone draws turns, its upstreams have
\* been first in proportion to their weights.
THEOREM SharesExact == Spec => []ShareExact
  <1>1. RoutingInv => ShareExact
    <2> SUFFICES ASSUME RoutingInv, NEW p \in Plans,
                        \A o \in Plans \ {p} : \A u \in DOMAIN first[o] : first[o][u] = 0,
                        cursor % Total(p) = 0,
                        p.strategy # "ordered", Len(p.cands) > 1, WeightsValid(p),
                        NEW u \in DOMAIN first[p]
                 PROVE  first[p][u] * Total(p) = cursor * Weight(p, u)
      BY DEF ShareExact
    <2>1. Turns(p) /\ Sole(p)
      BY DEF Turns, Sole
    <2>2. InShares(p)
      BY <2>1 DEF RoutingInv, SelectionInv
    <2>3. PICK n \in Nat, r \in Nat : Shared(p, n, r)
      BY <2>2 DEF InShares
    <2>4. Total(p) \in Nat \ {0}
      BY <2>1, CandidateWeights
    <2>5. r \in 0 .. Total(p) - 1 /\ cursor = n * Total(p) + r
      BY <2>3, <2>4 DEF Shared
    <2>6. r = 0
      <3>1. cursor % Total(p) = r
        BY <2>4, <2>5, Remainder
      <3> QED
        BY <3>1
    <2>7. first[p] \in [ToSet(p.cands) -> 0 .. cursor]
      BY DEF RoutingInv, SelectionInv
    <2>8. PICK i \in 1 .. Len(p.cands) : u = p.cands[i]
      <3>1. DOMAIN first[p] = ToSet(p.cands)
        BY <2>7
      <3>2. ToSet(p.cands) = {p.cands[k] : k \in 1 .. Len(p.cands)}
        BY PlanFields
      <3> QED
        BY <3>1, <3>2
    <2>9. first[p][u] = n * Weight(p, u)
      <3>1. first[p][u] = n * Weight(p, u) + Within(p, i, 0)
        BY <2>3, <2>6, <2>8 DEF Shared
      <3>2. Within(p, i, 0) = 0
        BY <2>1, NoneWithin
      <3>3. n * Weight(p, u) \in Nat
        <4>1. Weight(p, u) \in Nat
          BY <2>1, WeightPositive
        <4> QED
          BY <4>1
      <3> QED
        BY <3>1, <3>2, <3>3
    <2>10. Weight(p, u) \in Nat
      BY <2>1, WeightPositive
    <2>11. \A a, b \in Nat : (n * a) * b = (n * b) * a
      OBVIOUS
    <2>12. cursor = n * Total(p)
      BY <2>4, <2>5, <2>6
    <2> QED
      BY <2>4, <2>9, <2>10, <2>11, <2>12
  <1> QED
    BY <1>1, RoutingInductive, PTL

=============================================================================
