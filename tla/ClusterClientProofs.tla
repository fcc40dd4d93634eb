------------------------ MODULE ClusterClientProofs -------------------------
(* TLAPS proofs about ClusterClient, for any number of coroutines and      *)
(* proxies.                                                                *)
EXTENDS ClusterClient, TLAPS

(* The slot migrates between two proxies of the cluster. *)
ProxiesInv ==
    /\ migrating \in Proxies \ Removed
    /\ importing \in Proxies \ Removed
    /\ migrating # importing

(* A client being connected is not in the map yet. *)
CreateInv ==
    \A t \in Tasks : pc[t] = "create" => clientMap[address[t]] # t

(* How many redirections a request at address a can still meet, those      *)
(* included that PreSwitch is yet to cause.                                *)
Hops(a) ==
    IF a = importing THEN IF switched THEN 0 ELSE 2
    ELSE IF a = migrating THEN 1
    ELSE IF a \in Removed \union {Service} THEN IF switched THEN 3 ELSE 4
    ELSE IF switched THEN 2 ELSE 3

(* The tries that are left are enough for them. *)
HopsInv ==
    \A t \in Tasks :
        /\ pc[t] # "exceeded"
        /\ pc[t] # "idle" => tries[t] >= 1 /\ tries[t] + Hops(address[t]) <= RETRY_TIMES

ClientInv == TypeOK /\ ProxiesInv /\ CreateInv /\ OneOpenClientPerAddress /\ HopsInv

-----------------------------------------------------------------------------
(* A MOVED message names a proxy. *)
LEMMA RedirectsToProxies ==
    ASSUME TypeOK, ProxiesInv, NEW a \in Addresses
    PROVE  Redirects(a) \subseteq Proxies
<1>1. \A p \in Proxies : ProxyRedirects(p) \subseteq Proxies
  BY ProxiesAssumption DEF ProxiesInv, ProxyRedirects, Serving, DefaultRedirection
<1> QED
  BY <1>1 DEF Redirects, Addresses

(* Each redirection leaves one fewer, and with none left the request is    *)
(* where the slot is served.                                               *)
LEMMA RedirectsCount ==
    ASSUME TypeOK, ProxiesInv, NEW a \in Addresses, NEW b \in Redirects(a)
    PROVE  Hops(b) + 1 <= Hops(a)
<1> USE ProxiesAssumption DEF TypeOK, ProxiesInv, Addresses
<1>1. ASSUME NEW p \in Proxies, NEW q \in ProxyRedirects(p) \ {p}
      PROVE  /\ Hops(q) + 1 <= Hops(p)
             /\ Hops(q) <= IF switched THEN 2 ELSE 3
  BY <1>1 DEF ProxyRedirects, Serving, DefaultRedirection, Hops
<1>2. CASE a = Service
  <2>1. PICK p \in Proxies : b \in ProxyRedirects(p) \ {p}
    BY <1>2 DEF Redirects
  <2> QED
    BY <1>1, <1>2, <2>1 DEF Hops
<1>3. CASE a # Service
  BY <1>1, <1>3 DEF Redirects
<1> QED
  BY <1>2, <1>3

(* The client starts with the connection to the service alone. *)
LEMMA InitInv == Init => ClientInv
<1> SUFFICES ASSUME Init PROVE ClientInv
  OBVIOUS
<1> USE ProxiesAssumption DEF Init
<1>1. TypeOK
  <2>1. clientMap \in [Addresses -> Creators \union {None}]
    BY DEF Creators, Addresses
  <2>2. open \subseteq Creators \X Addresses
    <3>1. <<Service, Service>> \in Creators \X Addresses
      BY DEF Creators, Addresses
    <3> QED
      BY <3>1
  <2>3. tries \in [Tasks -> 0 .. RETRY_TIMES]
    BY DEF RETRY_TIMES
  <2> QED
    BY <2>1, <2>2, <2>3 DEF TypeOK
<1>2. ProxiesInv /\ CreateInv /\ HopsInv
  BY DEF ProxiesInv, CreateInv, HopsInv
<1>3. OneOpenClientPerAddress
  <2>1. {b \in Addresses : clientMap[b] # None} = {Service}
    BY DEF Addresses
  <2>2. {u \in Tasks : pc[u] = "create"} = {}
    OBVIOUS
  <2>3. clientMap[Service] = Service
    BY DEF Addresses
  <2> QED
    BY <2>1, <2>2, <2>3 DEF OneOpenClientPerAddress
<1> QED
  BY <1>1, <1>2, <1>3 DEF ClientInv

(* Every step keeps the types; an address followed is that of a proxy. *)
LEMMA TypeStep == TypeOK /\ ProxiesInv /\ [Next]_vars => TypeOK'
<1> SUFFICES ASSUME TypeOK, ProxiesInv, [Next]_vars PROVE TypeOK'
  OBVIOUS
<1> USE DEF TypeOK, proxyVars, poolVars, Step, Addresses, Creators, RETRY_TIMES
<1>1. CASE PreSwitch
  BY <1>1 DEF PreSwitch
<1>2. ASSUME NEW t \in Tasks, ClientFound(t)
       PROVE  TypeOK'
  BY <1>2 DEF ClientFound
<1>3. ASSUME NEW t \in Tasks, CreateClient(t)
       PROVE  TypeOK'
  BY <1>3 DEF CreateClient
<1>4. ASSUME NEW t \in Tasks, ClientCreated(t)
       PROVE  TypeOK'
  BY <1>4 DEF ClientCreated
<1>5. ASSUME NEW t \in Tasks, SurplusClosed(t)
       PROVE  TypeOK'
  BY <1>5 DEF SurplusClosed
<1>6. ASSUME NEW t \in Tasks, CreateFails(t)
       PROVE  TypeOK'
  BY <1>6 DEF CreateFails, EndRequest
<1>7. ASSUME NEW t \in Tasks, StartRequest(t)
       PROVE  TypeOK'
  BY <1>7 DEF StartRequest
<1>8. ASSUME NEW t \in Tasks, Answered(t)
       PROVE  TypeOK'
  BY <1>8 DEF Answered, EndRequest
<1>9. ASSUME NEW t \in Tasks, Moved(t)
       PROVE  TypeOK'
  <2>1. PICK a \in Redirects(address[t]) :
          IF tries[t] = RETRY_TIMES
            THEN /\ Step(t, "exceeded")
                 /\ UNCHANGED <<address, tries>>
            ELSE /\ Step(t, "lookup")
                 /\ address' = [address EXCEPT ![t] = a]
                 /\ tries' = [tries EXCEPT ![t] = @ + 1]
    BY <1>9 DEF Moved, parse_moved
  <2>2. a \in Proxies
    BY <1>9, RedirectsToProxies DEF Moved
  <2> QED
    BY <1>9, <2>1, <2>2 DEF Moved
<1>10. CASE UNCHANGED vars
  BY <1>10 DEF vars
<1> QED
  BY <1>1, <1>2, <1>3, <1>4, <1>5, <1>6, <1>7, <1>8, <1>9, <1>10
  DEF Next, GetOrCreateClient, Exec

(* The migration keeps its two sides. *)
LEMMA ProxiesStep == ProxiesInv /\ [Next]_vars => ProxiesInv'
<1> SUFFICES ASSUME ProxiesInv, [Next]_vars PROVE ProxiesInv'
  OBVIOUS
<1> USE DEF ProxiesInv, proxyVars
<1>1. CASE PreSwitch
  BY <1>1 DEF PreSwitch
<1>2. ASSUME NEW t \in Tasks, ClientFound(t)
       PROVE  ProxiesInv'
  BY <1>2 DEF ClientFound
<1>3. ASSUME NEW t \in Tasks, CreateClient(t)
       PROVE  ProxiesInv'
  BY <1>3 DEF CreateClient
<1>4. ASSUME NEW t \in Tasks, ClientCreated(t)
       PROVE  ProxiesInv'
  BY <1>4 DEF ClientCreated
<1>5. ASSUME NEW t \in Tasks, SurplusClosed(t)
       PROVE  ProxiesInv'
  BY <1>5 DEF SurplusClosed
<1>6. ASSUME NEW t \in Tasks, CreateFails(t)
       PROVE  ProxiesInv'
  BY <1>6 DEF CreateFails, EndRequest
<1>7. ASSUME NEW t \in Tasks, StartRequest(t)
       PROVE  ProxiesInv'
  BY <1>7 DEF StartRequest
<1>8. ASSUME NEW t \in Tasks, Answered(t)
       PROVE  ProxiesInv'
  BY <1>8 DEF Answered, EndRequest
<1>9. ASSUME NEW t \in Tasks, Moved(t)
       PROVE  ProxiesInv'
  BY <1>9 DEF Moved
<1>10. CASE UNCHANGED vars
  BY <1>10 DEF vars
<1> QED
  BY <1>1, <1>2, <1>3, <1>4, <1>5, <1>6, <1>7, <1>8, <1>9, <1>10
  DEF Next, GetOrCreateClient, Exec

(* A client gets into the map only when it leaves create. *)
LEMMA CreateStep == TypeOK /\ CreateInv /\ [Next]_vars => CreateInv'
<1> SUFFICES ASSUME TypeOK, CreateInv, [Next]_vars PROVE CreateInv'
  OBVIOUS
<1> USE ProxiesAssumption DEF TypeOK, CreateInv, poolVars, Step, Addresses, Creators
<1>1. CASE PreSwitch
  BY <1>1 DEF PreSwitch
<1>2. ASSUME NEW t \in Tasks, ClientFound(t)
       PROVE  CreateInv'
  BY <1>2 DEF ClientFound
<1>3. ASSUME NEW t \in Tasks, CreateClient(t)
       PROVE  CreateInv'
  BY <1>3 DEF CreateClient
<1>4. ASSUME NEW t \in Tasks, ClientCreated(t)
       PROVE  CreateInv'
  BY <1>4 DEF ClientCreated
<1>5. ASSUME NEW t \in Tasks, SurplusClosed(t)
       PROVE  CreateInv'
  BY <1>5 DEF SurplusClosed
<1>6. ASSUME NEW t \in Tasks, CreateFails(t)
       PROVE  CreateInv'
  BY <1>6 DEF CreateFails, EndRequest
<1>7. ASSUME NEW t \in Tasks, StartRequest(t)
       PROVE  CreateInv'
  BY <1>7 DEF StartRequest
<1>8. ASSUME NEW t \in Tasks, Answered(t)
       PROVE  CreateInv'
  BY <1>8 DEF Answered, EndRequest
<1>9. ASSUME NEW t \in Tasks, Moved(t)
       PROVE  CreateInv'
  BY <1>9 DEF Moved
<1>10. CASE UNCHANGED vars
  BY <1>10 DEF vars
<1> QED
  BY <1>1, <1>2, <1>3, <1>4, <1>5, <1>6, <1>7, <1>8, <1>9, <1>10
  DEF Next, GetOrCreateClient, Exec

(* PreSwitch is paid for in advance, and no other step changes the count.  *)
LEMMA HopsFall ==
    ASSUME TypeOK, ProxiesInv, NEW a \in Addresses
    PROVE  /\ PreSwitch => Hops(a)' <= Hops(a)
           /\ UNCHANGED proxyVars => Hops(a)' = Hops(a)
<1>1. ASSUME PreSwitch
      PROVE  Hops(a)' <= Hops(a)
  BY <1>1, ProxiesAssumption DEF PreSwitch, Hops, ProxiesInv
<1>2. ASSUME UNCHANGED proxyVars
      PROVE  Hops(a)' = Hops(a)
  BY <1>2 DEF proxyVars, Hops
<1> QED
  BY <1>1, <1>2

(* A redirection uses up a try and a hop; the switch adds no hops. *)
LEMMA HopsStep == TypeOK /\ ProxiesInv /\ HopsInv /\ [Next]_vars => HopsInv'
<1> SUFFICES ASSUME TypeOK, ProxiesInv, HopsInv, [Next]_vars PROVE HopsInv'
  OBVIOUS
<1> USE DEF TypeOK, Step, RETRY_TIMES
<1>a. \A u \in Tasks :
        pc[u] # "idle" => /\ address[u] \in Addresses
                          /\ tries[u] \in 1 .. 5
                          /\ tries[u] + Hops(address[u]) <= 5
  BY DEF HopsInv
<1>b. \A a : Hops(a) \in 0 .. 4 /\ Hops(a)' \in 0 .. 4
  BY DEF Hops
<1>c. \A u \in Tasks : pc[u] # "exceeded"
  BY DEF HopsInv
<1> HIDE DEF Hops
<1>1. CASE PreSwitch
  <2>1. \A a \in Addresses : Hops(a)' <= Hops(a)
    BY <1>1, HopsFall
  <2> QED
    BY <1>1, <1>a, <1>b, <1>c, <2>1 DEF PreSwitch, HopsInv
<1>2. ASSUME UNCHANGED proxyVars,
             NEW t \in Tasks, GetOrCreateClient(t) \/ Exec(t)
      PROVE  HopsInv'
  <2>1. \A a \in Addresses : Hops(a)' = Hops(a)
    BY <1>2, HopsFall
  <2>2. ASSUME address' = address, tries' = tries,
               \A u \in Tasks : pc'[u] # "exceeded" /\ (pc[u] = "idle" => pc'[u] = "idle")
        PROVE  HopsInv'
    BY <2>1, <2>2, <1>a, <1>b, <1>c DEF HopsInv
  <2>3. CASE ClientFound(t)
    BY <2>2, <2>3, <1>c DEF ClientFound
  <2>4. CASE CreateClient(t)
    BY <2>2, <2>4, <1>c DEF CreateClient
  <2>5. CASE ClientCreated(t)
    BY <2>2, <2>5, <1>c DEF ClientCreated
  <2>6. CASE SurplusClosed(t)
    BY <2>2, <2>6, <1>c DEF SurplusClosed
  <2>7. CASE EndRequest(t)
    BY <2>1, <2>7, <1>a, <1>b, <1>c DEF EndRequest, HopsInv
  <2>8. CASE StartRequest(t)
    <3>1. Service \in Addresses
      BY DEF Addresses
    <3> QED
      BY <2>1, <2>8, <1>a, <1>b, <1>c, <3>1 DEF StartRequest, HopsInv
  <2>9. CASE Moved(t)
    <3>1. PICK a \in Redirects(address[t]) :
            IF tries[t] = RETRY_TIMES
              THEN /\ Step(t, "exceeded")
                   /\ UNCHANGED <<address, tries>>
              ELSE /\ Step(t, "lookup")
                   /\ address' = [address EXCEPT ![t] = a]
                   /\ tries' = [tries EXCEPT ![t] = @ + 1]
      BY <2>9 DEF Moved, parse_moved
    <3>2. address[t] \in Addresses /\ tries[t] \in 1 .. 5 /\ tries[t] + Hops(address[t]) <= 5
      BY <2>9, <1>a DEF Moved
    <3>3. a \in Addresses /\ Hops(a) + 1 <= Hops(address[t])
      BY <3>2, RedirectsToProxies, RedirectsCount DEF Addresses
    <3>4. /\ tries[t] + 1 <= 5
          /\ (tries[t] + 1) + Hops(a)' <= 5
      BY <3>2, <3>3, <1>b, <2>1
    <3>5. /\ pc' = [pc EXCEPT ![t] = "lookup"]
          /\ address' = [address EXCEPT ![t] = a]
          /\ tries' = [tries EXCEPT ![t] = tries[t] + 1]
      BY <3>1, <3>2, <3>4
    <3> QED
      BY <3>2, <3>3, <3>4, <3>5, <2>1, <1>a, <1>b, <1>c DEF HopsInv
  <2> QED
    BY <1>2, <2>3, <2>4, <2>5, <2>6, <2>7, <2>8, <2>9
    DEF GetOrCreateClient, Exec, CreateFails, Answered
<1>3. CASE UNCHANGED vars
  <2>1. \A a \in Addresses : Hops(a)' = Hops(a)
    BY <1>3, HopsFall DEF vars
  <2> QED
    BY <1>3, <1>a, <1>b, <1>c, <2>1 DEF vars, HopsInv
<1>4. ASSUME NEW t \in Tasks, GetOrCreateClient(t) \/ Exec(t)
      PROVE  UNCHANGED proxyVars
  BY <1>4 DEF GetOrCreateClient, Exec, ClientFound, CreateClient, ClientCreated,
              SurplusClosed, CreateFails, StartRequest, Answered, Moved
<1> QED
  BY <1>1, <1>2, <1>3, <1>4 DEF Next

(* Whoever stores a client moves it from the second set of the invariant   *)
(* to the first; whoever finds another one stored, or fails, closes its    *)
(* own, which by CreateInv is not the one in the map.                      *)
LEMMA OneOpenStep ==
    TypeOK /\ CreateInv /\ OneOpenClientPerAddress /\ [Next]_vars => OneOpenClientPerAddress'
<1> SUFFICES ASSUME TypeOK, CreateInv, OneOpenClientPerAddress, [Next]_vars
             PROVE  OneOpenClientPerAddress'
  OBVIOUS
<1> DEFINE Stored == {<<clientMap[a], a>> : a \in {b \in Addresses : clientMap[b] # None}}
           Connecting == {<<u, address[u]>> : u \in {v \in Tasks : pc[v] = "create"}}
<1>a. open = Stored \union Connecting
  BY DEF OneOpenClientPerAddress
<1>b. (open' = Stored' \union Connecting') => OneOpenClientPerAddress'
  BY DEF OneOpenClientPerAddress
<1>c. ASSUME UNCHANGED <<clientMap, open>>,
             \A u \in Tasks : /\ (pc[u] = "create") <=> (pc'[u] = "create")
                              /\ pc[u] = "create" => address'[u] = address[u]
      PROVE  OneOpenClientPerAddress'
  <2>1. Stored' = Stored
    BY <1>c
  <2>2. Connecting' = Connecting
    BY <1>c
  <2> QED
    BY <1>a, <1>b, <1>c, <2>1, <2>2
<1>1. CASE PreSwitch
  BY <1>1, <1>c DEF PreSwitch, poolVars
<1>2. ASSUME NEW t \in Tasks, ClientFound(t)
      PROVE  OneOpenClientPerAddress'
  BY <1>2, <1>c DEF ClientFound, Step, poolVars, TypeOK
<1>3. ASSUME NEW t \in Tasks, CreateClient(t)
      PROVE  OneOpenClientPerAddress'
  <2>1. Stored' = Stored
    BY <1>3 DEF CreateClient
  <2>2. Connecting' = Connecting \union {<<t, address[t]>>}
    BY <1>3 DEF CreateClient, Step, TypeOK
  <2>3. open' = open \union {<<t, address[t]>>}
    BY <1>3 DEF CreateClient
  <2> HIDE DEF Stored, Connecting
  <2> QED
    BY <1>a, <1>b, <2>1, <2>2, <2>3
<1>d. ASSUME NEW t \in Tasks, pc[t] = "create", pc' = [pc EXCEPT ![t] = pc'[t]],
             pc'[t] # "create",
             \A u \in Tasks \ {t} : address'[u] = address[u]
      PROVE  Connecting' = Connecting \ {<<t, address[t]>>}
  <2>1. \A u \in Tasks : (pc'[u] = "create") <=> (pc[u] = "create" /\ u # t)
    BY <1>d DEF TypeOK
  <2> QED
    BY <1>d, <2>1
<1>e. ASSUME NEW t \in Tasks, pc[t] = "create"
      PROVE  /\ <<t, address[t]>> \notin Stored
             /\ <<t, address[t]>> \in Connecting
             /\ address[t] \in Addresses
  BY <1>e DEF CreateInv, TypeOK
<1>4. ASSUME NEW t \in Tasks, ClientCreated(t)
      PROVE  OneOpenClientPerAddress'
  <2>1. Connecting' = Connecting \ {<<t, address[t]>>}
    BY <1>4, <1>d DEF ClientCreated, Step, TypeOK
  <2>2. /\ <<t, address[t]>> \notin Stored
        /\ <<t, address[t]>> \in Connecting
        /\ address[t] \in Addresses
    BY <1>4, <1>e DEF ClientCreated
  <2>3. CASE clientMap[address[t]] = None
    <3>1. Stored' = Stored \union {<<t, address[t]>>}
      <4>1. \A a \in Addresses : clientMap'[a] = IF a = address[t] THEN t ELSE clientMap[a]
        BY <1>4, <2>2, <2>3 DEF ClientCreated, TypeOK
      <4>2. t # None
        BY ProxiesAssumption
      <4> QED
        BY <2>2, <2>3, <4>1, <4>2
    <3>2. open' = open
      BY <1>4, <2>3 DEF ClientCreated
    <3> HIDE DEF Stored, Connecting
    <3> QED
      BY <1>a, <1>b, <2>1, <2>2, <3>1, <3>2
  <2>4. CASE clientMap[address[t]] # None
    <3>1. Stored' = Stored
      BY <1>4, <2>4 DEF ClientCreated
    <3>2. open' = open \ {<<t, address[t]>>}
      BY <1>4, <2>4 DEF ClientCreated
    <3> HIDE DEF Stored, Connecting
    <3> QED
      BY <1>a, <1>b, <2>1, <2>2, <3>1, <3>2
  <2> QED
    BY <2>3, <2>4
<1>5. ASSUME NEW t \in Tasks, SurplusClosed(t)
      PROVE  OneOpenClientPerAddress'
  BY <1>5, <1>c DEF SurplusClosed, Step, poolVars, TypeOK
<1>6. ASSUME NEW t \in Tasks, CreateFails(t)
      PROVE  OneOpenClientPerAddress'
  <2>1. Connecting' = Connecting \ {<<t, address[t]>>}
    BY <1>6, <1>d DEF CreateFails, EndRequest, Step, TypeOK
  <2>2. <<t, address[t]>> \notin Stored
    BY <1>6, <1>e DEF CreateFails
  <2>3. Stored' = Stored
    BY <1>6 DEF CreateFails
  <2>4. open' = open \ {<<t, address[t]>>}
    BY <1>6 DEF CreateFails
  <2> HIDE DEF Stored, Connecting
  <2> QED
    BY <1>a, <1>b, <2>1, <2>2, <2>3, <2>4
<1>7. ASSUME NEW t \in Tasks, StartRequest(t)
      PROVE  OneOpenClientPerAddress'
  BY <1>7, <1>c DEF StartRequest, Step, poolVars, TypeOK
<1>8. ASSUME NEW t \in Tasks, Answered(t)
      PROVE  OneOpenClientPerAddress'
  BY <1>8, <1>c DEF Answered, EndRequest, Step, poolVars, TypeOK
<1>9. ASSUME NEW t \in Tasks, Moved(t)
      PROVE  OneOpenClientPerAddress'
  BY <1>9, <1>c DEF Moved, Step, poolVars, TypeOK
<1>10. CASE UNCHANGED vars
  BY <1>10, <1>c DEF vars, poolVars
<1> QED
  BY <1>1, <1>2, <1>3, <1>4, <1>5, <1>6, <1>7, <1>8, <1>9, <1>10
  DEF Next, GetOrCreateClient, Exec

-----------------------------------------------------------------------------
(* So the invariant holds in every reachable state. *)
LEMMA ClientInvariant == Spec => []ClientInv
<1>1. ClientInv /\ [Next]_vars => ClientInv'
  BY TypeStep, ProxiesStep, CreateStep, OneOpenStep, HopsStep DEF ClientInv
<1> QED
  BY InitInv, <1>1, PTL DEF Spec

(* The types of the variables, for any number of coroutines and proxies.   *)
THEOREM TypeCorrect == Spec => []TypeOK
<1>1. ClientInv => TypeOK
  BY DEF ClientInv
<1> QED
  BY ClientInvariant, <1>1, PTL

(* get_or_create_client leaks no connection pool and closes none that is   *)
(* in the map, however many coroutines ask for the same address at once.   *)
THEOREM OneClient == Spec => []OneOpenClientPerAddress
<1>1. ClientInv => OneOpenClientPerAddress
  BY DEF ClientInv
<1> QED
  BY ClientInvariant, <1>1, PTL

(* No request of exec runs out of its RETRY_TIMES tries, however many      *)
(* proxies there are and however many of them were removed.                *)
THEOREM FiveTriesSuffice == Spec => []RedirectionsSuffice
<1>1. ClientInv => RedirectionsSuffice
  BY DEF ClientInv, HopsInv, RedirectionsSuffice
<1> QED
  BY ClientInvariant, <1>1, PTL
=============================================================================
