---------------------------- MODULE ClusterClient ---------------------------
(***************************************************************************)
(* The cluster client of the chaos test (cluster_client.py): coroutines    *)
(* share a map of connection pools, one for each address, and follow MOVED *)
(* redirections for at most RETRY_TIMES tries.  How often a request is     *)
(* redirected depends on the server proxies: the slot may be migrating,    *)
(* and a proxy that a scale-down removed redirects to the default address  *)
(* the operator configures in createStorageStatefulSet.                    *)
(*                                                                         *)
(* Coroutines switch only at an await, so the code between two awaits is   *)
(* one step.                                                               *)
(***************************************************************************)
EXTENDS Integers, FiniteSets

CONSTANTS
    Tasks,           \* concurrent requests of one client
    Proxies,         \* the server proxies, removed ones included
    FirstProxy,      \* the proxy of pod 0
    Removed,         \* proxies that a scale-down removed from the cluster
    Service,         \* the service address: any of the proxies answers
    None             \* no client, no address

ASSUME ProxiesAssumption ==
    /\ FirstProxy \in Proxies \ Removed
    /\ Removed \subseteq Proxies
    /\ Service \notin Proxies
    /\ None \notin Tasks \union Proxies \union {Service}

VARIABLES
    migrating,       \* the proxy the slot migrates from
    importing,       \* the proxy it migrates to
    switched,        \* PreSwitch is done: the importing proxy serves
    clientMap,       \* the client of each address, named by its creator
    open,            \* <<creator, address>> of the clients not closed
    pc,              \* the step of each coroutine
    address,         \* the address it talks to
    tries            \* its tries so far

proxyVars == <<migrating, importing, switched>>
poolVars == <<clientMap, open>>
vars == <<proxyVars, poolVars, pc, address, tries>>

Addresses == Proxies \union {Service}

(* init_pool creates the clients of the startup nodes before any request.  *)
Creators == Tasks \union {Service}

RETRY_TIMES == 5

Init ==
    /\ migrating \in Proxies \ Removed
    /\ importing \in Proxies \ (Removed \union {migrating})
    /\ switched = FALSE
    /\ clientMap = [a \in Addresses |-> IF a = Service THEN Service ELSE None]
    /\ open = {<<Service, Service>>}
    /\ pc = [t \in Tasks |-> "idle"]
    /\ address = [t \in Tasks |-> None]
    /\ tries = [t \in Tasks |-> 0]

-----------------------------------------------------------------------------
(* The server proxies *)

PreSwitch ==
    /\ ~switched
    /\ switched' = TRUE
    /\ UNCHANGED <<migrating, importing, poolVars, pc, address, tries>>

(* Mutant: the service address as default redirection address. *)
DefaultRedirectionService == Service

(* UNDERMOON_DEFAULT_REDIRECTION_ADDRESS *)
DefaultRedirection == FirstProxy

Serving == IF switched THEN importing ELSE migrating

(* Where proxy p sends a request: itself when it serves the slot.  The     *)
(* metadata of a proxy that has no part in the migration names either.     *)
ProxyRedirects(p) ==
    IF p \in Removed THEN {DefaultRedirection}
    ELSE IF p \in {migrating, importing} THEN {Serving}
    ELSE {migrating, importing}

(* The service address leads to any proxy, a terminating one included.     *)
Redirects(a) ==
    IF a = Service
      THEN UNION {ProxyRedirects(p) \ {p} : p \in Proxies}
      ELSE ProxyRedirects(a) \ {a}

-----------------------------------------------------------------------------
(* get_or_create_client *)

Step(t, to) == pc' = [pc EXCEPT ![t] = to]

ClientFound(t) ==
    /\ pc[t] = "lookup"
    /\ clientMap[address[t]] # None
    /\ Step(t, "send")
    /\ UNCHANGED <<proxyVars, poolVars, address, tries>>

CreateClient(t) ==
    /\ pc[t] = "lookup"
    /\ clientMap[address[t]] = None
    /\ open' = open \union {<<t, address[t]>>}
    /\ Step(t, "create")
    /\ UNCHANGED <<proxyVars, clientMap, address, tries>>

(* Mutant: stores its client without the second look at the map. *)
ClientCreatedAlways(t) ==
    /\ pc[t] = "create"
    /\ clientMap' = [clientMap EXCEPT ![address[t]] = t]
    /\ Step(t, "send")
    /\ UNCHANGED <<proxyVars, open, address, tries>>

(* The pool is connected: another coroutine may have stored one meanwhile. *)
ClientCreated(t) ==
    /\ pc[t] = "create"
    /\ IF clientMap[address[t]] = None
         THEN /\ clientMap' = [clientMap EXCEPT ![address[t]] = t]
              /\ Step(t, "send")
              /\ UNCHANGED open
         ELSE /\ open' = open \ {<<t, address[t]>>}
              /\ Step(t, "close")
              /\ UNCHANGED clientMap
    /\ UNCHANGED <<proxyVars, address, tries>>

(* wait_closed returns. *)
SurplusClosed(t) ==
    /\ pc[t] = "close"
    /\ Step(t, "send")
    /\ UNCHANGED <<proxyVars, poolVars, address, tries>>

(* The request ends, with a result or an exception.                        *)
EndRequest(t) ==
    /\ Step(t, "idle")
    /\ address' = [address EXCEPT ![t] = None]
    /\ tries' = [tries EXCEPT ![t] = 0]

CreateFails(t) ==
    /\ pc[t] = "create"
    /\ open' = open \ {<<t, address[t]>>}
    /\ EndRequest(t)
    /\ UNCHANGED <<proxyVars, clientMap>>

-----------------------------------------------------------------------------
(* exec *)

StartRequest(t) ==
    /\ pc[t] = "idle"
    /\ Step(t, "lookup")
    /\ address' = [address EXCEPT ![t] = Service]
    /\ tries' = [tries EXCEPT ![t] = 1]
    /\ UNCHANGED <<proxyVars, poolVars>>

(* A result, or an error other than MOVED *)
Answered(t) ==
    /\ pc[t] = "send"
    /\ EndRequest(t)
    /\ UNCHANGED <<proxyVars, poolVars>>

(* Mutant: takes the slot of the MOVED message for the address. *)
parse_movedSlot(a) == None

(* parse_moved *)
parse_moved(a) == a

(* The proxy answers MOVED; the last try raises "exceed max redirection    *)
(* times".                                                                 *)
Moved(t) ==
    /\ pc[t] = "send"
    /\ \E a \in Redirects(address[t]) :
          IF tries[t] = RETRY_TIMES
            THEN /\ Step(t, "exceeded")
                 /\ UNCHANGED <<address, tries>>
            ELSE /\ Step(t, "lookup")
                 /\ address' = [address EXCEPT ![t] = parse_moved(a)]
                 /\ tries' = [tries EXCEPT ![t] = @ + 1]
    /\ UNCHANGED <<proxyVars, poolVars>>

GetOrCreateClient(t) ==
    \/ ClientFound(t)
    \/ CreateClient(t)
    \/ ClientCreated(t)
    \/ SurplusClosed(t)
    \/ CreateFails(t)

Exec(t) == StartRequest(t) \/ Answered(t) \/ Moved(t)

Next ==
    \/ PreSwitch
    \/ \E t \in Tasks : GetOrCreateClient(t) \/ Exec(t)

Spec == Init /\ [][Next]_vars

-----------------------------------------------------------------------------
(* Properties *)

(* The types of the variables. *)
TypeOK ==
    /\ migrating \in Proxies
    /\ importing \in Proxies
    /\ switched \in BOOLEAN
    /\ clientMap \in [Addresses -> Creators \union {None}]
    /\ open \subseteq Creators \X Addresses
    /\ pc \in [Tasks -> {"idle", "lookup", "create", "close", "send", "exceeded"}]
    /\ address \in [Tasks -> Addresses \union {None}]
    /\ \A t \in Tasks : pc[t] # "idle" => address[t] \in Addresses
    /\ tries \in [Tasks -> 0 .. RETRY_TIMES]

(* Whatever coroutines create clients for the same address at the same     *)
(* time, the clients in the map are open, and the only others that are     *)
(* open are being connected: none leaks and none in use is closed.         *)
OneOpenClientPerAddress ==
    open = {<<clientMap[a], a>> : a \in {b \in Addresses : clientMap[b] # None}}
             \union {<<t, address[t]>> : t \in {u \in Tasks : pc[u] = "create"}}

(* Five tries are enough for every request, whichever proxy it starts at,  *)
(* also during the switch of a migration and with any number of removed    *)
(* proxies behind the service: the case the comment in exec lists, and the *)
(* reason for the first proxy as default redirection address.              *)
RedirectionsSuffice == \A t \in Tasks : pc[t] # "exceeded"
=============================================================================
