------------------------------ MODULE Network ------------------------------
(***************************************************************************)
(* initramfs/pid1/do_network.go: networkUp configures every interface in a *)
(* goroutine of its own and returns at the first success, or when all have *)
(* failed.                                                                 *)
(*                                                                         *)
(* The goroutines store into the map errs without a lock.  Stores that     *)
(* overlap are a data race: nothing happens, one of the entries is lost,   *)
(* or the runtime ends the process.                                        *)
(***************************************************************************)
EXTENDS FiniteSets, Naturals

CONSTANTS Interfaces,  \* /sys/class/net
          Acks,        \* the DHCP acknowledgements servers send: sets of fields
          NoIface      \* no interface

Fields == {"router", "gateway", "server", "addr", "dns"}

ASSUME NetworkAssumption ==
    /\ NoIface \notin Interfaces
    /\ Acks \subseteq SUBSET Fields

VARIABLES
    net,       \* networkUp: "idle", "select" or "returned"
    nerr,      \* what it returned
    ifc,       \* ifc[i]: where configure and its goroutine are
    cancelled, \* a goroutine has called cancel: ctx is done
    config,    \* config[i]: the settings dhcpc returned
    addrs,     \* interfaces with an address
    route,     \* the interface and gateway of the default route
    resolv,    \* the interface and name servers in /etc/resolv.conf
    errs,      \* keys of the map errs
    storing,   \* goroutines in the middle of a store into errs
    netrace    \* "none", "seen" or "fatal"

netVars == <<net, nerr, ifc, cancelled, config, addrs, route, resolv, errs, storing, netrace>>

NoSettings == [router |-> "none", dns |-> {}]

NetInit ==
    /\ net = "idle"
    /\ nerr = "none"
    /\ ifc = [i \in Interfaces |-> "none"]
    /\ cancelled = FALSE
    /\ config = [i \in Interfaces |-> NoSettings]
    /\ addrs = {}
    /\ route = [iface |-> NoIface, gw |-> "none"]
    /\ resolv = [iface |-> NoIface, dns |-> {}]
    /\ errs = {}
    /\ storing = {}
    /\ netrace = "none"

-----------------------------------------------------------------------------
(* configure *)

\* configure goes on to next, unless ctx is done
Continue(i, next) == ifc' = [ifc EXCEPT ![i] = IF cancelled THEN "failed" ELSE next]

\* configure returns; config was a local variable of it
Return(i, how) ==
    /\ ifc' = [ifc EXCEPT ![i] = how]
    /\ config' = [config EXCEPT ![i] = NoSettings]

\* ifup: the interface is up, or LinkSetUp raises it; or it is a loopback
\* that is down, or there is an error
Ifup(i) ==
    /\ ifc[i] = "ifup"
    /\ \/ Continue(i, "dhcp") /\ UNCHANGED config
       \/ Return(i, "failed")
    /\ UNCHANGED <<net, nerr, cancelled, addrs, route, resolv, errs, storing, netrace>>

\* The first router dhcpc finds in an acknowledgement
Router(ack) ==
    IF "router" \in ack THEN "router"
    ELSE IF "gateway" \in ack THEN "gateway"
    ELSE IF "server" \in ack THEN "server" ELSE "none"

\* A wrong dhcpc: the gateway is taken from the router option only.
SettingsRouter(ack) ==
    [router |-> IF "router" \in ack THEN "router" ELSE "none",
     dns |-> IF "dns" \in ack THEN {"dns"}
             ELSE {Router(ack), "public"} \cup (ack \cap {"server"})]

Settings(ack) ==
    [router |-> Router(ack),
     dns |-> IF "dns" \in ack THEN {"dns"}
             ELSE {Router(ack), "public"} \cup (ack \cap {"server"})]

\* dhcpc: a lease, or an error: no answer in 10 seconds, ctx is done, ...
Dhcp(i) ==
    /\ ifc[i] = "dhcp"
    /\ \/ \E ack \in Acks :
             /\ "addr" \in ack /\ Router(ack) # "none"
             /\ config' = [config EXCEPT ![i] = Settings(ack)]
             /\ Continue(i, "addr")
       \/ Return(i, "failed")
    /\ UNCHANGED <<net, nerr, cancelled, addrs, route, resolv, errs, storing, netrace>>

AddrAdd(i) ==
    /\ ifc[i] = "addr"
    /\ \/ addrs' = addrs \cup {i} /\ Continue(i, "route") /\ UNCHANGED config
       \/ Return(i, "failed") /\ UNCHANGED addrs
    /\ UNCHANGED <<net, nerr, cancelled, route, resolv, errs, storing, netrace>>

\* netlink.RouteAdd: the kernel refuses a second default route (EEXIST)
RouteAdd(i) ==
    /\ ifc[i] = "route"
    /\ \/ /\ route.iface = NoIface
          /\ route' = [iface |-> i, gw |-> config[i].router]
          /\ ifc' = [ifc EXCEPT ![i] = "dns"]
          /\ UNCHANGED config
       \/ Return(i, "failed") /\ UNCHANGED route
    /\ UNCHANGED <<net, nerr, cancelled, addrs, resolv, errs, storing, netrace>>

\* /etc/resolv.conf under resolvconfMu; ctx is not looked at here.  An error
\* may come before the name servers are written, or with Close after that.
SaveDNS(i) ==
    /\ ifc[i] = "dns"
    /\ \/ /\ resolv' = [iface |-> i, dns |-> config[i].dns]
          /\ \E how \in {"configured", "failed"} : Return(i, how)
       \/ Return(i, "failed") /\ UNCHANGED resolv
    /\ UNCHANGED <<net, nerr, cancelled, addrs, route, errs, storing, netrace>>

Configure(i) == Ifup(i) \/ Dhcp(i) \/ AddrAdd(i) \/ RouteAdd(i) \/ SaveDNS(i)

-----------------------------------------------------------------------------
(* networkUp and its goroutines *)

\* networkUp: no interface to try is an error
NetStart ==
    /\ net = "idle"
    /\ IF Interfaces = {}
       THEN /\ net' = "returned" /\ nerr' = "error"
            /\ UNCHANGED ifc
       ELSE /\ net' = "select"
            /\ ifc' = [i \in Interfaces |-> "ifup"]
            /\ UNCHANGED nerr
    /\ UNCHANGED <<cancelled, config, addrs, route, resolv, errs, storing, netrace>>

Cancel(i) ==
    /\ ifc[i] = "configured"
    /\ cancelled' = TRUE
    /\ ifc' = [ifc EXCEPT ![i] = "tick"]
    /\ UNCHANGED <<net, nerr, config, addrs, route, resolv, errs, storing, netrace>>

\* errs[iface] = err begins ...
StoreBegin(i) ==
    /\ ifc[i] = "failed"
    /\ storing' = storing \cup {i}
    /\ ifc' = [ifc EXCEPT ![i] = "storing"]
    /\ netrace' = IF storing = {} THEN netrace ELSE "seen"
    /\ UNCHANGED <<net, nerr, cancelled, config, addrs, route, resolv, errs>>

\* ... and ends
StoreEnd(i) ==
    /\ ifc[i] = "storing"
    /\ storing' = storing \ {i}
    /\ \/ /\ errs' = errs \cup {i}
          /\ ifc' = [ifc EXCEPT ![i] = "tick"]
          /\ UNCHANGED netrace
       \/ /\ netrace = "seen"
          /\ ifc' = [ifc EXCEPT ![i] = "tick"]
          /\ UNCHANGED <<errs, netrace>>
       \/ /\ netrace = "seen"
          /\ netrace' = "fatal"
          /\ UNCHANGED <<errs, ifc>>
    /\ UNCHANGED <<net, nerr, cancelled, config, addrs, route, resolv>>

\* networkUp receives the tick of i; nobody does after it has returned
Tick(i) ==
    /\ net = "select" /\ ifc[i] = "tick"
    /\ ifc' = [ifc EXCEPT ![i] = "ended"]
    /\ IF errs = Interfaces
       THEN net' = "returned" /\ nerr' = "error"
       ELSE UNCHANGED <<net, nerr>>
    /\ UNCHANGED <<cancelled, config, addrs, route, resolv, errs, storing, netrace>>

NetDone ==
    /\ net = "select" /\ cancelled
    /\ net' = "returned" /\ nerr' = "nil"
    /\ UNCHANGED <<ifc, cancelled, config, addrs, route, resolv, errs, storing, netrace>>

Goroutine(i) == Configure(i) \/ Cancel(i) \/ StoreBegin(i) \/ StoreEnd(i)
NetStep == NetStart \/ NetDone \/ \E i \in Interfaces : Tick(i)

NetNext == NetStep \/ \E i \in Interfaces : Goroutine(i)

-----------------------------------------------------------------------------
(* Properties *)

\* networkUp returns nil only if one interface has its address and the
\* default route through a known gateway; name servers are those of the
\* interface with the default route, whatever the other goroutines do, also
\* after networkUp has returned.
UpMeansConfigured ==
    /\ nerr = "nil" =>
          /\ route.iface \in addrs /\ route.gw # "none"
          /\ resolv.iface = route.iface
          /\ resolv.dns # {}
    /\ resolv.iface # NoIface => resolv.iface = route.iface

\* networkUp reports failure only if no interface was configured, although
\* goroutines may lose the errors of one another.
GivesUpLast == nerr = "error" => ~cancelled
=============================================================================
