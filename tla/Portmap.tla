------------------------------- MODULE Portmap -------------------------------
(***************************************************************************)
(* The port mapping of the gateway (portmap/client.go, upnp.go, natpmp.go):*)
(* found and mapped at the start, renewed on a timer, withdrawn on Close.  *)
(* A tick of the clock is ten minutes; a call to the gateway may be lost,  *)
(* be refused, or be carried out although its answer is lost.              *)
(***************************************************************************)
EXTENDS Integers, FiniteSets

CONSTANTS LeaseDuration,  \* 6 ticks, an hour
          RenewBefore,    \* 1 tick
          Speaks,         \* which protocols the gateway speaks
          MaxTroubles, MaxClock   \* bounds

Protocols == {"upnp", "natpmp"}
ASSUME PortmapAssumption ==
    /\ {LeaseDuration, RenewBefore, MaxTroubles, MaxClock} \subseteq Nat
    /\ 0 < RenewBefore /\ RenewBefore < LeaseDuration /\ Speaks \subseteq Protocols

VARIABLES
    granted, \* when the gateway's mapping by each protocol runs out; 0: none
    client,  \* the Client: its stage and mapper, and when its ticker fires next
    clock,
    misses,  \* renewals that failed since one that did not
    troubles \* calls that went wrong

portmapVars == <<granted, client, clock, misses, troubles>>

Alive(m) == granted[m] > clock
Calls(m) == {"answered", "refused", "unanswered"} \ (IF m \in Speaks THEN {} ELSE {"answered", "unanswered"})
InTrouble(m, how) ==
    IF how = "answered" \/ m \notin Speaks THEN UNCHANGED troubles
    ELSE troubles < MaxTroubles /\ troubles' = troubles + 1
\* addMapping: the mapping, then the external address; either may get no answer,
\* and the gateway has mapped all the same.
Mapped(m, how) == IF how = "refused" THEN granted ELSE [granted EXCEPT ![m] = clock + LeaseDuration]

\* Start: the ticker of renewLoop.  Mutant: a ticker of a whole lease.
WholeLease == LeaseDuration + 1
RenewInterval == LeaseDuration - RenewBefore

\* discoverAndMap: UPnP, then NAT-PMP, then ErrNoGateway.
MapWith(m, how, next) ==
    /\ InTrouble(m, how)
    /\ granted' = Mapped(m, how)
    /\ client' = IF how = "answered" THEN [stage |-> "renewing", mapper |-> m, due |-> clock + RenewInterval]
                 ELSE [client EXCEPT !.stage = next]
    /\ UNCHANGED <<clock, misses>>
DiscoverAndMap ==
    \/ client.stage = "upnp" /\ \E how \in Calls("upnp") : MapWith("upnp", how, "natpmp")
    \/ client.stage = "natpmp" /\ \E how \in Calls("natpmp") : MapWith("natpmp", how, "none")

\* renewLoop, when its ticker fires.
Renew ==
    /\ client.stage = "renewing" /\ client.due <= clock
    /\ \E how \in Calls(client.mapper) :
          /\ InTrouble(client.mapper, how)
          /\ granted' = Mapped(client.mapper, how)
          /\ misses' = IF how = "answered" THEN 0 ELSE misses + 1
    /\ client' = [client EXCEPT !.due = @ + RenewInterval]
    /\ UNCHANGED clock

\* Close, or the context: renewLoop withdraws the mapping and ends.
Deleted(m, how) == IF how = "refused" THEN granted ELSE [granted EXCEPT ![m] = 0]
Withdraw ==
    /\ client.stage = "renewing"
    /\ client' = [client EXCEPT !.stage = "closed"]
    /\ \E how \in Calls(client.mapper) : InTrouble(client.mapper, how) /\ granted' = Deleted(client.mapper, how)
    /\ UNCHANGED <<clock, misses>>

\* Time passes, but a ticker that is due is served first.
PortmapTick ==
    /\ clock < MaxClock /\ client.stage \notin Protocols /\ ~(client.stage = "renewing" /\ client.due <= clock)
    /\ clock' = clock + 1
    /\ UNCHANGED <<granted, client, misses, troubles>>

PortmapInit ==
    /\ granted = [m \in Protocols |-> 0]
    /\ client = [stage |-> "upnp", mapper |-> "upnp", due |-> 0]
    /\ clock = 0 /\ misses = 0 /\ troubles = 0
PortmapNext == DiscoverAndMap \/ Renew \/ Withdraw \/ PortmapTick
PortmapSpec == PortmapInit /\ [][PortmapNext]_portmapVars
---------------------------------------------------------------------------
\* Type correctness.
PortmapTypeOK ==
    /\ granted \in [Protocols -> 0..MaxClock + LeaseDuration] /\ clock \in 0..MaxClock
    /\ client.stage \in Protocols \cup {"none", "renewing", "closed"} /\ client.mapper \in Protocols
    /\ client.stage = "renewing" => client.due <= clock + LeaseDuration

\* As long as every renewal is answered the mapping stands: nobody outside meets a
\* closed port between two of them.
NoGap == client.stage = "renewing" /\ misses = 0 => Alive(client.mapper)

\* Close's comment: it withdraws the mapping.  What the gateway still holds for this
\* client after Close is what a call that went wrong has left there.
NothingLeftBehind == client.stage = "closed" /\ troubles = 0 => \A m \in Protocols : ~Alive(m)

\* renewBefore's comment: one missed cycle still leaves margin before the mapping expires.
OneMissLeavesMargin == client.stage = "renewing" /\ misses <= 1 => Alive(client.mapper)

\* The mapping stands while the client lives and is gone when it is closed.
PortmapInv == PortmapTypeOK /\ NoGap /\ NothingLeftBehind
=============================================================================
