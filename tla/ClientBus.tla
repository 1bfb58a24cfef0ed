----------------------------- MODULE ClientBus -----------------------------
(***************************************************************************)
(* The connection of a client to the daemon (IBusBus, src/src/ibusbus.c).  *)
(* A daemon that starts writes its address to a file; the client's file    *)
(* monitor makes it connect again.  Connecting runs in a thread, and its   *)
(* callback, the monitor and the "closed" signal run on the client's main  *)
(* loop in any order.                                                      *)
(*                                                                         *)
(* A request to connect and the GDBusConnection it may yield have the same *)
(* number.  The address of a daemon is the number of its start.  Portals   *)
(* and the end of the IBusBus object are left out.                         *)
(***************************************************************************)
EXTENDS Integers, FiniteSets

CONSTANTS
  MaxStarts,    \* bound: how often a daemon starts
  MaxRequests,  \* bound: the requests of the client
  Null          \* NULL

ASSUME ClientBusAssumption == MaxStarts \in Nat /\ MaxRequests \in Nat /\ Null \notin Nat

VARIABLES
  daemon,     \* the daemon that runs, 0 if none
  started,    \* the daemon that wrote the address file last
  refused,    \* the daemon that runs did not take a connection
  changes,    \* "changed" signals of the file monitor under way
  bus,        \* bus->priv; exists: the object has been created
  requests,   \* the calls of g_dbus_connection_new_for_address
  link,       \* the GDBusConnections; "closing": "closed" is not yet emitted
  handlers,   \* the connections with _connection_closed_cb
  told        \* the application heard "connected", and not "disconnected" since

daemonVars == <<daemon, started, refused>>
busVars == <<daemonVars, changes, bus, requests, link, handlers, told>>

Addresses == 1..MaxStarts
RequestIds == 1..MaxRequests

BusTypeOK ==
  /\ daemon \in 0..MaxStarts /\ started \in 0..MaxStarts /\ changes \in 0..2
  /\ refused \in BOOLEAN
  /\ bus \in [exists : BOOLEAN, address : Addresses \cup {Null}, connection : RequestIds \cup {Null},
              connected : BOOLEAN, watch : BOOLEAN, subscribed : RequestIds \cup {Null}]
  /\ requests \in [RequestIds -> [address : Addresses \cup {Null}, cancelled : BOOLEAN,
                                  phase : {"unused", "running", "ok", "failed", "done"}]]
  /\ link \in [RequestIds -> {"none", "open", "closing", "closed"}]
  /\ handlers \subseteq RequestIds
  /\ told \in BOOLEAN

BusInit ==
  /\ daemon = 0 /\ started = 0 /\ changes = 0 /\ refused = FALSE
  /\ bus = [exists |-> FALSE, address |-> Null, connection |-> Null, connected |-> FALSE,
            watch |-> FALSE, subscribed |-> Null]
  /\ requests = [r \in RequestIds |->
                   [address |-> Null, cancelled |-> FALSE, phase |-> "unused"]]
  /\ link = [r \in RequestIds |-> "none"]
  /\ handlers = {}
  /\ told = FALSE

-----------------------------------------------------------------------------
(* The daemon, and the thread of a request. *)

\* ibus_write_address: the file is removed, created and written.  The monitor
\* exists as long as the object.
DaemonStarts ==
  /\ daemon = 0 /\ started < MaxStarts
  /\ daemon' = started + 1 /\ started' = started + 1 /\ refused' = FALSE
  /\ changes' = IF bus.exists THEN 2 ELSE 0
  /\ UNCHANGED <<bus, requests, link, handlers, told>>

DaemonExits ==
  /\ daemon # 0
  /\ daemon' = 0
  /\ link' = [r \in RequestIds |-> IF link[r] = "open" THEN "closing" ELSE link[r]]
  /\ UNCHANGED <<started, refused, changes, bus, requests, handlers, told>>

(* A cancelled request fails, or it does not notice: the cancellable is    *)
(* reset at once.  A daemon may also refuse a connection.                  *)
RequestEnds(r) ==
  /\ requests[r].phase = "running"
  /\ \/ /\ daemon = requests[r].address
        /\ requests' = [requests EXCEPT ![r].phase = "ok"]
        /\ link' = [link EXCEPT ![r] = "open"]
        /\ UNCHANGED refused
     \/ /\ requests' = [requests EXCEPT ![r].phase = "failed"]
        /\ refused' = (refused \/ (daemon = requests[r].address /\ ~requests[r].cancelled))
        /\ UNCHANGED link
  /\ UNCHANGED <<daemon, started, changes, bus, handlers, told>>

-----------------------------------------------------------------------------
(* The client's main loop. *)

\* ibus_get_address: a file whose daemon has ended does not count.
BusAddress == IF daemon = 0 THEN Null ELSE started

Unfinished == {r \in RequestIds : requests[r].phase \in {"running", "ok", "failed"}}

\* ibus_bus_is_connected
IsConnected == bus.connection # Null /\ link[bus.connection] = "open" /\ bus.connected

\* MUTANT: the subscription is thought to outlive its connection.
ClosedKeepingWatch(b) == [b EXCEPT !.address = Null, !.connection = Null, !.connected = FALSE]

\* ibus_bus_close_connection, its assignments to bus->priv
Closed(b) ==
  [b EXCEPT !.address = Null, !.connection = Null, !.connected = FALSE, !.subscribed = Null]

Cancelled ==
  [r \in RequestIds |-> [requests[r] EXCEPT !.cancelled = @ \/ r \in Unfinished]]

\* ... and its effect on the connection, which emits "closed" to nobody.
CloseConnection ==
  /\ link' = [r \in RequestIds |-> IF r = bus.connection THEN "closed" ELSE link[r]]
  /\ handlers' = handlers \ {bus.connection}
  /\ told' = (told /\ bus.connection = Null)

\* ibus_bus_watch_dbus_signal: g_return_if_fail (watch_dbus_signal_id == 0)
Watched(b) == [b EXCEPT !.subscribed = IF @ = Null THEN b.connection ELSE @]

\* ibus_bus_connect_completed
Completed(b) == LET c == [b EXCEPT !.connected = TRUE]
                IN IF c.watch THEN Watched(c) ELSE c

\* MUTANT: only a client without a connection connects.
NeedsConnection(address) == address # Null /\ bus.connection = Null

\* The early returns of ibus_bus_connect_async.
IsNewAddress(address) == address # Null /\ address # bus.address

\* ibus_bus_connect_async
ConnectAsync(r) ==
  /\ IsNewAddress(BusAddress)
  /\ requests[r].phase = "unused" /\ \A q \in 1..(r - 1) : requests[q].phase # "unused"
  /\ CloseConnection
  /\ bus' = [Closed(bus) EXCEPT !.exists = TRUE, !.address = BusAddress]
  /\ requests' = [Cancelled EXCEPT ![r] = [address |-> BusAddress, cancelled |-> FALSE,
                                           phase |-> "running"]]

AlreadyConnecting == ~IsNewAddress(BusAddress) /\ UNCHANGED <<bus, requests, link, handlers, told>>

\* ibus_bus_connect: the constructor blocks until it is connected, ...
Connect(r) ==
  /\ r = 1
  /\ BusAddress # Null
  /\ bus' = Completed([bus EXCEPT !.exists = TRUE, !.address = BusAddress, !.connection = r])
  /\ requests' = [requests EXCEPT ![r] = [address |-> BusAddress, cancelled |-> FALSE,
                                          phase |-> "done"]]
  /\ link' = [link EXCEPT ![r] = "open"]
  /\ handlers' = {r}
  /\ told' = TRUE
  /\ UNCHANGED refused

\* ... or has found that it is not.
ConnectFails ==
  /\ refused' = (refused \/ BusAddress # Null)
  /\ bus' = [bus EXCEPT !.exists = TRUE]
  /\ UNCHANGED <<requests, link, handlers, told>>

NewBus ==
  /\ ~bus.exists
  /\ \/ \E r \in RequestIds : Connect(r)
     \/ \E r \in RequestIds : ConnectAsync(r) /\ UNCHANGED refused
     \/ ConnectFails
  /\ UNCHANGED <<daemon, started, changes>>

\* _changed_cb
AddressChanged ==
  /\ changes > 0
  /\ changes' = changes - 1
  /\ \/ \E r \in RequestIds : ConnectAsync(r)
     \/ AlreadyConnecting
  /\ UNCHANGED daemonVars

Failed(b) == [b EXCEPT !.connection = Null, !.address = Null]

\* _bus_connect_async_cb.  A connection that was there is overwritten.
ConnectReady(r) ==
  /\ requests[r].phase \in {"ok", "failed"}
  /\ requests' = [requests EXCEPT ![r].phase = "done"]
  /\ IF requests[r].phase = "ok"
     THEN /\ bus' = Completed([bus EXCEPT !.connection = r])
          /\ handlers' = handlers \cup {r}
          /\ told' = TRUE
     ELSE /\ bus' = Failed(bus)
          /\ UNCHANGED <<handlers, told>>
  /\ UNCHANGED <<daemonVars, changes, link>>

(* "closed" is emitted, to _connection_closed_cb if it is connected: it    *)
(* closes bus->priv->connection, whichever that is.                        *)
ConnectionLost(r) ==
  /\ link[r] = "closing"
  /\ IF r \in handlers
     THEN /\ link' = [q \in RequestIds |-> IF q \in {r, bus.connection} THEN "closed" ELSE link[q]]
          /\ handlers' = handlers \ {bus.connection}
          /\ told' = (told /\ bus.connection = Null)
          /\ bus' = Closed(bus)
          /\ requests' = Cancelled
     ELSE /\ link' = [link EXCEPT ![r] = "closed"]
          /\ UNCHANGED <<handlers, told, bus, requests>>
  /\ UNCHANGED <<daemonVars, changes>>

\* ibus_bus_set_watch_dbus_signal
SetWatch(watch) ==
  /\ bus.exists /\ bus.watch # watch
  /\ LET b == [bus EXCEPT !.watch = watch]
     IN bus' = CASE ~IsConnected -> b
                 [] IsConnected /\ watch -> Watched(b)
                 [] OTHER -> [b EXCEPT !.subscribed = Null]
  /\ UNCHANGED <<daemonVars, changes, requests, link, handlers, told>>

BusNext ==
  \/ DaemonStarts \/ DaemonExits
  \/ NewBus \/ AddressChanged
  \/ \E r \in RequestIds : RequestEnds(r) \/ ConnectReady(r) \/ ConnectionLost(r)
  \/ \E w \in BOOLEAN : SetWatch(w)

SomeRequestEnds == \E r \in RequestIds : RequestEnds(r)
SomeConnectReady == \E r \in RequestIds : ConnectReady(r)

(* Threads end, and the main loop gets to the monitor and to the callbacks *)
(* of requests; that a lost connection is noticed is not needed.           *)
BusFairness ==
  /\ WF_busVars(AddressChanged)
  /\ WF_busVars(SomeRequestEnds)
  /\ WF_busVars(SomeConnectReady)

BusSpec == BusInit /\ [][BusNext]_busVars

-----------------------------------------------------------------------------
AnyCancelled == \E r \in RequestIds : requests[r].cancelled

(***************************************************************************)
(* As long as no request was cancelled, what the application sees of the   *)
(* bus agrees with its connection: it was told "connected" exactly while   *)
(* there is one; the signals it watches come from that one; a change of    *)
(* the file is compared with that one's address; and no other connection   *)
(* is open or will speak to the object.                                    *)
(***************************************************************************)
BusInOrder ==
  ~AnyCancelled =>
    LET c == bus.connection
    IN /\ told <=> c # Null
       /\ bus.connected <=> c # Null
       /\ bus.subscribed \in {Null, c}
       /\ IsConnected => bus.subscribed = IF bus.watch THEN c ELSE Null
       /\ c # Null => bus.address = requests[c].address
       /\ \A r \in RequestIds : (link[r] = "open" /\ requests[r].phase = "done") \/ r \in handlers
                                => r = c

(***************************************************************************)
(* A client without cancelled requests gets connected to a daemon that     *)
(* stays and refuses no connection, whatever was lost before and in        *)
(* whichever order it notices.                                             *)
(***************************************************************************)
DaemonStays == daemon # 0 /\ bus.exists /\ ~AnyCancelled /\ ~refused

GetsConnected == <>[]DaemonStays => <>[]IsConnected

\* the ways there: the monitor will speak, a thread connects, it has connected
Outdated == changes = 2 /\ bus.address # started
Connecting == \E r \in RequestIds : requests[r].phase = "running" /\ requests[r].address = started
Established ==
  \E r \in RequestIds : requests[r].phase = "ok" /\ requests[r].address = started /\ link[r] = "open"

(***************************************************************************)
(* While a daemon stays the step that is due can be taken: no callback     *)
(* waits for another one, and ConnectAsync finds an unused request.        *)
(***************************************************************************)
BusStepsEnabled ==
  DaemonStays =>
    /\ Outdated => ENABLED <<AddressChanged>>_busVars
    /\ Connecting => ENABLED <<SomeRequestEnds>>_busVars
    /\ Established => ENABLED <<SomeConnectReady>>_busVars

(***************************************************************************)
(* ibusbus.c:514: "Close current connection and cancel ongoing connect     *)
(* request." A request that was cancelled does not touch the connection of *)
(* the one that took its place.                                            *)
(***************************************************************************)
CancelledHasNoEffect ==
  [][ \A r \in RequestIds :
        requests[r].cancelled /\ requests[r].phase # "done" /\ requests'[r].phase = "done"
          => bus'.connection = bus.connection ]_busVars
=============================================================================
