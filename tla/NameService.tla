---------------------------- MODULE NameService ----------------------------
(***************************************************************************)
(* Bus names: who owns one, who waits for it, and who waits for a service  *)
(* to be started (src/bus/dbusimpl.c and src/bus/connection.c).            *)
(*                                                                         *)
(* All of this runs on the main loop: a D-Bus call, a closed connection    *)
(* and a timeout are one action each, with the NameLost, NameAcquired and  *)
(* NameOwnerChanged signals they emit.                                     *)
(***************************************************************************)
EXTENDS Naturals, SequencesExt

CONSTANTS
  Conns,      \* connections (objects, reused when the last reference is gone)
  Names,      \* well-known bus names
  Startable,  \* the names of components the daemon can start
  Calls,      \* bounds the StartServiceByName calls that wait at a time
  None        \* NULL, and the empty string of a signal

ASSUME NameServiceAssumption ==
  /\ Startable \subseteq Names
  /\ None \notin Conns \cup [conn : Conns, name : Names]

Flags == {"allow_replacement", "replace_existing", "do_not_queue"}

\* BusConnectionOwner
Owner == [conn : Conns, flags : SUBSET {"allow_replacement", "do_not_queue"}]

\* BusMethodCall
MethodCall == [conn : Conns, name : Names]

VARIABLES
  status,    \* "open": connected; "named": Hello was answered; "closed"
  owners,    \* service->owners of each name; <<>>: no service in dbus->names
  names,     \* connection->names
  calls,     \* dbus->start_service_calls
  told,      \* <<c, n>>: c heard NameAcquired for n, and no NameLost since
  announced  \* the new owner in the last NameOwnerChanged for a name

signalVars == <<told, announced>>
vars == <<status, owners, names, calls, signalVars>>

TypeOK ==
  /\ status \in [Conns -> {"closed", "open", "named"}]
  /\ owners \in [Names -> Seq(Owner)]
  /\ names \in [Conns -> Seq(Names)]
  /\ calls \in [Calls -> MethodCall \cup {None}]
  /\ told \subseteq Conns \X Names
  /\ announced \in [Names -> Conns \cup {None}]

Init ==
  /\ status = [c \in Conns |-> "closed"]
  /\ owners = [n \in Names |-> <<>>]
  /\ names = [c \in Conns |-> <<>>]
  /\ calls = [k \in Calls |-> None]
  /\ told = {}
  /\ announced = [n \in Names |-> None]

-----------------------------------------------------------------------------
(* The queue of a name. *)

Primary(n) == IF owners[n] = <<>> THEN None ELSE Head(owners[n]).conn

\* find_owner_link and g_slist_delete_link.
RemoveOwner(q, c) == RemoveFirstMatch(q, LAMBDA o : o.conn = c)

\* MUTANT: all flags of the call are kept.
NewOwnerAllFlags(c, flags) == [conn |-> c, flags |-> flags]

NewOwner(c, flags) == [conn |-> c, flags |-> flags \ {"replace_existing"}]

\* MUTANT: the owner's wish is not asked for.
ReplacesAnyone(n, flags) == Primary(n) # None => "replace_existing" \in flags

\* ACTION_REPLACE: the name is free, or both owners agree.
Replaces(n, flags) ==
  Primary(n) # None => /\ "replace_existing" \in flags
                       /\ "allow_replacement" \in Head(owners[n]).flags

\* MUTANT: an owner that leaves the queue keeps the name in its own list.
KeepsName(ns, c, n) == ns

\* bus_connection_remove_name
RemoveName(ns, c, n) == [ns EXCEPT ![c] = RemoveFirst(@, n)]

\* A connection that was destroyed has no unique name any more.
HasUniqueName(c) == status[c] = "named"

\* MUTANT: only one of the calls that wait for the name is answered.
OneAnswered(n) ==
  LET waiting == {k \in Calls : calls[k] # None /\ calls[k].name = n}
  IN IF waiting = {} THEN calls ELSE [calls EXCEPT ![CHOOSE k \in waiting : TRUE] = None]

\* NameAcquired answers every call that waits for the name.
Answered(n) ==
  [k \in Calls |-> IF calls[k] # None /\ calls[k].name = n THEN None ELSE calls[k]]

-----------------------------------------------------------------------------
(* Connections. *)

Referenced(c) ==
  \/ \E n \in Names : \E o \in ToSet(owners[n]) : o.conn = c
  \/ \E k \in Calls : calls[k] # None /\ calls[k].conn = c

NewConnection(c) ==
  /\ status[c] = "closed" /\ ~Referenced(c)
  /\ status' = [status EXCEPT ![c] = "open"]
  /\ UNCHANGED <<owners, names, calls, signalVars>>

Hello(c) ==
  /\ status[c] = "open"
  /\ status' = [status EXCEPT ![c] = "named"]
  /\ UNCHANGED <<owners, names, calls, signalVars>>

\* MUTANT: the next owner of the queue is not told.
NobodyNext(q) == None

\* _new when has_new_owner: who is told that it owns the name now.
NewOwnerOf(q) ==
  IF q # <<>> /\ HasUniqueName(Head(q).conn) THEN Head(q).conn ELSE None

(* Connection c gives up the names of the set ns.  The signals speak of    *)
(* those it was the primary owner of.                                      *)
GiveUp(c, ns) ==
  LET lost == {n \in ns : Primary(n) = c}
      new  == [n \in lost |-> NewOwnerOf(RemoveOwner(owners[n], c))]
  IN /\ owners' = [n \in Names |-> IF n \in ns THEN RemoveOwner(owners[n], c) ELSE owners[n]]
     /\ told' = (told \ {<<c, n>> : n \in lost})
                  \cup {<<new[n], n>> : n \in {x \in lost : new[x] # None}}
     /\ announced' = [n \in Names |-> IF n \in lost THEN new[n] ELSE announced[n]]

(* A connection closes.  dbusimpl's handler of "destroy" runs before the   *)
(* connection forgets its names and its unique name: it follows            *)
(* connection->names, and drops the calls of a connection that said Hello. *)
DestroyConnection(c) ==
  /\ status[c] # "closed"
  /\ GiveUp(c, ToSet(names[c]))
  /\ calls' = [k \in Calls |->
                 IF calls[k] # None /\ calls[k].conn = c /\ HasUniqueName(c)
                 THEN None ELSE calls[k]]
  /\ names' = [names EXCEPT ![c] = <<>>]
  /\ status' = [status EXCEPT ![c] = "closed"]

-----------------------------------------------------------------------------
(* RequestName.  Only connections that said Hello call it.  c may wait for *)
(* the name already: q is the queue, and ns the private lists, without it. *)

\* ACTION_REPLACE: the old owner stays, second in the queue, unless it
\* asked not to.
NameTaken(c, n, flags, q, ns) ==
  LET old   == Primary(n)
      stays == old = None \/ "do_not_queue" \notin Head(q).flags
  IN /\ Replaces(n, flags)
     /\ owners' = [owners EXCEPT ![n] = <<NewOwner(c, flags)>>
                                          \o (IF stays THEN q ELSE Tail(q))]
     /\ names' = LET added == [ns EXCEPT ![c] = Append(@, n)]
                 IN IF stays THEN added ELSE RemoveName(added, old, n)
     /\ told' = (told \ {<<old, n>>}) \cup {<<c, n>>}
     /\ announced' = [announced EXCEPT ![n] = c]
     /\ calls' = Answered(n)

NameQueued(c, n, flags, q, ns) ==
  /\ ~Replaces(n, flags)
  /\ "do_not_queue" \notin flags
  /\ owners' = [owners EXCEPT ![n] = Append(q, NewOwner(c, flags))]
  /\ names' = ns
  /\ UNCHANGED <<calls, signalVars>>

NameExists(c, n, flags, q, ns) ==
  /\ ~Replaces(n, flags)
  /\ "do_not_queue" \in flags
  /\ owners' = [owners EXCEPT ![n] = q]
  /\ names' = ns
  /\ UNCHANGED <<calls, signalVars>>

RequestName(c, n, flags) ==
  LET q  == RemoveOwner(owners[n], c)
      ns == RemoveName(names, c, n)
  IN /\ HasUniqueName(c) /\ Primary(n) # c
     /\ \/ NameTaken(c, n, flags, q, ns)
        \/ NameQueued(c, n, flags, q, ns)
        \/ NameExists(c, n, flags, q, ns)
     /\ UNCHANGED status

-----------------------------------------------------------------------------
\* ReleaseName: NOT_OWNER for a name that is not in connection->names.
ReleaseName(c, n) ==
  /\ HasUniqueName(c) /\ n \in ToSet(names[c])
  /\ GiveUp(c, {n})
  /\ names' = RemoveName(names, c, n)
  /\ UNCHANGED <<status, calls>>

\* The component is started and the call waits until the name is acquired.
StartServiceByName(k, c, n) ==
  /\ status[c] # "closed" /\ n \in Startable
  /\ owners[n] = <<>>
  /\ calls[k] = None
  /\ calls' = [calls EXCEPT ![k] = [conn |-> c, name |-> n]]
  /\ UNCHANGED <<status, owners, names, signalVars>>

StartServiceTimeout(k) ==
  /\ calls[k] # None
  /\ calls' = [calls EXCEPT ![k] = None]
  /\ UNCHANGED <<status, owners, names, signalVars>>

Next ==
  \/ \E c \in Conns : \/ NewConnection(c)
                      \/ Hello(c)
                      \/ DestroyConnection(c)
                      \/ \E n \in Names : \/ \E flags \in SUBSET Flags : RequestName(c, n, flags)
                                          \/ ReleaseName(c, n)
                                          \/ \E k \in Calls : StartServiceByName(k, c, n)
  \/ \E k \in Calls : StartServiceTimeout(k)

Spec == Init /\ [][Next]_vars

-----------------------------------------------------------------------------
(***************************************************************************)
(* A connection waits for a name, or owns it, once: a second entry would   *)
(* outlive its ReleaseName and make it own what it gave up.                *)
(***************************************************************************)
OneEntry ==
  \A n \in Names : \A i, j \in 1..Len(owners[n]) :
    owners[n][i].conn = owners[n][j].conn => i = j

(***************************************************************************)
(* The private list of a connection agrees with the queues: each name is   *)
(* there once, and the connection has an entry in its queue.  These are    *)
(* the g_asserts of bus_dbus_impl_connection_destroy_cb, and what          *)
(* bus_dbus_impl_release_name passes to remove_owner without a test.       *)
(***************************************************************************)
PrivateNames ==
  \A c \in Conns : \A i \in 1..Len(names[c]) :
    /\ \E o \in ToSet(owners[names[c][i]]) : o.conn = c
    /\ \A j \in 1..Len(names[c]) : names[c][i] = names[c][j] => i = j

(***************************************************************************)
(* Requests, promotions and releases keep the queues and the private lists *)
(* of the connections together.                                            *)
(***************************************************************************)
QueuesAgree == OneEntry /\ PrivateNames

(***************************************************************************)
(* Three views of a name agree for every connection that lives: the head   *)
(* of the queue, which receives the messages sent to the name; the last    *)
(* NameAcquired or NameLost the connection heard; and the last             *)
(* NameOwnerChanged all others heard.                                      *)
(***************************************************************************)
OwnershipTold ==
  \A c \in Conns : \A n \in Names :
    HasUniqueName(c) => /\ <<c, n>> \in told <=> Primary(n) = c
                        /\ announced[n] = c <=> Primary(n) = c

(***************************************************************************)
(* A StartServiceByName call waits only while its name has no owner: it is *)
(* answered by whoever acquires the name, and no acquisition passes it by. *)
(***************************************************************************)
StartWaits == \A k \in Calls : calls[k] # None => owners[calls[k].name] = <<>>

(***************************************************************************)
(* An owner that did not allow replacement keeps the name until it leaves, *)
(* and then the one that has waited longest owns it, however the others    *)
(* ask for it.                                                             *)
(***************************************************************************)
Succession ==
  [][ \A n \in Names :
        /\ owners[n] # <<>> /\ "allow_replacement" \notin Head(owners[n]).flags
        /\ Primary(n)' # Primary(n)
        => owners'[n] = Tail(owners[n]) ]_vars

-----------------------------------------------------------------------------
(* What a comment of the source says and the code does not do.             *)

(***************************************************************************)
(* dbusimpl.c:1203: "bus_dbus_impl_connection_destroy_cb() removes all     *)
(* connection->names and the connection owners": every owner of a name,    *)
(* and every connection that waits for one, is connected.                  *)
(***************************************************************************)
OwnersConnected ==
  \A n \in Names : \A o \in ToSet(owners[n]) : status[o.conn] # "closed"

=============================================================================
