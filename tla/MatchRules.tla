----------------------------- MODULE MatchRules -----------------------------
(***************************************************************************)
(* The match rules of the bus (src/bus/matchrule.c, and AddMatch,          *)
(* RemoveMatch and the dispatch by rules of src/bus/dbusimpl.c).  Equal    *)
(* rules of several connections are one object, which counts how often     *)
(* each of its recipients added it; the connection's "destroy" signal      *)
(* removes a recipient that never called RemoveMatch.                      *)
(*                                                                         *)
(* All of it runs on the main loop.  Messages wait in the dispatch queue   *)
(* (MessageRouter); rules, connections and the owners of names change      *)
(* meanwhile, and the recipients are those of the moment of the dispatch.  *)
(***************************************************************************)
EXTENDS Naturals, FiniteSets, SequencesExt

CONSTANTS
  Peers,      \* connections; a unique name stands for its connection
  WellKnown,  \* well-known names
  Rules,      \* the rules peers add: functions from the fields that are given
  Messages,   \* the messages: functions from all fields
  NoOwner,    \* no connection owns the name, or no connection is skipped
  MaxAdds,    \* bound: how often a peer adds the same rule
  MaxWaiting  \* bound: the messages in the dispatch queue

\* Unique names begin with a colon, well-known names do not.
ASSUME MatchAssumption ==
  /\ Peers \cap WellKnown = {} /\ NoOwner \notin Peers
  /\ \A m \in Messages, r \in Rules :
       DOMAIN r \subseteq DOMAIN m /\ \A f \in DOMAIN r : m[f] # NoOwner

VARIABLES
  connected,  \* the peers with a BusConnection
  rules,      \* dbus->rules
  wanted,     \* history: AddMatch minus RemoveMatch of each peer and rule
  ownerOf,    \* the primary owner of each name
  waiting,    \* dbus->dispatch_queue
  delivered   \* the copies each peer got of the last message dispatched

matchVars == <<connected, rules, wanted, ownerOf, waiting, delivered>>

MatchInit ==
  /\ connected = {}
  /\ rules = <<>>
  /\ wanted = [p \in Peers |-> [r \in Rules |-> 0]]
  /\ ownerOf = [n \in WellKnown |-> NoOwner]
  /\ waiting = <<>>
  /\ delivered = [p \in Peers |-> 0]

-----------------------------------------------------------------------------
(* Rules. *)

\* bus_match_rule_match_name: the unique name of a message matches the
\* well-known name that its connection owns.
MatchName(name, given) ==
  IF name \in Peers /\ given \in WellKnown THEN ownerOf[given] = name ELSE name = given

\* MUTANT: names are compared as they are written.
MatchVerbatim(rule, m) == \A f \in DOMAIN rule : m[f] = rule[f]

\* bus_match_rule_match
Match(rule, m) ==
  \A f \in DOMAIN rule :
    IF f \in {"sender", "destination"} THEN MatchName(m[f], rule[f]) ELSE m[f] = rule[f]

\* The index of the recipient, 0 if the rule has not got it.
RecipientIndex(object, p) == SelectInSeq(object.recipients, LAMBDA x : x.peer = p)

\* bus_match_rule_add_recipient
AddRecipient(object, p) ==
  LET i == RecipientIndex(object, p)
  IN IF i # 0
     THEN [object EXCEPT !.recipients[i].refcount = @ + 1]
     ELSE [object EXCEPT !.recipients = Append(@, [peer |-> p, refcount |-> 1])]

\* bus_match_rule_remove_recipient
RemoveRecipient(object, p) ==
  LET i == RecipientIndex(object, p)
  IN CASE i = 0 -> object
       [] i # 0 /\ object.recipients[i].refcount = 1 ->
            [object EXCEPT !.recipients = RemoveAt(@, i)]
       [] OTHER -> [object EXCEPT !.recipients[i].refcount = @ - 1]

\* MUTANT: a connection that closes takes back one AddMatch only.
DropOneReference(object, p) == RemoveRecipient(object, p)

\* bus_match_rule_connection_destroy_cb: the rule stays, without recipients
\* too, because the loop returns before it looks at that.
DropRecipient(object, p) ==
  LET i == RecipientIndex(object, p)
  IN IF i = 0 THEN object ELSE [object EXCEPT !.recipients = RemoveAt(@, i)]

\* bus_match_rule_is_equal: the same fields with the same values.
RuleIndex(rule) == SelectInSeq(rules, LAMBDA x : x.rule = rule)

-----------------------------------------------------------------------------
Connect(p) ==
  /\ p \notin connected
  /\ connected' = connected \cup {p}
  /\ UNCHANGED <<rules, wanted, ownerOf, waiting, delivered>>

AddMatch(p, rule) ==
  /\ p \in connected /\ wanted[p][rule] < MaxAdds
  /\ LET i == RuleIndex(rule)
     IN rules' = IF i = 0
                 THEN Append(rules, AddRecipient([rule |-> rule, recipients |-> <<>>], p))
                 ELSE [rules EXCEPT ![i] = AddRecipient(@, p)]
  /\ wanted' = [wanted EXCEPT ![p][rule] = @ + 1]
  /\ UNCHANGED <<connected, ownerOf, waiting, delivered>>

\* The object is destroyed with its last recipient, and leaves dbus->rules.
\* A rule that somebody else added, or nobody, is not an error.
RemoveMatch(p, rule) ==
  /\ p \in connected
  /\ LET i == RuleIndex(rule)
         object == RemoveRecipient(rules[i], p)
     IN rules' = CASE i = 0 -> rules
                   [] i # 0 /\ RecipientIndex(rules[i], p) # 0 /\ object.recipients = <<>> ->
                        RemoveAt(rules, i)
                   [] OTHER -> [rules EXCEPT ![i] = object]
  /\ wanted' = [wanted EXCEPT ![p][rule] = IF @ = 0 THEN 0 ELSE @ - 1]
  /\ UNCHANGED <<connected, ownerOf, waiting, delivered>>

\* The connection closes: its names, its recipients and its wishes are gone;
\* the queue keeps the message that skips it.
Disconnect(p) ==
  /\ p \in connected
  /\ connected' = connected \ {p}
  /\ rules' = [i \in DOMAIN rules |-> DropRecipient(rules[i], p)]
  /\ wanted' = [wanted EXCEPT ![p] = [r \in Rules |-> 0]]
  /\ ownerOf' = [n \in WellKnown |-> IF ownerOf[n] = p THEN NoOwner ELSE ownerOf[n]]
  /\ UNCHANGED <<waiting, delivered>>

\* RequestName and ReleaseName (NameService).
OwnerChanges(n, p) ==
  /\ p \in connected \cup {NoOwner} /\ ownerOf[n] # p
  /\ ownerOf' = [ownerOf EXCEPT ![n] = p]
  /\ UNCHANGED <<connected, rules, wanted, waiting, delivered>>

\* bus_dbus_impl_dispatch_message_by_rule, with the connection to skip.
QueueForRules(m, skip) ==
  /\ Len(waiting) < MaxWaiting
  /\ m["sender"] \in connected
  /\ skip \in connected \cup {NoOwner}
  /\ waiting' = Append(waiting, [message |-> m, skip |-> skip])
  /\ UNCHANGED <<connected, rules, wanted, ownerOf, delivered>>

\* One copy for each rule object that matches and has the peer.
Copies(p, data) ==
  IF p = data.skip THEN 0
  ELSE Cardinality({i \in DOMAIN rules :
                      RecipientIndex(rules[i], p) # 0 /\ Match(rules[i].rule, data.message)})

\* bus_dbus_impl_dispatch_message_by_rule_idle_cb
DispatchToRecipients ==
  /\ waiting # <<>>
  /\ waiting' = Tail(waiting)
  /\ delivered' = [p \in Peers |-> Copies(p, Head(waiting))]
  /\ UNCHANGED <<connected, rules, wanted, ownerOf>>

MatchNext ==
  \/ \E p \in Peers : \/ Connect(p) \/ Disconnect(p)
                      \/ \E r \in Rules : AddMatch(p, r) \/ RemoveMatch(p, r)
  \/ \E n \in WellKnown, p \in Peers \cup {NoOwner} : OwnerChanges(n, p)
  \/ \E m \in Messages, p \in Peers \cup {NoOwner} : QueueForRules(m, p)
  \/ DispatchToRecipients

-----------------------------------------------------------------------------
(***************************************************************************)
(* The shared objects say what each peer asked for: a peer is a recipient  *)
(* of a rule as often as it added it and did not remove it, in one object  *)
(* only, and a peer whose connection closed is none (its BusConnection has *)
(* no GDBusConnection any more, which the dispatch would send to).         *)
(***************************************************************************)
RulesAreWanted ==
  /\ \A i, j \in DOMAIN rules : rules[i].rule = rules[j].rule => i = j
  /\ \A p \in Peers, r \in Rules :
       LET i == RuleIndex(r)
           k == IF i = 0 THEN 0 ELSE RecipientIndex(rules[i], p)
       IN wanted[p][r] = IF k = 0 THEN 0 ELSE rules[i].recipients[k].refcount

(***************************************************************************)
(* A message reaches exactly the peers that want it when it is dispatched, *)
(* whoever owns the names by then: one that has a rule whose fields agree, *)
(* where a well-known name of a sender or a destination stands for its     *)
(* owner; not the one to skip, and no peer that has left.                  *)
(***************************************************************************)
Called(f, name) ==
  {name} \cup {n \in WellKnown : f \in {"sender", "destination"} /\ ownerOf[n] = name}

Agrees(rule, m) == \A f \in DOMAIN rule : rule[f] \in Called(f, m[f])

RuleDelivery ==
  [][ Len(waiting') < Len(waiting) =>
        \A p \in Peers :
          delivered'[p] > 0 <=> /\ p \in connected /\ p # Head(waiting).skip
                                /\ \E r \in Rules : /\ wanted[p][r] > 0
                                                    /\ Agrees(r, Head(waiting).message)
    ]_matchVars
=============================================================================
