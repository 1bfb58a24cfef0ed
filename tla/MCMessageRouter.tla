--------------------------- MODULE MCMessageRouter ---------------------------
(***************************************************************************)
(* Three connections.  a forwards two messages to b; b calls a name nobody *)
(* owns and sends one message to the daemon; the daemon broadcasts one     *)
(* signal and forwards another to b.  a watches what the daemon is sent, b *)
(* both signals, one of which is sent to b.  w watches all the others, the *)
(* first message of a and the broadcast signal through two match rules.    *)
(***************************************************************************)
EXTENDS MessageRouter

CONSTANTS a, b, w, main, daemon, absent, m1, m2, lostCall, toDaemon, signal, acquired

MCConns == {a, b, w}
MCMsgs  == {m1, m2, lostCall, toDaemon, signal, acquired}
MCCalls == {lostCall}

MCDest ==
  [m \in MCMsgs |-> CASE m \in {m1, m2, acquired} -> b
                      [] m = lostCall -> absent
                      [] OTHER -> daemon]

MCOutgoing ==
  [t \in MCConns \cup {main} |-> CASE t = a -> <<m1, m2>>
                                   [] t = b -> <<lostCall, toDaemon>>
                                   [] t = main -> <<signal, acquired>>
                                   [] OTHER -> <<>>]

MCWatching ==
  [m \in MCMsgs \cup Replies |->
     [c \in MCConns |-> CASE c = w -> IF m \in {m1, signal} THEN 2
                                         ELSE IF m = toDaemon THEN 0 ELSE 1
                          [] c = b /\ m \in {signal, acquired} -> 1
                          [] c = a /\ m = toDaemon -> 1
                          [] OTHER -> 0]]
=============================================================================
