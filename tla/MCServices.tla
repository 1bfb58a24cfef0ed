---------------------------- MODULE MCServices ----------------------------
(***************************************************************************)
(* Parts with safety properties only.  Of the bus, its names (three        *)
(* connections compete for two names, one of which can be started) and its *)
(* match rules (two peers and two rules, one of them by the well-known     *)
(* name of the sender); of engines, the one of the keyboard layouts and a  *)
(* table of candidates; of the clients, the XIM server with two            *)
(* connections; of the contexts, the preedit text of one.  Each behaviour  *)
(* is one of the six.  One of the preedit ends with its first mishap:      *)
(* PreeditSettles says nothing of what comes then.                         *)
(***************************************************************************)
EXTENDS NameService, MatchRules, SimpleEngine, XimServer, LookupTable, Preedit, TLC

CONSTANTS ca, cb, cc, peer1, peer2, k1, k2, panel, config

VARIABLE service

mcVars == <<vars, matchVars, simpleVars, ximVars, table, preeditVars, service>>

Symmetry == Permutations({ca, cb, cc})

MCRules == {[member |-> "changed"], [sender |-> config]}
MCMessages == {[member |-> "changed", sender |-> peer1], [member |-> "other", sender |-> peer2]}

(* Prefixes of other sequences, dead keys in a table, and a user's table   *)
(* that has neither the sequences of the system's nor their beginnings.    *)
MCSystemTables ==
  << (<<"multi", "a">> :> <<"ae">>) @@ (<<"acute", "multi", "a">> :> <<"aogonek">>),
     (<<"khmer">> :> <<"am">>) @@ (<<"khmer", "a", "e", "a">> :> <<"om">>) >>
MCUserTables ==
  << (<<"multi", "a", "e">> :> <<"aesh">>), (<<"multi", "e">> :> <<"euro">>) >>
MCCompositions == (<<"acute", "e">> :> <<"eacute">>) @@ (<<"acute", "acute">> :> <<"acute">>)
MCIsScalar(s) == Len(s) < 3

\* Bound: the digits of a number are zeros from the third on.
FewDigits ==
  simple.in_hex => \A i \in 3..Len(simple.compose_buffer) : simple.compose_buffer[i] = Zero

MCInit ==
  /\ Init /\ MatchInit /\ SimpleInit /\ XimInit /\ LookupTableInit /\ PreeditInit
  /\ service \in {"names", "rules", "simple", "xim", "candidates", "preedit"}
  /\ service # "xim" => mode = "sync"
  /\ service # "candidates" => table.page_size = 1 /\ ~table.round
  /\ service # "preedit" => ~clientCommits /\ ~wayland /\ ~embedded

MCNext ==
  /\ UNCHANGED service
  /\ \/ service = "names" /\ Next
        /\ UNCHANGED <<matchVars, simpleVars, ximVars, table, preeditVars>>
     \/ service = "rules" /\ MatchNext
        /\ UNCHANGED <<vars, simpleVars, ximVars, table, preeditVars>>
     \/ service = "simple" /\ SimpleNext /\ FewDigits'
        /\ UNCHANGED <<vars, matchVars, ximVars, table, preeditVars>>
     \/ service = "xim" /\ XimNext
        /\ UNCHANGED <<vars, matchVars, simpleVars, table, preeditVars>>
     \/ service = "candidates" /\ LookupTableNext
        /\ UNCHANGED <<vars, matchVars, simpleVars, ximVars, preeditVars>>
     \/ service = "preedit" /\ mishaps = {} /\ PreeditNext
        /\ UNCHANGED <<vars, matchVars, simpleVars, ximVars, table>>

MCSpec == MCInit /\ [][MCNext]_mcVars

MCFairSpec == MCSpec /\ SimpleFairness
=============================================================================
