------------------------------ MODULE MCStores ------------------------------
(***************************************************************************)
(* Two data structures of the runtime on small instances.  They share      *)
(* nothing, so a host that uses the one or the other does to each all that *)
(* a host can do.                                                          *)
(*                                                                         *)
(* GenTable: a table of one slot that doubles twice, few generations.  The *)
(* table does not look at objects or tags, so one object is enough to tell *)
(* entries apart; the tags also decide what gen_table_get returns.         *)
(* Channel: three slots and three values, so that the ring starts over,    *)
(* fills and empties at every position.                                    *)
(***************************************************************************)
EXTENDS GenTable, Channel, TLC

VARIABLE used   \* which of the two this host uses

storeVars == <<vars, chanVars, used>>

\* What is in a new ring matters only to a host that uses it.
StoresInit ==
    /\ Init /\ ChannelInit
    /\ used \in {"table", "channel"}
    /\ used = "table" => buffer = [s \in Slots |-> CHOOSE v \in Value : TRUE]

UseTable == used = "table" /\ Next /\ NoWrap /\ UNCHANGED <<chanVars, used>>
UseChannel == used = "channel" /\ ChannelNext /\ UNCHANGED <<vars, used>>

StoresSpec == StoresInit /\ [][UseTable \/ UseChannel]_storeVars

Symmetry == Permutations(Objects) \cup Permutations(Tags)
=============================================================================
