------------------------------ MODULE MCConsumer ------------------------------
EXTENDS TeleTaskConsumer, TLC

Symmetry == Permutations(Consumer)

\* Every initial map, but for what has no effect: the rows do not interact,
\* and a bit that is no index's is never read.
MCInit ==
  /\ SystemInit
  /\ \A m \in Minute : fetch_map[m] = fetch_map[0]
  /\ \A w \in 0 .. MAX_INDEX - 1 : \A b \in fetch_map[0][w] :
       w * WordBits + b \in Index

MCSafeSpec == MCInit /\ [][SystemNext]_systemVars
MCSpec == MCSafeSpec /\ SystemFairness

\* Bound: at first no bit is one, and the others store in the row of the first
\* window.
MCAmongOthersInit == MCInit /\ fetch_map[0][0] = {}

MCOthers_Store ==
  Others_Store /\ \A m \in Minute \ {0} : fetch_map'[m] = fetch_map[m]

MCAmongOthersSpec ==
  MCAmongOthersInit /\ [][SystemNext \/ MCOthers_Store]_systemVars

=============================================================================
