--------------------------- MODULE TransactionsMC ---------------------------
(***************************************************************************)
(* Workloads for Transactions.                                             *)
(***************************************************************************)
EXTENDS Transactions, TLC

CONSTANTS h1, h2, w1, w2

TwoHandlers == {h1, h2}
TwoWorkers  == {w1, w2}
OneWorker   == {w1}

Symmetry == Permutations(TwoHandlers) \cup Permutations(TwoWorkers)

Engines == {"sqlite", "postgres", "mysql"}
Load(engines, together, abrupt, drops, n) ==
    [engine : engines, together : {together}, abrupt : {abrupt}, drops : {drops}, calls : {n}]

\* One request after another, each of which returns.
OneByOne == Load(Engines, FALSE, FALSE, FALSE, 3)

\* The same, on connections that may be closed and opened again.
Reopened == Load({"mysql"}, FALSE, FALSE, TRUE, 3)

\* Requests at once, on connections that may be closed.
Together == Load(Engines, TRUE, FALSE, TRUE, 2)

\* Every way of ending.
AnyEnd == Load({"sqlite"}, TRUE, TRUE, FALSE, 1) \cup Load({"sqlite"}, FALSE, TRUE, FALSE, 2)

Typical == OneByOne \cup Reopened \cup Together \cup AnyEnd

\* What each disagreement with the documentation needs.
TwoAtOnce    == Load({"sqlite"}, TRUE, FALSE, FALSE, 2)
AbruptEnds   == Load({"sqlite"}, FALSE, TRUE, FALSE, 2)
DroppedLinks == Reopened
=============================================================================
