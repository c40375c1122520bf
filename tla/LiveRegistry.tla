----------------------------- MODULE LiveRegistry -----------------------------
(***************************************************************************)
(* What the connector registry promises its readers: what is live is what  *)
(* the table said at one moment, never a mixture of two moments, except    *)
(* that a connector which cannot be built is missing.                      *)
(*                                                                         *)
(* A loader takes a snapshot of the table and later makes it live.  While  *)
(* it holds the snapshot, the table and the live map may change.           *)
(***************************************************************************)
CONSTANTS
  Loaders,
  Providers,
  Configs,
  Buildable,
  Off,         \* no connector
  NoSnapshot   \* the loader holds none

VARIABLES
  table,     \* table[p]: the enabled configuration of provider p, or Off
  live,      \* live[p]: the connector in use for provider p, or Off
  snapshot   \* snapshot[l]: the table as loader l read it

vars == <<table, live, snapshot>>

Map == [Providers -> Configs \cup {Off}]

Empty == [p \in Providers |-> Off]

Init ==
  /\ table \in Map
  /\ live = Empty
  /\ snapshot = [l \in Loaders |-> NoSnapshot]

\* An administrator changes the connector of one provider.
Write ==
  /\ \E p \in Providers, config \in Configs \cup {Off} :
       table' = [table EXCEPT ![p] = config]
  /\ UNCHANGED <<live, snapshot>>

Take(l) ==
  /\ snapshot[l] = NoSnapshot
  /\ snapshot' = [snapshot EXCEPT ![l] = table]
  /\ UNCHANGED <<table, live>>

\* The whole snapshot goes live at once, less what could not be built.
Publish(l) ==
  /\ snapshot[l] # NoSnapshot
  /\ \A p \in Providers :
       \/ live'[p] = Off
       \/ live'[p] = snapshot[l][p] /\ live'[p] \in Buildable
  /\ live' \in Map
  /\ snapshot' = [snapshot EXCEPT ![l] = NoSnapshot]
  /\ UNCHANGED table

\* The process restarts.
Lose ==
  /\ live' = Empty
  /\ snapshot' = [l \in Loaders |-> NoSnapshot]
  /\ UNCHANGED table

Next == Write \/ Lose \/ \E l \in Loaders : Take(l) \/ Publish(l)

Spec == Init /\ [][Next]_vars
==============================================================================
