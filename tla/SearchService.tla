----------------------------- MODULE SearchService -----------------------------
(***************************************************************************)
(* What the search queue of an IndexContext promises, with no threads in   *)
(* sight: every search runs once, against the index as it was when the     *)
(* search was enqueued, and the index changes only between searches.       *)
(***************************************************************************)
EXTENDS Naturals

CONSTANTS
  Searches,      \* what may be enqueued
  Unasked, Waiting, Lost   \* the states of a search without results

VARIABLES
  index,         \* the version of the index
  outcome        \* for each search: its state, or the version its results are from

serviceVars == <<index, outcome>>

ServiceInit ==
  /\ index = 0
  /\ outcome = [t \in Searches |-> Unasked]

Ask(t) ==
  /\ outcome[t] = Unasked
  /\ outcome' = [outcome EXCEPT ![t] = Waiting]
  /\ UNCHANGED index

Answer(t) ==
  /\ outcome[t] = Waiting
  /\ outcome' = [outcome EXCEPT ![t] = index]
  /\ UNCHANGED index

Lose(t) ==
  /\ outcome[t] = Waiting
  /\ outcome' = [outcome EXCEPT ![t] = Lost]
  /\ UNCHANGED index

Change ==
  /\ \A t \in Searches : outcome[t] # Waiting
  /\ index' = index + 1
  /\ UNCHANGED outcome

ServiceNext == (\E t \in Searches : Ask(t) \/ Answer(t) \/ Lose(t)) \/ Change

ServiceSpec == ServiceInit /\ [][ServiceNext]_serviceVars
=============================================================================
