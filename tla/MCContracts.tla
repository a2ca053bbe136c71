---------------------------- MODULE MCContracts ----------------------------
(***************************************************************************)
(* The analytics and the stellar_insights contract on one ledger: they     *)
(* share its clock and its users, and their transactions interleave.       *)
(* Users and hashes are only compared for equality, hence the symmetry.    *)
(***************************************************************************)
EXTENDS Analytics, Sequences, TLC

VARIABLES insightsAdmin, insightsPaused, insightsLatest, insightsSnapshots, events

insights == <<insightsAdmin, insightsPaused, insightsLatest, insightsSnapshots, events>>

SI == INSTANCE StellarInsights WITH
          admin <- insightsAdmin, paused <- insightsPaused,
          latestEpoch <- insightsLatest, snapshots <- insightsSnapshots

ASSUME ContractsConstants == SI!StellarInsightsConstants

LedgerInit == Init /\ SI!Init

LedgerNext ==
    \/ UserTransaction /\ UNCHANGED insights
    \/ GovernanceCall /\ UNCHANGED insights
    \/ SI!Transaction /\ UNCHANGED <<config, history>>
    \/ Tick /\ UNCHANGED insights

LedgerSpec == LedgerInit /\ [][LedgerNext]_<<vars, insights>>

MCSymmetry == Permutations(Users) \cup Permutations(Hash)

\* The stellar_insights contract's events rebuild its map (its IndexersAgree).
IndexersAgree == SI!IndexersAgree

\* Its events reach an indexer in increasing epochs and times.
EventsInEpochOrder == SI!EventsInEpochOrder

\* It is an append-only epoch log as well.
InsightsIsEpochLog == SI!ImplementsEpochLog
=============================================================================
