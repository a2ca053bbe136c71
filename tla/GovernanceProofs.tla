-------------------------- MODULE GovernanceProofs --------------------------
(***************************************************************************)
(* Theorems about the governance contract composed with analytics, for     *)
(* every number of users, proposals, quorum and voting period.             *)
(***************************************************************************)
EXTENDS Governance, FiniteSetTheorems, TLAPS

\* The theorems about analytics; stellar_insights, which has no part here, stays
\* as it was deployed.
AP == INSTANCE ContractsProofs WITH
          insightsAdmin <- NoAddress, insightsPaused <- FALSE, insightsLatest <- 0,
          insightsSnapshots <- [e \in Epochs |-> NoSnapshot], events <- <<>>

-----------------------------------------------------------------------------
\* The analytics contract's own theorems hold of the copy governed here.
LEMMA AnalyticsParameters == AP!AnalyticsConstants /\ AP!ContractsConstants
BY GovernanceConstants
DEF GovernanceConstants, Address, AP!AnalyticsConstants, AP!Address, AP!ContractsConstants,
    AP!SI!StellarInsightsConstants, AP!SI!Address

\* A and AP name the same definitions.
LEMMA SameAnalytics ==
    /\ A!Init <=> AP!Init
    /\ A!TypeOK <=> AP!TypeOK
    /\ A!TypeOK' <=> AP!TypeOK'
    /\ A!Next <=> AP!Next
    /\ A!vars = AP!vars
    /\ A!vars' = AP!vars'
<1> USE DEF A!Address, AP!Address, A!config, AP!config, A!history, AP!history
<1>1. A!Init <=> AP!Init
  BY DEF A!Init, AP!Init
<1>2. A!TypeOK <=> AP!TypeOK
  BY DEF A!TypeOK, AP!TypeOK, A!Snapshot, AP!Snapshot
<1>3. A!TypeOK' <=> AP!TypeOK'
  BY DEF A!TypeOK, AP!TypeOK, A!Snapshot, AP!Snapshot
<1>4. A!Next <=> AP!Next
  BY DEF A!Next, AP!Next, A!UserTransaction, AP!UserTransaction, A!GovernanceCall,
         AP!GovernanceCall, A!Tick, AP!Tick, A!AuthorizedAdmin, AP!AuthorizedAdmin,
         A!Initialize, AP!Initialize, A!Uninitialized, AP!Uninitialized,
         A!SubmitSnapshot, AP!SubmitSnapshot, A!NewEpoch, AP!NewEpoch,
         A!SetAdmin, AP!SetAdmin, A!Pause, AP!Pause, A!Unpause, AP!Unpause,
         A!SetGovernance, AP!SetGovernance,
         A!SetAdminByGovernance, AP!SetAdminByGovernance,
         A!SetPausedByGovernance, AP!SetPausedByGovernance
<1>5. A!vars = AP!vars /\ A!vars' = AP!vars'
  BY DEF A!vars, AP!vars
<1> QED
  BY <1>1, <1>2, <1>3, <1>4, <1>5

LEMMA AnalyticsTyped ==
    /\ A!Init => A!TypeOK
    /\ A!TypeOK /\ [A!Next]_(A!vars) => A!TypeOK'
<1>1. AP!Init => AP!TypeOK
  BY AnalyticsParameters, AP!InitTyped
<1>2. AP!TypeOK /\ [AP!Next]_(AP!vars) => AP!TypeOK'
  BY AnalyticsParameters, AP!TypeStep
<1>3. QED
  BY <1>1, <1>2, SameAnalytics

-----------------------------------------------------------------------------
LEMMA InitTyped == Init => TypeOK
<1> SUFFICES ASSUME Init PROVE TypeOK
  OBVIOUS
<1>1. A!TypeOK
  BY AnalyticsTyped DEF Init
<1>2. NoProposal \in Proposal
  BY GovernanceConstants
  DEF GovernanceConstants, NoProposal, Proposal, Status, Action, Upgrade
<1>3. ZeroTally \in Tally /\ NoVotes \in [Users -> Choice \cup {NotVoted}]
  BY DEF ZeroTally, Tally, NoVotes
<1> QED
  BY <1>1, <1>2, <1>3, GovernanceConstants DEF GovernanceConstants, Init, TypeOK

\* Every step of the composition is, for the analytics contract, one of its own
\* steps or no step: mark_executed reaches it only through the entry points it
\* offers to its governance.
LEMMA AnalyticsStepOrStutter ==
    ASSUME TypeOK, [Next]_vars
    PROVE  [A!Next]_(A!vars)
<1>1. CASE UNCHANGED analytics
  BY <1>1 DEF analytics, A!vars, A!config, A!history
<1>2. CASE AnalyticsStep
  BY <1>2 DEF AnalyticsStep, A!Next
<1>3. ASSUME NEW c \in Users, NEW id \in ProposalId, MarkExecuted(c, id)
      PROVE  [A!Next]_(A!vars)
  <2> DEFINE x == proposals[id].action
  <2>1. x \in Action /\ Apply(proposals[id].target, x)
    BY <1>3 DEF MarkExecuted, TypeOK, Proposal
  <2>2. CASE x.kind = "Upgrade"
    BY <1>1, <2>1, <2>2 DEF Apply
  <2>3. CASE x.kind = "SetAdmin"
    <3>1. x.value \in A!Address
      BY <2>1, <2>3 DEF Action, SetAdminAction, SetPausedAction, Upgrade, Address, A!Address
    <3>2. A!SetAdminByGovernance(GovernanceAddress, x.value)
      BY <2>1, <2>3 DEF Apply
    <3>3. GovernanceAddress \in A!Address
      BY GovernanceConstants DEF GovernanceConstants, A!Address
    <3>4. QED
      BY <3>1, <3>2, <3>3 DEF A!Next, A!GovernanceCall
  <2>4. CASE x.kind = "SetPaused"
    <3>1. x.value \in BOOLEAN
      BY <2>1, <2>4 DEF Action, SetAdminAction, SetPausedAction, Upgrade
    <3>2. A!SetPausedByGovernance(GovernanceAddress, x.value)
      BY <2>1, <2>4 DEF Apply
    <3>3. GovernanceAddress \in A!Address
      BY GovernanceConstants DEF GovernanceConstants, A!Address
    <3>4. QED
      BY <3>1, <3>2, <3>3 DEF A!Next, A!GovernanceCall
  <2>5. QED
    BY <2>1, <2>2, <2>3, <2>4 DEF Apply
<1>4. CASE UNCHANGED vars
  BY <1>1, <1>4 DEF vars
<1> QED
  BY <1>1, <1>2, <1>3, <1>4
  DEF Next, GovernanceStep, Initialize, CreateProposal, CreateParameterProposal, Create,
      Vote, Finalize

-----------------------------------------------------------------------------
\* The operations, the two ways to create a proposal taken as one.
LEMMA StepKinds ==
    ASSUME [Next]_vars
    PROVE  \/ UNCHANGED govVars
           \/ \E a \in Address, q \in Quorums, p \in Periods : Initialize(a, q, p)
           \/ \E c \in Users, t \in Contracts, x \in Action : Create(c, t, x)
           \/ \E u \in Users, id \in ProposalId, ch \in Choice : Vote(u, id, ch)
           \/ \E id \in ProposalId : Finalize(id)
           \/ \E c \in Users, id \in ProposalId : MarkExecuted(c, id)
<1>1. Upgrade \in Action
  BY DEF Action
<1>2. CASE GovernanceStep
  BY <1>1, <1>2 DEF GovernanceStep, CreateProposal, CreateParameterProposal
<1>3. CASE AnalyticsStep \/ UNCHANGED vars
  BY <1>3 DEF AnalyticsStep, vars
<1> QED
  BY <1>2, <1>3 DEF Next

\* Ledger time never runs backwards.
LEMMA TimeAdvances ==
    ASSUME TypeOK, [Next]_vars
    PROVE  now \in Nat /\ now' \in Nat /\ now <= now'
<1>1. [A!Next]_(A!vars) /\ A!TypeOK /\ A!TypeOK' /\ MaxTime \in Nat
  BY AnalyticsStepOrStutter, AnalyticsTyped, GovernanceConstants
  DEF TypeOK, GovernanceConstants
<1>2. now \in Nat /\ now' \in Nat
  BY <1>1 DEF A!TypeOK
<1>3. now' = now \/ now' \in now + 1 .. MaxTime
  BY <1>1
  DEF A!Next, A!vars, A!config, A!history, A!UserTransaction, A!GovernanceCall, A!Tick,
      A!Initialize, A!SubmitSnapshot, A!SetAdmin, A!Pause, A!Unpause, A!SetGovernance,
      A!SetAdminByGovernance, A!SetPausedByGovernance
<1> QED
  BY <1>2, <1>3

\* Where the checked addition does not panic, the deadline has not wrapped.
LEMMA DeadlineIsExact ==
    ASSUME TypeOK, DeadlineFits
    PROVE  Deadline = now + votingPeriod /\ Deadline \in 0 .. MaxU64
<1>1. now \in Nat /\ votingPeriod \in Nat /\ MaxU64 \in Nat
  BY GovernanceConstants DEF TypeOK, A!TypeOK, GovernanceConstants
<1>2. ASSUME NEW n \in Nat, NEW d \in Nat, d <= n PROVE d % (n + 1) = d
  BY <1>2
<1>3. (now + votingPeriod) % (MaxU64 + 1) = now + votingPeriod
  BY <1>1, <1>2 DEF DeadlineFits
<1> QED
  BY <1>1, <1>3 DEF Deadline, DeadlineFits

LEMMA CountedTyped ==
    ASSUME NEW t \in Tally, NEW ch \in Choice
    PROVE  Counted(t, ch) \in Tally
BY DEF Counted, Tally, Choice

\* Preservation of the types by every step.
LEMMA TypeStep == TypeOK /\ [Next]_vars => TypeOK'
<1> SUFFICES ASSUME TypeOK, [Next]_vars PROVE TypeOK'
  OBVIOUS
<1>0. A!TypeOK'
  BY AnalyticsStepOrStutter, AnalyticsTyped DEF TypeOK
<1>1. CASE UNCHANGED govVars
  BY <1>0, <1>1 DEF TypeOK, govVars, setup, ballots
<1>2. ASSUME NEW a \in Address, NEW q \in Quorums, NEW p \in Periods, Initialize(a, q, p)
      PROVE  TypeOK'
  <2>1. q \in Nat /\ p \in Nat /\ 0 \in 0 .. MaxProposals
    BY GovernanceConstants DEF GovernanceConstants
  <2>2. QED
    BY <1>0, <1>2, <2>1 DEF TypeOK, Initialize, ballots
<1>3. ASSUME NEW c \in Users, NEW t \in Contracts, NEW x \in Action, Create(c, t, x)
      PROVE  TypeOK'
  <2> DEFINE rec == [status |-> "Active", target |-> t, action |-> x,
                     createdAt |-> now, votingEndsAt |-> Deadline]
  <2>1. MaxU64 \in Nat /\ MaxProposals \in Nat /\ MaxTime \in Nat
    BY GovernanceConstants DEF GovernanceConstants
  <2>2. now \in 0 .. MaxTime /\ votingPeriod \in Nat
    BY DEF TypeOK, A!TypeOK
  <2>3. Deadline \in 0 .. MaxU64
    BY <1>3, DeadlineIsExact DEF Create
  <2>4. rec \in Proposal
    BY <2>2, <2>3 DEF Proposal, Status
  <2>5. proposals' \in [ProposalId -> Proposal]
    BY <1>3, <2>4 DEF Create, TypeOK
  <2>6. /\ tally' \in [ProposalId -> Tally]
        /\ votes' \in [ProposalId -> [Users -> Choice \cup {NotVoted}]]
    <3>1. ZeroTally \in Tally /\ NoVotes \in [Users -> Choice \cup {NotVoted}]
      BY DEF ZeroTally, Tally, NoVotes
    <3>2. QED
      BY <1>3, <3>1 DEF Create, TypeOK
  <2>7. proposalCount' \in 0 .. MaxProposals
    BY <1>3, <2>1 DEF Create, ProposalId, TypeOK
  <2>8. QED
    BY <1>0, <1>3, <2>5, <2>6, <2>7 DEF TypeOK, Create, setup
<1>4. ASSUME NEW u \in Users, NEW id \in ProposalId, NEW ch \in Choice, Vote(u, id, ch)
      PROVE  TypeOK'
  <2>1. tally' \in [ProposalId -> Tally]
    BY <1>4, CountedTyped DEF Vote, TypeOK
  <2>2. votes' \in [ProposalId -> [Users -> Choice \cup {NotVoted}]]
    BY <1>4 DEF Vote, TypeOK
  <2>3. QED
    BY <1>0, <1>4, <2>1, <2>2 DEF TypeOK, Vote, setup
<1>5. ASSUME NEW id \in ProposalId, NEW st \in Status,
             proposals' = [proposals EXCEPT ![id].status = st],
             UNCHANGED <<setup, proposalCount, ballots>>
      PROVE  TypeOK'
  <2>1. [proposals[id] EXCEPT !.status = st] \in Proposal
    BY DEF TypeOK, Proposal
  <2>2. proposals' \in [ProposalId -> Proposal]
    BY <1>5, <2>1 DEF TypeOK
  <2>3. QED
    BY <1>0, <1>5, <2>2 DEF TypeOK, setup, ballots
<1>6. ASSUME NEW id \in ProposalId, Finalize(id) PROVE TypeOK'
  BY <1>5, <1>6 DEF Finalize, Status
<1>7. ASSUME NEW c \in Users, NEW id \in ProposalId, MarkExecuted(c, id) PROVE TypeOK'
  BY <1>5, <1>7 DEF MarkExecuted, Status
<1> QED
  BY <1>1, <1>2, <1>3, <1>4, <1>6, <1>7, StepKinds

\* Every reachable state of the two contracts is well typed.
THEOREM TypeCorrect == Spec => []TypeOK
<1>1. QED
  BY InitTyped, TypeStep, PTL DEF Spec

\* Whatever governance does, the analytics contract behaves as its own
\* specification says: each governance operation is one of its operations, or
\* leaves it alone.
THEOREM GovernanceRefinesAnalytics == Spec => A!Spec
<1>1. Init => A!Init
  BY DEF Init
<1>2. TypeOK /\ [Next]_vars => [A!Next]_(A!vars)
  BY AnalyticsStepOrStutter
<1>3. QED
  BY <1>1, <1>2, TypeCorrect, PTL DEF Spec, A!Spec

-----------------------------------------------------------------------------
(***************************************************************************)
(* The inductive invariant.  A recount of the ballots gives the tally, and *)
(* the verdict of a decided proposal is the one its tally gives; for this  *)
(* to survive the next step, the proposals must be exactly those counted   *)
(* (so that a new one never reuses an identifier), the quorum must be      *)
(* settled before the first of them, and the deadline of a decided one     *)
(* must be past (so that no vote can follow).                              *)
(***************************************************************************)
DeadlinePassed ==
    \A id \in ProposalId : Decided(id) => now >= proposals[id].votingEndsAt

NothingBeforeSetup == govAdmin = NoAddress => proposalCount = 0

IInv ==
    /\ TypeOK
    /\ TallyCountsVotes
    /\ OutcomeMatchesVotes
    /\ DeadlinePassed
    /\ ProposalsAreDense
    /\ NothingBeforeSetup

\* One more vote of a user who had not voted adds one to the recount of the
\* voters and to that of the choice, and nothing to the other recounts.
LEMMA RecountAfterVote ==
    ASSUME TypeOK, NEW u \in Users, NEW id \in ProposalId, NEW ch \in Choice,
           Vote(u, id, ch)
    PROVE  /\ Cardinality(Voters(id)') = Cardinality(Voters(id)) + 1
           /\ \A d \in Choice : Cardinality(VotersFor(id, d)') =
                 Cardinality(VotersFor(id, d)) + (IF d = ch THEN 1 ELSE 0)
<1>1. /\ votes[id] \in [Users -> Choice \cup {NotVoted}]
      /\ votes'[id] = [votes[id] EXCEPT ![u] = ch]
      /\ votes[id][u] = NotVoted
  BY DEF Vote, MayVote, TypeOK
<1>2. NotVoted \notin Choice
  BY DEF NotVoted, Choice
<1>3. \A S \in SUBSET Users : IsFiniteSet(S) /\ Cardinality(S) \in Nat
  BY FS_Subset, FS_CardinalityType, GovernanceConstants DEF GovernanceConstants
<1>4. Voters(id)' = Voters(id) \cup {u} /\ u \notin Voters(id) /\ Voters(id) \subseteq Users
  BY <1>1, <1>2 DEF Voters
<1>5. Cardinality(Voters(id)') = Cardinality(Voters(id)) + 1
  BY <1>3, <1>4, FS_AddElement
<1>6. ASSUME NEW d \in Choice
      PROVE  Cardinality(VotersFor(id, d)') =
                Cardinality(VotersFor(id, d)) + (IF d = ch THEN 1 ELSE 0)
  <2>1. u \notin VotersFor(id, d) /\ VotersFor(id, d) \subseteq Users
    BY <1>1, <1>2 DEF VotersFor
  <2>2. CASE d = ch
    <3>1. VotersFor(id, d)' = VotersFor(id, d) \cup {u}
      BY <1>1, <2>2 DEF VotersFor
    <3>2. QED
      BY <1>3, <2>1, <2>2, <3>1, FS_AddElement
  <2>3. CASE d # ch
    <3>1. VotersFor(id, d)' = VotersFor(id, d)
      BY <1>1, <1>2, <2>3 DEF VotersFor
    <3>2. QED
      BY <1>3, <2>1, <2>3, <3>1
  <2>4. QED
    BY <2>2, <2>3
<1> QED
  BY <1>5, <1>6

\* Recounts depend on the ballots only.
LEMMA SameRecount ==
    ASSUME NEW id \in ProposalId, votes'[id] = votes[id]
    PROVE  /\ Voters(id)' = Voters(id)
           /\ \A d \in Choice : VotersFor(id, d)' = VotersFor(id, d)
BY DEF Voters, VotersFor

\* The tally stays the recount of the ballots.
LEMMA TallyStep == IInv /\ [Next]_vars => TallyCountsVotes'
<1> SUFFICES ASSUME IInv, [Next]_vars PROVE TallyCountsVotes'
  OBVIOUS
<1> USE DEF IInv
<1>1. ASSUME NEW id \in ProposalId, votes'[id] = votes[id], tally'[id] = tally[id]
      PROVE  /\ tally'[id].total = Cardinality(Voters(id)')
             /\ tally'[id].for = Cardinality(VotersFor(id, "For")')
             /\ tally'[id].against = Cardinality(VotersFor(id, "Against")')
             /\ tally'[id].abstain = Cardinality(VotersFor(id, "Abstain")')
  BY <1>1, SameRecount DEF TallyCountsVotes, Choice
<1>2. CASE UNCHANGED ballots
  BY <1>1, <1>2 DEF TallyCountsVotes, ballots
<1>3. ASSUME NEW c \in Users, NEW t \in Contracts, NEW x \in Action, Create(c, t, x)
      PROVE  TallyCountsVotes'
  <2>0. PICK new \in ProposalId : new = proposalCount + 1
    BY <1>3 DEF Create
  <2>1. /\ \A id \in ProposalId : id # new => votes'[id] = votes[id] /\ tally'[id] = tally[id]
        /\ votes'[new] = NoVotes /\ tally'[new] = ZeroTally
    BY <1>3, <2>0 DEF Create, TypeOK
  <2>2. \A u \in Users : votes'[new][u] = NotVoted
    BY <2>1 DEF NoVotes
  <2>3. Voters(new)' = {}
    BY <2>2 DEF Voters
  <2>4. ASSUME NEW d \in Choice PROVE VotersFor(new, d)' = {}
    BY <2>2 DEF VotersFor, Choice, NotVoted
  <2>5. /\ tally'[new].total = Cardinality(Voters(new)')
        /\ tally'[new].for = Cardinality(VotersFor(new, "For")')
        /\ tally'[new].against = Cardinality(VotersFor(new, "Against")')
        /\ tally'[new].abstain = Cardinality(VotersFor(new, "Abstain")')
    BY <2>1, <2>3, <2>4, FS_EmptySet DEF ZeroTally, Choice
  <2>6. QED
    BY <1>1, <2>1, <2>5 DEF TallyCountsVotes
<1>4. ASSUME NEW u \in Users, NEW id \in ProposalId, NEW ch \in Choice, Vote(u, id, ch)
      PROVE  TallyCountsVotes'
  <2>1. /\ \A o \in ProposalId : o # id => votes'[o] = votes[o] /\ tally'[o] = tally[o]
        /\ tally'[id] = Counted(tally[id], ch)
    BY <1>4 DEF Vote, TypeOK
  <2>2. /\ tally[id].total = Cardinality(Voters(id))
        /\ tally[id].for = Cardinality(VotersFor(id, "For"))
        /\ tally[id].against = Cardinality(VotersFor(id, "Against"))
        /\ tally[id].abstain = Cardinality(VotersFor(id, "Abstain"))
    BY DEF TallyCountsVotes
  <2>3. /\ Cardinality(Voters(id)') = Cardinality(Voters(id)) + 1
        /\ \A d \in Choice : Cardinality(VotersFor(id, d)') =
              Cardinality(VotersFor(id, d)) + (IF d = ch THEN 1 ELSE 0)
    BY <1>4, RecountAfterVote
  <2>4. /\ tally'[id].total = Cardinality(Voters(id)')
        /\ tally'[id].for = Cardinality(VotersFor(id, "For")')
        /\ tally'[id].against = Cardinality(VotersFor(id, "Against")')
        /\ tally'[id].abstain = Cardinality(VotersFor(id, "Abstain")')
    BY <2>1, <2>2, <2>3 DEF Counted, Choice
  <2>5. QED
    BY <1>1, <2>1, <2>4 DEF TallyCountsVotes
<1> QED
  BY <1>2, <1>3, <1>4, StepKinds
  DEF govVars, Initialize, Finalize, MarkExecuted

\* What each operation does to a proposal that exists already.
LEMMA ProposalSteps ==
    ASSUME IInv, [Next]_vars, NEW id \in ProposalId
    PROVE  \/ proposals'[id] = proposals[id] /\ votes'[id] = votes[id] /\ tally'[id] = tally[id]
           \/ /\ proposals[id].status = "Absent" /\ id = proposalCount'
              /\ proposalCount' = proposalCount + 1
              /\ proposals'[id].status = "Active"
              /\ proposals'[id].createdAt = now
              /\ proposals'[id].votingEndsAt = now + votingPeriod
           \/ /\ VotingOpen(id) /\ proposals'[id] = proposals[id]
              /\ \A u \in Voters(id) : votes'[id][u] = votes[id][u]
           \/ /\ proposals[id].status = "Active" /\ now >= proposals[id].votingEndsAt
              /\ proposals'[id] = [proposals[id] EXCEPT !.status =
                                      IF Carried(tally[id]) THEN "Passed" ELSE "Failed"]
              /\ votes'[id] = votes[id] /\ tally'[id] = tally[id]
           \/ /\ proposals[id].status = "Passed"
              /\ proposals'[id] = [proposals[id] EXCEPT !.status = "Executed"]
              /\ votes'[id] = votes[id] /\ tally'[id] = tally[id]
<1> USE DEF IInv
<1>1. CASE UNCHANGED <<proposals, ballots>>
  BY <1>1 DEF ballots
<1>2. ASSUME NEW c \in Users, NEW t \in Contracts, NEW x \in Action, Create(c, t, x),
             id = proposalCount + 1
      PROVE  /\ proposals[id].status = "Absent" /\ id = proposalCount'
             /\ proposalCount' = proposalCount + 1
             /\ proposals'[id].status = "Active"
             /\ proposals'[id].createdAt = now
             /\ proposals'[id].votingEndsAt = now + votingPeriod
  <2>1. proposalCount \in Nat /\ ~(id <= proposalCount)
    BY <1>2 DEF TypeOK
  <2>2. proposals[id].status = "Absent"
    BY <2>1 DEF ProposalsAreDense
  <2>3. QED
    BY <1>2, <2>2, DeadlineIsExact DEF Create, TypeOK
<1>3. ASSUME NEW c \in Users, NEW t \in Contracts, NEW x \in Action, Create(c, t, x),
             id # proposalCount + 1
      PROVE  proposals'[id] = proposals[id] /\ votes'[id] = votes[id] /\ tally'[id] = tally[id]
  BY <1>3 DEF Create, TypeOK
<1>4. ASSUME NEW u \in Users, NEW ch \in Choice, Vote(u, id, ch)
      PROVE  /\ VotingOpen(id) /\ proposals'[id] = proposals[id]
             /\ \A v \in Voters(id) : votes'[id][v] = votes[id][v]
  BY <1>4 DEF Vote, MayVote, TypeOK, Voters
<1>5. ASSUME NEW u \in Users, NEW ch \in Choice, NEW o \in ProposalId, o # id, Vote(u, o, ch)
      PROVE  proposals'[id] = proposals[id] /\ votes'[id] = votes[id] /\ tally'[id] = tally[id]
  BY <1>5 DEF Vote, TypeOK
<1>6. ASSUME NEW o \in ProposalId, Finalize(o)
      PROVE  /\ votes' = votes /\ tally' = tally
             /\ o # id => proposals'[id] = proposals[id]
             /\ o = id => /\ proposals[id].status = "Active"
                          /\ now >= proposals[id].votingEndsAt
                          /\ proposals'[id] = [proposals[id] EXCEPT !.status =
                                IF Carried(tally[id]) THEN "Passed" ELSE "Failed"]
  BY <1>6 DEF Finalize, VotingOver, TypeOK, ballots
<1>7. ASSUME NEW c \in Users, NEW o \in ProposalId, MarkExecuted(c, o)
      PROVE  /\ votes' = votes /\ tally' = tally
             /\ o # id => proposals'[id] = proposals[id]
             /\ o = id => /\ proposals[id].status = "Passed"
                          /\ proposals'[id] = [proposals[id] EXCEPT !.status = "Executed"]
  BY <1>7 DEF MarkExecuted, IsPassed, TypeOK, ballots
<1> QED
  BY <1>1, <1>2, <1>3, <1>4, <1>5, <1>6, <1>7, StepKinds DEF govVars, Initialize

\* Quorum and period are settled before the first proposal.
LEMMA SetupSteps ==
    ASSUME IInv, [Next]_vars
    PROVE  /\ NothingBeforeSetup'
           /\ \/ quorum' = quorum /\ votingPeriod' = votingPeriod
              \/ proposalCount = 0 /\ proposalCount' = 0 /\ proposals' = proposals
           /\ proposalCount' = proposalCount \/ proposalCount' = proposalCount + 1
<1> USE DEF IInv
<1>1. CASE UNCHANGED <<setup, proposalCount>>
  BY <1>1 DEF setup, NothingBeforeSetup
<1>2. ASSUME NEW a \in Address, NEW q \in Quorums, NEW p \in Periods, Initialize(a, q, p)
      PROVE  /\ NothingBeforeSetup'
             /\ proposalCount = 0 /\ proposalCount' = 0 /\ proposals' = proposals
  BY <1>2 DEF Initialize, Uninitialized, NothingBeforeSetup
<1>3. ASSUME NEW c \in Users, NEW t \in Contracts, NEW x \in Action, Create(c, t, x)
      PROVE  /\ NothingBeforeSetup'
             /\ quorum' = quorum /\ votingPeriod' = votingPeriod
             /\ proposalCount' = proposalCount + 1
  BY <1>3 DEF Create, IsAdmin, setup, NothingBeforeSetup
<1> QED
  BY <1>1, <1>2, <1>3, StepKinds DEF govVars, Vote, Finalize, MarkExecuted

\* Values the arithmetic of the invariant is about.
LEMMA ProposalTypes ==
    ASSUME TypeOK, NEW id \in ProposalId
    PROVE  /\ id \in Nat /\ proposalCount \in Nat /\ now \in Nat /\ votingPeriod \in Nat
           /\ proposals[id].status \in Status
           /\ proposals[id].createdAt \in Nat /\ proposals[id].votingEndsAt \in Nat
           /\ proposals[id] \in Proposal
<1>1. MaxTime \in Nat /\ MaxU64 \in Nat /\ MaxProposals \in Nat
  BY GovernanceConstants DEF GovernanceConstants
<1>2. proposals[id] \in Proposal
  BY DEF TypeOK
<1> QED
  BY <1>1, <1>2 DEF TypeOK, A!TypeOK, ProposalId, Proposal

\* What a change of status keeps.
LEMMA StatusChange ==
    ASSUME TypeOK, NEW id \in ProposalId, NEW st,
           proposals'[id] = [proposals[id] EXCEPT !.status = st]
    PROVE  /\ proposals'[id].status = st
           /\ proposals'[id].createdAt = proposals[id].createdAt
           /\ proposals'[id].votingEndsAt = proposals[id].votingEndsAt
           /\ proposals'[id].target = proposals[id].target
           /\ proposals'[id].action = proposals[id].action
BY ProposalTypes DEF Proposal

\* A new proposal is undecided, and the deadline of the others stays past.
LEMMA DeadlineStep == IInv /\ [Next]_vars => DeadlinePassed'
<1> SUFFICES ASSUME IInv, [Next]_vars, NEW id \in ProposalId, Decided(id)'
             PROVE  now' >= proposals'[id].votingEndsAt
  BY DEF DeadlinePassed
<1> USE DEF IInv
<1>1. now \in Nat /\ now' \in Nat /\ now <= now' /\ proposals[id].votingEndsAt \in Nat
  BY TimeAdvances, ProposalTypes
<1>2. CASE proposals'[id] = proposals[id]
  BY <1>1, <1>2 DEF DeadlinePassed, Decided
<1>3. CASE proposals'[id].status = "Active"
  BY <1>3 DEF Decided
<1>4. ASSUME NEW st, proposals'[id] = [proposals[id] EXCEPT !.status = st],
             now >= proposals[id].votingEndsAt
      PROVE  now' >= proposals'[id].votingEndsAt
  BY <1>1, <1>4, StatusChange
<1>5. proposals[id].status = "Passed" => now >= proposals[id].votingEndsAt
  BY DEF DeadlinePassed, Decided
<1> QED
  BY <1>2, <1>3, <1>4, <1>5, ProposalSteps

\* The verdict of a decided proposal stays the one its tally gives: neither its
\* tally nor the quorum can change any more.
LEMMA OutcomeStep == IInv /\ [Next]_vars => OutcomeMatchesVotes'
<1> SUFFICES ASSUME IInv, [Next]_vars, NEW id \in ProposalId, Decided(id)'
             PROVE  (proposals'[id].status # "Failed") <=> Carried(tally[id])'
  BY DEF OutcomeMatchesVotes
<1> USE DEF IInv
<1>1. now \in Nat /\ proposals[id].votingEndsAt \in Nat
  BY ProposalTypes
<1>2. quorum' = quorum
  <2>1. CASE proposalCount = 0 /\ proposals' = proposals
    <3>1. proposals[id].status = "Absent"
      BY <2>1, ProposalTypes DEF ProposalsAreDense, ProposalId
    <3>2. QED
      BY <2>1, <3>1 DEF Decided
  <2>2. QED
    BY <2>1, SetupSteps
<1>3. CASE proposals'[id] = proposals[id] /\ tally'[id] = tally[id]
  BY <1>2, <1>3 DEF OutcomeMatchesVotes, Decided, Carried
<1>4. CASE VotingOpen(id) /\ proposals'[id] = proposals[id]
  BY <1>4 DEF VotingOpen, Decided
<1>5. CASE proposals'[id].status = "Active"
  BY <1>5 DEF Decided
<1>6. CASE /\ proposals'[id] = [proposals[id] EXCEPT !.status =
                                   IF Carried(tally[id]) THEN "Passed" ELSE "Failed"]
           /\ tally'[id] = tally[id]
  <2>1. proposals'[id].status = IF Carried(tally[id]) THEN "Passed" ELSE "Failed"
    BY <1>6, StatusChange
  <2>2. Carried(tally[id])' <=> Carried(tally[id])
    BY <1>2, <1>6 DEF Carried
  <2>3. QED
    BY <2>1, <2>2
<1>7. CASE /\ proposals[id].status = "Passed"
           /\ proposals'[id] = [proposals[id] EXCEPT !.status = "Executed"]
           /\ tally'[id] = tally[id]
  <2>1. proposals'[id].status = "Executed" /\ Carried(tally[id])
    BY <1>7, StatusChange DEF OutcomeMatchesVotes, Decided
  <2>2. Carried(tally[id])'
    BY <1>2, <1>7, <2>1 DEF Carried
  <2>3. QED
    BY <2>1, <2>2
<1> QED
  BY <1>3, <1>4, <1>5, <1>6, <1>7, ProposalSteps

\* A step adds at most the next identifier, with the deadline its creation gives.
LEMMA DenseStep == IInv /\ [Next]_vars => ProposalsAreDense'
<1> SUFFICES ASSUME IInv, [Next]_vars, NEW id \in ProposalId
             PROVE  /\ proposals'[id].status # "Absent" <=> id <= proposalCount'
                    /\ id <= proposalCount' =>
                          /\ proposals'[id].createdAt <= now'
                          /\ proposals'[id].votingEndsAt =
                                proposals'[id].createdAt + votingPeriod'
  BY DEF ProposalsAreDense
<1> USE DEF IInv
<1>1. /\ now' \in Nat /\ now <= now'
      /\ id \in Nat /\ proposalCount \in Nat /\ now \in Nat /\ votingPeriod \in Nat
      /\ proposals[id].createdAt \in Nat /\ proposals[id].votingEndsAt \in Nat
  BY TimeAdvances, ProposalTypes
<1>2. /\ proposals[id].status # "Absent" <=> id <= proposalCount
      /\ id <= proposalCount =>
            /\ proposals[id].createdAt <= now
            /\ proposals[id].votingEndsAt = proposals[id].createdAt + votingPeriod
  BY DEF ProposalsAreDense
<1>3. CASE proposalCount = 0 /\ proposalCount' = 0 /\ proposals' = proposals
  BY <1>1, <1>2, <1>3 DEF ProposalId
<1>4. CASE votingPeriod' = votingPeriod
  <2>1. CASE /\ proposals[id].status = "Absent" /\ id = proposalCount'
             /\ proposals'[id].status = "Active"
             /\ proposals'[id].createdAt = now
             /\ proposals'[id].votingEndsAt = now + votingPeriod
    BY <1>1, <1>4, <2>1
  <2>2. ASSUME /\ proposals'[id].createdAt = proposals[id].createdAt
               /\ proposals'[id].votingEndsAt = proposals[id].votingEndsAt
               /\ proposals'[id].status # "Absent" <=> proposals[id].status # "Absent"
               /\ id # proposalCount + 1 \/ proposalCount' = proposalCount
        PROVE  /\ proposals'[id].status # "Absent" <=> id <= proposalCount'
               /\ id <= proposalCount' =>
                     /\ proposals'[id].createdAt <= now'
                     /\ proposals'[id].votingEndsAt =
                           proposals'[id].createdAt + votingPeriod'
    BY <1>1, <1>2, <1>4, <2>2, SetupSteps
  <2>3. CASE proposals'[id] = proposals[id]
    <3>1. id # proposalCount + 1 \/ proposalCount' = proposalCount
      <4>1. ASSUME NEW c \in Users, NEW t \in Contracts, NEW x \in Action, Create(c, t, x),
                   id = proposalCount + 1
            PROVE  FALSE
        <5>1. proposals'[id].status = "Active"
          BY <4>1 DEF Create, TypeOK
        <5>2. QED
          BY <1>1, <1>2, <2>3, <4>1, <5>1
      <4>2. QED
        BY <4>1, StepKinds, <1>4
        DEF govVars, Initialize, Uninitialized, Vote, Finalize, MarkExecuted, NothingBeforeSetup
    <3>2. QED
      BY <2>2, <2>3, <3>1
  <2>4. ASSUME NEW st, st # "Absent", proposals[id].status # "Absent",
               proposals'[id] = [proposals[id] EXCEPT !.status = st]
        PROVE  /\ proposals'[id].status # "Absent" <=> id <= proposalCount'
               /\ id <= proposalCount' =>
                     /\ proposals'[id].createdAt <= now'
                     /\ proposals'[id].votingEndsAt =
                           proposals'[id].createdAt + votingPeriod'
    BY <1>1, <1>2, <2>2, <2>4, StatusChange
  <2>5. QED
    BY <2>1, <2>3, <2>4, ProposalSteps
<1> QED
  BY <1>3, <1>4, SetupSteps

-----------------------------------------------------------------------------
LEMMA InvCorrect == Spec => []IInv
<1>1. Init => IInv
  <2> SUFFICES ASSUME Init PROVE IInv
    OBVIOUS
  <2>1. \A id \in ProposalId : proposals[id].status = "Absent" /\ id \in Nat /\ id > 0
    BY GovernanceConstants DEF GovernanceConstants, Init, NoProposal, ProposalId
  <2>2. OutcomeMatchesVotes /\ DeadlinePassed /\ ProposalsAreDense /\ NothingBeforeSetup
    BY <2>1
    DEF Init, OutcomeMatchesVotes, DeadlinePassed, ProposalsAreDense,
        NothingBeforeSetup, Decided
  <2>3. ASSUME NEW id \in ProposalId
        PROVE  Voters(id) = {} /\ \A d \in Choice : VotersFor(id, d) = {}
    BY DEF Init, NoVotes, Voters, VotersFor, Choice, NotVoted
  <2>4. TallyCountsVotes
    BY <2>3, FS_EmptySet DEF Init, TallyCountsVotes, ZeroTally, Choice
  <2>5. QED
    BY <2>2, <2>4, InitTyped DEF IInv
<1>2. IInv /\ [Next]_vars => IInv'
  BY TypeStep, TallyStep, OutcomeStep, DeadlineStep, DenseStep, SetupSteps DEF IInv
<1>3. QED
  BY <1>1, <1>2, PTL DEF Spec

\* The stored tally is always the recount of the stored ballots.
THEOREM TallyCorrect == Spec => []TallyCountsVotes
<1>1. IInv => TallyCountsVotes
  BY DEF IInv
<1>2. QED
  BY <1>1, InvCorrect, PTL

\* The stored outcome is always the one the stored votes give.
THEOREM OutcomeCorrect == Spec => []OutcomeMatchesVotes
<1>1. IInv => OutcomeMatchesVotes
  BY DEF IInv
<1>2. QED
  BY <1>1, InvCorrect, PTL

\* No proposal is decided before its deadline or passed without a vote for it.
THEOREM DeadlineCorrect == Spec => []DecidedAfterDeadline
<1>1. IInv => DecidedAfterDeadline
  <2>0. IInv => \A id \in ProposalId : Decided(id) => now >= proposals[id].createdAt + votingPeriod
    BY DEF IInv, DeadlinePassed, ProposalsAreDense, Decided
  <2> SUFFICES ASSUME IInv, NEW id \in ProposalId, Decided(id),
                      proposals[id].status # "Failed"
               PROVE  VotersFor(id, "For") # {}
    BY <2>0 DEF DecidedAfterDeadline
  <2>1. tally[id].for > tally[id].against
    BY DEF IInv, OutcomeMatchesVotes, Carried
  <2>2. tally[id].for \in Nat /\ tally[id].against \in Nat
    BY DEF IInv, TypeOK, Tally
  <2>3. Cardinality(VotersFor(id, "For")) # 0
    BY <2>1, <2>2 DEF IInv, TallyCountsVotes
  <2>4. QED
    BY <2>3, FS_EmptySet
<1>2. QED
  BY <1>1, InvCorrect, PTL

\* Identifiers are never reused or skipped, and deadlines are those announced.
THEOREM DenseCorrect == Spec => []ProposalsAreDense
<1>1. IInv => ProposalsAreDense
  BY DEF IInv
<1>2. QED
  BY <1>1, InvCorrect, PTL

\* Every proposal lives Active -> Passed or Failed, Passed -> Executed, and is
\* otherwise immutable.
THEOREM LifecycleCorrect == Spec => ProposalLifecycle
<1>1. ASSUME IInv, [Next]_vars, NEW id \in ProposalId PROVE KeepsLifecycle(id)
  <2>1. proposals[id] \in Proposal
    BY <1>1, ProposalTypes DEF IInv
  <2>2. CASE proposals'[id] = proposals[id]
    BY <2>1, <2>2 DEF Proposal, KeepsLifecycle
  <2>3. CASE proposals[id].status = "Absent" /\ proposals'[id].status = "Active"
    BY <2>3 DEF Follows, KeepsLifecycle
  <2>4. ASSUME NEW st, proposals'[id] = [proposals[id] EXCEPT !.status = st],
               st \in Follows(proposals[id].status)
        PROVE  KeepsLifecycle(id)
    BY <2>1, <2>4 DEF Proposal, KeepsLifecycle
  <2>5. "Passed" \in Follows("Active") /\ "Failed" \in Follows("Active")
        /\ "Executed" \in Follows("Passed")
    BY DEF Follows
  <2>6. QED
    BY <1>1, <2>2, <2>3, <2>4, <2>5, ProposalSteps
<1>2. IInv /\ [Next]_vars => [\A id \in ProposalId : KeepsLifecycle(id)]_vars
  BY <1>1
<1>3. QED
  BY <1>2, InvCorrect, PTL DEF Spec, ProposalLifecycle

\* Votes cast are final and the ballot is frozen at the deadline.
THEOREM BallotsFinalCorrect == Spec => BallotsAreFinal
<1>1. ASSUME IInv, [Next]_vars, NEW id \in ProposalId PROVE KeepsBallot(id)
  <2>1. CASE votes'[id] = votes[id] /\ tally'[id] = tally[id]
    BY <2>1 DEF KeepsBallot
  <2>2. CASE VotingOpen(id) /\ \A u \in Voters(id) : votes'[id][u] = votes[id][u]
    <3>1. now \in Nat /\ proposals[id].votingEndsAt \in Nat
      BY <1>1, ProposalTypes DEF IInv
    <3>2. QED
      BY <2>2, <3>1 DEF VotingOpen, KeepsBallot
  <2>3. CASE proposals[id].status = "Absent"
    BY <2>3 DEF KeepsBallot
  <2>4. QED
    BY <1>1, <2>1, <2>2, <2>3, ProposalSteps
<1>2. IInv /\ [Next]_vars => [\A id \in ProposalId : KeepsBallot(id)]_vars
  BY <1>1
<1>3. QED
  BY <1>2, InvCorrect, PTL DEF Spec, BallotsAreFinal

\* A parameter proposal is Executed exactly when, and only if, it took effect.
THEOREM ExecutionCorrect == Spec => ExecutionTakesEffect
<1>1. ASSUME IInv, [Next]_vars, NEW id \in ProposalId PROVE TakesEffect(id)
  <2> SUFFICES ASSUME proposals[id].status # "Executed", proposals'[id].status = "Executed"
               PROVE  TakesEffect(id)
    BY DEF TakesEffect
  <2> USE DEF IInv
  <2>1. ASSUME NEW c \in Users, NEW o \in ProposalId, MarkExecuted(c, o)
        PROVE  TakesEffect(id)
    <3>1. o = id
      BY <1>1, <2>1 DEF MarkExecuted, TypeOK
    <3>2. proposals[id].action \in Action /\ Apply(proposals[id].target, proposals[id].action)
      BY <1>1, <2>1, <3>1, ProposalTypes DEF MarkExecuted, Proposal
    <3>3. QED
      BY <3>2
      DEF Apply, TakesEffect, Action, SetAdminAction, SetPausedAction, Upgrade,
          A!SetAdminByGovernance, A!SetPausedByGovernance, A!history
  <2>2. ASSUME ~ \E c \in Users, o \in ProposalId : MarkExecuted(c, o)
        PROVE  FALSE
    <3>1. \/ proposals' = proposals
          \/ \E c \in Users, t \in Contracts, x \in Action : Create(c, t, x)
          \/ \E o \in ProposalId : Finalize(o)
      BY <1>1, <2>2, StepKinds DEF govVars, Initialize, Vote
    <3>2. ASSUME NEW c \in Users, NEW t \in Contracts, NEW x \in Action, Create(c, t, x)
          PROVE  proposals'[id] = proposals[id] \/ proposals'[id].status = "Active"
      BY <1>1, <3>2 DEF Create, TypeOK
    <3>3. ASSUME NEW o \in ProposalId, Finalize(o)
          PROVE  \/ proposals'[id] = proposals[id]
                 \/ proposals'[id].status = "Passed" \/ proposals'[id].status = "Failed"
      BY <1>1, <3>3, ProposalTypes DEF Finalize, TypeOK, Proposal
    <3>4. QED
      BY <3>1, <3>2, <3>3
  <2>3. QED
    BY <2>1, <2>2
<1>2. IInv /\ [Next]_vars => [\A id \in ProposalId : TakesEffect(id)]_vars
  BY <1>1
<1>3. QED
  BY <1>2, InvCorrect, PTL DEF Spec, ExecutionTakesEffect

\* The published history stays an append-only epoch log under governance.
THEOREM GovernedHistoryCorrect == Spec => GovernedHistoryIsEpochLog
<1>1. AP!Spec => AP!ImplementsEpochLog
  BY AnalyticsParameters, AP!EpochLogRefinement
<1>2. A!Spec => AP!Spec
  <2>1. A!Init => AP!Init
    BY SameAnalytics
  <2>2. [A!Next]_(A!vars) => [AP!Next]_(AP!vars)
    BY SameAnalytics
  <2>3. QED
    BY <2>1, <2>2, PTL DEF A!Spec, AP!Spec
<1>3. AP!ImplementsEpochLog => A!ImplementsEpochLog
  <2> USE DEF A!HashAt, AP!HashAt
  <2>1. AP!Log!Init => A!Log!Init
    BY DEF AP!Log!Init, A!Log!Init
  <2>2. [AP!Log!Next]_([e \in Epochs |-> AP!HashAt(e)])
            => [A!Log!Next]_([e \in Epochs |-> A!HashAt(e)])
    BY DEF AP!Log!Next, A!Log!Next, AP!Log!Publish, A!Log!Publish,
           AP!Log!Published, A!Log!Published
  <2>3. QED
    BY <2>1, <2>2, PTL
    DEF A!ImplementsEpochLog, AP!ImplementsEpochLog, A!Log!Spec, AP!Log!Spec
<1>4. QED
  BY <1>1, <1>2, <1>3, GovernanceRefinesAnalytics, PTL DEF GovernedHistoryIsEpochLog
=============================================================================
