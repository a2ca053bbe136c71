----------------------------- MODULE Governance -----------------------------
(***************************************************************************)
(* The governance contract (contracts/governance) composed with the        *)
(* analytics contract it governs.  The admin creates proposals, any        *)
(* address votes once before the deadline, anyone finalizes after it, and  *)
(* the admin executes a passed proposal; executing a parameter proposal    *)
(* calls the target contract in the same transaction, so that a panic      *)
(* there undoes the whole transaction.  Analytics transactions interleave  *)
(* freely with governance transactions.                                    *)
(***************************************************************************)
EXTENDS Naturals, FiniteSets

CONSTANTS
    Users, Contracts, NoAddress, Epochs, Hash, NoSnapshot, MaxTime, \* of Analytics
    GovernanceAddress,  \* env.current_contract_address() of this contract
    AnalyticsAddress,   \* where the modelled analytics contract is deployed
    Periods,            \* voting periods a deployer may choose
    Quorums,            \* quorums a deployer may choose
    MaxProposals,       \* bound of the model on the number of proposals
    MaxU64              \* greatest u64: `now + voting_period` panics above it

VARIABLES
    now, admin, governance, paused, latestEpoch, snapshots,  \* of Analytics
    govAdmin,       \* DataKey::Admin
    proposalCount,  \* DataKey::ProposalCount
    quorum,         \* DataKey::Quorum
    votingPeriod,   \* DataKey::VotingPeriod
    proposals,      \* DataKey::Proposals with each ParameterAction(id)
    votes,          \* DataKey::Votes(id), as voter |-> choice
    tally           \* DataKey::VoteTally(id)

A == INSTANCE Analytics

Address == Users \cup Contracts
ProposalId == 1 .. MaxProposals

ASSUME GovernanceConstants ==
    /\ IsFiniteSet(Users)
    /\ GovernanceAddress \in Contracts /\ AnalyticsAddress \in Contracts
    /\ NoAddress \notin Address
    /\ Epochs \subseteq Nat
    /\ NoSnapshot \notin [hash : Hash, timestamp : 0 .. MaxTime]
    /\ Periods \subseteq Nat /\ Quorums \subseteq Nat
    /\ MaxTime \in Nat /\ MaxProposals \in Nat /\ MaxU64 \in Nat

analytics == <<now, admin, governance, paused, latestEpoch, snapshots>>
setup == <<govAdmin, quorum, votingPeriod>>
ballots == <<votes, tally>>
govVars == <<setup, proposalCount, proposals, ballots>>
vars == <<analytics, govVars>>

-----------------------------------------------------------------------------
Status == {"Absent", "Active", "Passed", "Failed", "Executed"}
Choice == {"For", "Against", "Abstain"}
NotVoted == "NotVoted"

\* "Upgrade" stands for a proposal without ParameterAction: it carries a wasm
\* hash and its execution is off-chain.
SetAdminAction == [kind : {"SetAdmin"}, value : Address]
SetPausedAction == [kind : {"SetPaused"}, value : BOOLEAN]
Upgrade == [kind |-> "Upgrade"]
Action == SetAdminAction \cup SetPausedAction \cup {Upgrade}

Proposal == [status : Status, target : Contracts, action : Action,
             createdAt : 0 .. MaxTime, votingEndsAt : 0 .. MaxU64]
NoProposal == [status |-> "Absent", target |-> GovernanceAddress,
               action |-> Upgrade, createdAt |-> 0, votingEndsAt |-> 0]

Tally == [for : Nat, against : Nat, abstain : Nat, total : Nat]
ZeroTally == [for |-> 0, against |-> 0, abstain |-> 0, total |-> 0]
NoVotes == [u \in Users |-> NotVoted]

TypeOK ==
    /\ A!TypeOK
    /\ govAdmin \in Address \cup {NoAddress}
    /\ proposalCount \in 0 .. MaxProposals
    /\ quorum \in Nat
    /\ votingPeriod \in Nat
    /\ proposals \in [ProposalId -> Proposal]
    /\ votes \in [ProposalId -> [Users -> Choice \cup {NotVoted}]]
    /\ tally \in [ProposalId -> Tally]

Init ==
    /\ A!Init
    /\ govAdmin = NoAddress
    /\ proposalCount = 0
    /\ quorum = 0
    /\ votingPeriod = 0
    /\ proposals = [p \in ProposalId |-> NoProposal]
    /\ votes = [p \in ProposalId |-> NoVotes]
    /\ tally = [p \in ProposalId |-> ZeroTally]

-----------------------------------------------------------------------------
Reinitializable == TRUE  \* mutant: initialize does not look at Admin
Uninitialized == govAdmin = NoAddress

Initialize(newAdmin, newQuorum, newPeriod) ==
    /\ Uninitialized
    /\ govAdmin' = newAdmin
    /\ proposalCount' = 0
    /\ quorum' = newQuorum
    /\ votingPeriod' = newPeriod
    /\ UNCHANGED <<analytics, proposals, ballots>>

IsAdmin(caller) == caller \in Users /\ govAdmin # NoAddress /\ caller = govAdmin

\* The u64 addition that yields the deadline, and the check that makes it panic
\* where it would wrap (overflow-checks = true).
Deadline == (now + votingPeriod) % (MaxU64 + 1)
DeadlineMayWrap == TRUE  \* mutant: the addition is not checked
DeadlineFits == now + votingPeriod <= MaxU64

\* The common part of create_proposal and create_parameter_proposal.
Create(caller, target, action) ==
    LET id == proposalCount + 1 IN
    /\ IsAdmin(caller)
    /\ DeadlineFits
    /\ id \in ProposalId
    /\ proposals' = [proposals EXCEPT ![id] =
            [status |-> "Active", target |-> target, action |-> action,
             createdAt |-> now, votingEndsAt |-> Deadline]]
    /\ tally' = [tally EXCEPT ![id] = ZeroTally]
    /\ votes' = [votes EXCEPT ![id] = NoVotes]
    /\ proposalCount' = id
    /\ UNCHANGED <<analytics, setup>>

CreateProposal(caller, target) == Create(caller, target, Upgrade)

CreateParameterProposal(caller, target, action) ==
    /\ action # Upgrade
    /\ Create(caller, target, action)

\* Mutants: the deadline itself still admits votes; the status is not checked.
VotingOpenAtDeadline(id) ==
    /\ proposals[id].status = "Active"
    /\ now <= proposals[id].votingEndsAt
VotingOpenByTime(id) ==
    /\ proposals[id].status # "Absent"
    /\ now <= proposals[id].votingEndsAt
VotingOpen(id) ==
    /\ proposals[id].status = "Active"
    /\ now < proposals[id].votingEndsAt

\* The tally with one more vote.
Counted(t, choice) ==
    [for     |-> t.for + (IF choice = "For" THEN 1 ELSE 0),
     against |-> t.against + (IF choice = "Against" THEN 1 ELSE 0),
     abstain |-> t.abstain + (IF choice = "Abstain" THEN 1 ELSE 0),
     total   |-> t.total + 1]

MayVoteAgain(voter, id) == TRUE  \* mutant: no AlreadyVoted check
MayVote(voter, id) == votes[id][voter] = NotVoted

Vote(voter, id, choice) ==
    /\ VotingOpen(id)
    /\ MayVote(voter, id)
    /\ votes' = [votes EXCEPT ![id][voter] = choice]
    /\ tally' = [tally EXCEPT ![id] = Counted(tally[id], choice)]
    /\ UNCHANGED <<analytics, setup, proposalCount, proposals>>

\* finalize's verdict on a tally.
Carried(t) == t.total >= quorum /\ t.for > t.against

\* Mutant: finalize accepts the last ledger of the voting period.
VotingAboutToEnd(id) == now + 1 >= proposals[id].votingEndsAt
VotingOver(id) == now >= proposals[id].votingEndsAt

Finalize(id) ==
    /\ proposals[id].status = "Active"
    /\ VotingOver(id)
    /\ proposals' = [proposals EXCEPT ![id].status =
                        IF Carried(tally[id]) THEN "Passed" ELSE "Failed"]
    /\ UNCHANGED <<analytics, setup, proposalCount, ballots>>

\* Mutant: the failure of the cross-contract call is ignored.
ApplyIgnoringFailure(target, action) == UNCHANGED analytics

\* The cross-contract call of mark_executed.  A target that is not the
\* analytics contract has no such function, and the call panics.
Apply(target, action) ==
    \/ /\ action.kind = "Upgrade"
       /\ UNCHANGED analytics
    \/ /\ action.kind = "SetAdmin"
       /\ target = AnalyticsAddress
       /\ A!SetAdminByGovernance(GovernanceAddress, action.value)
    \/ /\ action.kind = "SetPaused"
       /\ target = AnalyticsAddress
       /\ A!SetPausedByGovernance(GovernanceAddress, action.value)

IsPassed(id) == proposals[id].status = "Passed"

MarkExecuted(caller, id) ==
    /\ IsAdmin(caller)
    /\ IsPassed(id)
    /\ Apply(proposals[id].target, proposals[id].action)
    /\ proposals' = [proposals EXCEPT ![id].status = "Executed"]
    /\ UNCHANGED <<setup, proposalCount, ballots>>

-----------------------------------------------------------------------------
AnalyticsStep == (A!UserTransaction \/ A!GovernanceCall \/ A!Tick) /\ UNCHANGED govVars

GovernanceStep ==
    \/ \E a \in Address, q \in Quorums, p \in Periods : Initialize(a, q, p)
    \/ \E c \in Users, t \in Contracts : CreateProposal(c, t)
    \/ \E c \in Users, t \in Contracts, x \in Action : CreateParameterProposal(c, t, x)
    \/ \E u \in Users, id \in ProposalId, ch \in Choice : Vote(u, id, ch)
    \/ \E id \in ProposalId : Finalize(id)
    \/ \E c \in Users, id \in ProposalId : MarkExecuted(c, id)

Next == GovernanceStep \/ AnalyticsStep

Spec == Init /\ [][Next]_vars

-----------------------------------------------------------------------------
\* Voters of a proposal, all and by choice, as the Votes map records them.
Voters(id) == {u \in Users : votes[id][u] # NotVoted}
VotersFor(id, choice) == {u \in Users : votes[id][u] = choice}

\* The tally, which vote() increments on its own, always equals what a recount
\* of the Votes map gives: nobody is counted twice and no vote is lost.
TallyCountsVotes ==
    \A id \in ProposalId :
        /\ tally[id].total = Cardinality(Voters(id))
        /\ tally[id].for = Cardinality(VotersFor(id, "For"))
        /\ tally[id].against = Cardinality(VotersFor(id, "Against"))
        /\ tally[id].abstain = Cardinality(VotersFor(id, "Abstain"))

Decided(id) == proposals[id].status \in {"Passed", "Failed", "Executed"}

\* A decided proposal carries the verdict its votes give, for ever: no vote,
\* initialization or other proposal after finalize can put the stored status
\* and the stored tally, quorum and majority at odds.
OutcomeMatchesVotes ==
    \A id \in ProposalId : Decided(id) =>
        (proposals[id].status # "Failed" <=> Carried(tally[id]))

\* A proposal is decided only once the voting period that was configured has
\* passed since its creation, however long (0 and periods that do not fit the
\* clock included), so every address had the full period to vote; and a passed
\* one was voted for by somebody, whatever the quorum.
DecidedAfterDeadline ==
    \A id \in ProposalId : Decided(id) =>
        /\ now >= proposals[id].createdAt + votingPeriod
        /\ proposals[id].status # "Failed" => VotersFor(id, "For") # {}

\* Proposals are exactly 1 .. proposal_count, and each keeps the deadline that
\* its creation time and the voting period give.
ProposalsAreDense ==
    \A id \in ProposalId :
        /\ proposals[id].status # "Absent" <=> id <= proposalCount
        /\ id <= proposalCount =>
              /\ proposals[id].createdAt <= now
              /\ proposals[id].votingEndsAt = proposals[id].createdAt + votingPeriod

\* The life of a proposal: Active, then Passed or Failed, then (from Passed
\* only, once) Executed; what it proposes and its deadline never change.
Follows(s) ==
    CASE s = "Absent" -> {"Active"}
      [] s = "Active" -> {"Passed", "Failed"}
      [] s = "Passed" -> {"Executed"}
      [] OTHER -> {}
KeepsLifecycle(id) ==
    /\ proposals'[id].status # proposals[id].status =>
          proposals'[id].status \in Follows(proposals[id].status)
    /\ proposals[id].status # "Absent" =>
          [proposals'[id] EXCEPT !.status = proposals[id].status] = proposals[id]
ProposalLifecycle == [][\A id \in ProposalId : KeepsLifecycle(id)]_vars

\* A ballot is final: a cast vote is never changed or withdrawn, and from the
\* deadline on (a bound finalize and vote must agree on) the ballot is frozen.
KeepsBallot(id) ==
    proposals[id].status # "Absent" =>
       /\ \A u \in Voters(id) : votes'[id][u] = votes[id][u]
       /\ now >= proposals[id].votingEndsAt =>
             votes'[id] = votes[id] /\ tally'[id] = tally[id]
BallotsAreFinal == [][\A id \in ProposalId : KeepsBallot(id)]_vars

\* mark_executed and the analytics call are one transaction: a parameter
\* proposal becomes Executed only in the step that puts its value into the
\* analytics contract, which at that moment names this contract its governance;
\* a call that panics leaves the proposal Passed.
TakesEffect(id) ==
    LET x == proposals[id].action IN
    /\ proposals[id].status # "Executed"
    /\ proposals'[id].status = "Executed"
    /\ x # Upgrade
    => /\ proposals[id].target = AnalyticsAddress
       /\ governance = GovernanceAddress
       /\ x.kind = "SetAdmin" => admin' = x.value
       /\ x.kind = "SetPaused" => paused' = x.value
       /\ UNCHANGED <<latestEpoch, snapshots>>
ExecutionTakesEffect == [][\A id \in ProposalId : TakesEffect(id)]_vars

\* Governing the analytics contract (replacing its admin, pausing it) never
\* rewrites its published history.
GovernedHistoryIsEpochLog == A!ImplementsEpochLog
=============================================================================
