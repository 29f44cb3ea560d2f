------------------------------- MODULE VotePacing -------------------------------
(***************************************************************************)
(* When a vote that one node has decided to cast leaves the node           *)
(* (consensus-state/src/lib.rs: try_vote, handle_vote_timer,               *)
(* send_vote_and_reset_timer; updaters/src/timer.rs).  A vote waits in     *)
(* scheduled_vote until the vote timer fires, unless the timer has fired   *)
(* already or the round follows a timeout.  Certificates, round timeouts,  *)
(* proposals and timer events arrive in any order; an expired timer's      *)
(* event may still be delivered after the timer was replaced.              *)
(***************************************************************************)
EXTENDS Integers, Sequences

CONSTANT LastRound   \* bound: the last round that is entered

ASSUME PacingAssumption == LastRound \in Nat \ {0}

VoteRounds == 1..LastRound

VARIABLES
    current_round,   \* pacemaker.get_current_round()
    highest_vote,    \* Safety::highest_vote
    scheduled_vote,  \* ConsensusState::scheduled_vote
    timer,           \* round of the running SendVote timer, 0 when none runs
    expired,         \* rounds of the SendVote events that are not handled yet
    sent,            \* history: rounds of the votes sent, in order
    vote_panicked    \* try_vote has hit its panic

pacing_vars == <<current_round, highest_vote, scheduled_vote, timer, expired, sent, vote_panicked>>

NoVote == [status |-> "None", round |-> 0]
TimerFired == [status |-> "TimerFired", round |-> 0]
VoteReady(r) == [status |-> "VoteReady", round |-> r]
OutgoingVoteStatus == {NoVote, TimerFired} \cup {VoteReady(r) : r \in VoteRounds}

\* Consensus starts: the SendVote and Timeout events of the current round are
\* handled before anything else.
PacingInit ==
    /\ current_round = 1
    /\ highest_vote = 1
    /\ scheduled_vote = TimerFired
    /\ timer = 0
    /\ expired = {}
    /\ sent = <<>>
    /\ vote_panicked = FALSE

-----------------------------------------------------------------------------
\* Mutants: a vote that was waiting stays scheduled, or the timer is not started again.
SendVote_StaysScheduled(r) ==
    /\ sent' = Append(sent, r)
    /\ timer' = r + 1
    /\ scheduled_vote' = IF scheduled_vote.status = "VoteReady" THEN scheduled_vote ELSE NoVote
SendVote_NoTimer(r) ==
    /\ sent' = Append(sent, r)
    /\ scheduled_vote' = NoVote
    /\ UNCHANGED timer

\* send_vote_and_reset_timer; starting a timer replaces the one that runs.
SendVote(r) ==
    /\ sent' = Append(sent, r)
    /\ timer' = r + 1
    /\ scheduled_vote' = NoVote

\* Mutant: the round that was voted or timed out may be voted in again.
SafeToVote_SameRound == current_round >= highest_vote

\* Safety::is_safe_to_vote, as far as rounds go.
SafeToVote == current_round > highest_vote

\* try_vote for a proposal of the current round; consecutive says that its
\* parent block is of the round before.
TryVote(consecutive) ==
    /\ SafeToVote
    /\ highest_vote' = current_round
    /\ IF scheduled_vote.status = "VoteReady" /\ scheduled_vote.round >= current_round
       THEN vote_panicked' = TRUE /\ UNCHANGED <<scheduled_vote, timer, sent>>
       ELSE /\ UNCHANGED vote_panicked
            /\ IF scheduled_vote.status = "TimerFired" \/ ~consecutive
               THEN SendVote(current_round)
               ELSE scheduled_vote' = VoteReady(current_round) /\ UNCHANGED <<timer, sent>>
    /\ UNCHANGED <<current_round, expired>>

\* Mutant: only the timer of the vote's own round releases it.
HandleVoteTimer_OwnRound ==
    \E r \in expired :
        /\ expired' = expired \ {r}
        /\ IF scheduled_vote.status = "VoteReady"
           THEN IF scheduled_vote.round = r THEN SendVote(r)
                ELSE UNCHANGED <<scheduled_vote, timer, sent>>
           ELSE scheduled_vote' = TimerFired /\ UNCHANGED <<timer, sent>>
        /\ UNCHANGED <<current_round, highest_vote, vote_panicked>>

\* handle_vote_timer: any timer event releases the vote, whatever its round.
HandleVoteTimer ==
    \E r \in expired :
        /\ expired' = expired \ {r}
        /\ IF scheduled_vote.status = "VoteReady" THEN SendVote(scheduled_vote.round)
           ELSE scheduled_vote' = TimerFired /\ UNCHANGED <<timer, sent>>
        /\ UNCHANGED <<current_round, highest_vote, vote_panicked>>

\* TokioTimer: the task of the running timer completes.
TimerExpires ==
    /\ timer # 0
    /\ timer' = 0
    /\ expired' = expired \cup {timer}
    /\ UNCHANGED <<current_round, highest_vote, scheduled_vote, sent, vote_panicked>>

\* A certificate takes the node to a later round.
EnterRound ==
    /\ \E r \in VoteRounds : r > current_round /\ current_round' = r
    /\ UNCHANGED <<highest_vote, scheduled_vote, timer, expired, sent, vote_panicked>>

\* The round times out (Safety::timeout); a scheduled vote is left alone.
Timeout ==
    /\ highest_vote' = current_round
    /\ UNCHANGED <<current_round, scheduled_vote, timer, expired, sent, vote_panicked>>

PacingNext ==
    /\ ~vote_panicked
    /\ \/ \E consecutive \in BOOLEAN : TryVote(consecutive)
       \/ HandleVoteTimer \/ TimerExpires \/ EnterRound \/ Timeout

\* Timers expire and their events are handled; nothing else has to happen.
PacingFairness == WF_pacing_vars(TimerExpires) /\ WF_pacing_vars(HandleVoteTimer)

PacingSpec == PacingInit /\ [][PacingNext]_pacing_vars /\ PacingFairness

-----------------------------------------------------------------------------
\* A timer is only started for the round after a vote's round.
PacingTypeOK ==
    /\ current_round \in VoteRounds
    /\ highest_vote \in VoteRounds
    /\ scheduled_vote \in OutgoingVoteStatus
    /\ timer \in 0..LastRound + 1
    /\ expired \subseteq 1..LastRound + 1
    /\ sent \in Seq(VoteRounds)
    /\ vote_panicked \in BOOLEAN

\* try_vote's panic "trying to schedule another vote in same round" is
\* unreachable, however late the timer that should have released a vote is.
VoteNeverPanics == ~vote_panicked

\* Votes leave the node in the order of their rounds and once each, although
\* some leave from try_vote and some from a timer that was started for another
\* round.
SentInOrder ==
    \A i, j \in 1..Len(sent) : i < j => sent[i] < sent[j]

\* Pacing never stalls: unless the timer has fired already, a timer is running or
\* its event is on the way.
TimerArmed ==
    scheduled_vote.status # "TimerFired" => timer # 0 \/ expired # {}

\* A scheduled vote does not wait for ever, whatever round the timer that is
\* running was started for.
ReadyVoteLeaves ==
    \A r \in VoteRounds : scheduled_vote = VoteReady(r) ~> scheduled_vote # VoteReady(r)
=============================================================================
