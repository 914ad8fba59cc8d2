-------------------------------- MODULE Votes --------------------------------
(***************************************************************************)
(* Votes of everyone and of a team (src/src/game/g_cmds.c, g_main.c):      *)
(* called, answered, decided early or at their end, and carried out after  *)
(* a delay, while players change teams and leave.  Who has voted is a bit  *)
(* of the player; the votes are two numbers.                               *)
(*                                                                         *)
(* The code has a vote of each kind, which share nothing; here there is    *)
(* one at a time, of either kind.  The humans are as the aliens are, and   *)
(* left out.  One frame is one unit of time.                               *)
(***************************************************************************)
EXTENDS Integers, FiniteSets

CONSTANTS Players,
          Texts, NoText,    \* what can be voted for
          PercentOf,        \* of a text, level.voteThreshold
          DelayOf,          \* of a text, level.voteDelay
          VoteTime,         \* VOTE_TIME
          Least             \* bound: nobody leaves a vote with a counter below this

ASSUME VoteAssumption ==
    /\ IsFiniteSet(Players) /\ VoteTime \in Nat \ {0} /\ NoText \notin Texts
    /\ PercentOf \in [Texts -> 1..99] /\ DelayOf \in [Texts -> Nat]

Kinds == {"everyone", "aliens"}

VARIABLES playerTeam,   \* pers.teamSelection, or "gone"
          answer,       \* pers.voted and, if that is set, pers.vote
          ballot,       \* voteTime as age (-1: none), voteYes, voteNo, voteString, and the kind
          executeIn,    \* frames until voteExecuteTime has passed; 0: nothing to do
          counted,      \* history: whose answers are in voteYes and voteNo
          passed        \* history: what passed and is not carried out

voteVars == <<playerTeam, answer, ballot, executeIn, counted, passed>>

Ballots == [kind : Kinds, age : -1..VoteTime, yes : Int, no : Int, text : Texts \cup {NoText}]

VoteTypeOK ==
    /\ playerTeam \in [Players -> {"gone", "none", "aliens"}]
    /\ answer \in [Players -> {"open", "yes", "no"}]
    /\ ballot \in Ballots
    /\ ballot.age # -1 => ballot.text \in Texts
    /\ executeIn \in Nat
    /\ counted \subseteq Players
    /\ passed \in Texts \cup {NoText}
-----------------------------------------------------------------------------
InProgress == ballot.age # -1

(* numVotingClients *)
Member(p, k) == IF k = "everyone" THEN playerTeam[p] # "gone" ELSE playerTeam[p] = k
Voters == Cardinality({p \in Players : Member(p, ballot.kind)})

(* G_Vote: the counters of ballot b, one more or one less. *)
Counts(b, a, n) == IF a = "yes" THEN [b EXCEPT !.yes = @ + n] ELSE [b EXCEPT !.no = @ + n]

(* A vote is called while what was passed before waits for its time: that  *)
(* is carried out at once.                                                 *)
ExecutesFirst_Never == FALSE
ExecutesFirst == executeIn > 0

(* Cmd_CallVote_f: the caller's vote is the first.  If it is refused,      *)
(* what was passed before has been carried out nevertheless.               *)
Cmd_CallVote_f(p, k) ==
    /\ Member(p, k) /\ ~InProgress
    /\ executeIn > 0 => k = ballot.kind
    /\ executeIn' = IF ExecutesFirst THEN 0 ELSE executeIn
    /\ passed' = IF executeIn' = 0 THEN NoText ELSE passed
    /\ \/ /\ \E text \in Texts :
                ballot' = [kind |-> k, age |-> 0, yes |-> 1, no |-> 0, text |-> text]
          /\ answer' = [answer EXCEPT ![p] = "yes"]
          /\ counted' = {p}
       \/ UNCHANGED <<ballot, answer, counted>>
    /\ UNCHANGED playerTeam

(* Cmd_Vote_f *)
Cmd_Vote_f(p, a) ==
    /\ Member(p, ballot.kind) /\ InProgress /\ answer[p] = "open"
    /\ answer' = [answer EXCEPT ![p] = a]
    /\ ballot' = Counts(ballot, a, 1)
    /\ counted' = counted \cup {p}
    /\ UNCHANGED <<playerTeam, executeIn, passed>>

(* G_Vote as p leaves the voters of some kinds of vote: the counters go    *)
(* down, while the bit that says that p has voted stays.                   *)
Withdraws_Never(p, kinds) == FALSE
Withdraws(p, kinds) == InProgress /\ ballot.kind \in kinds /\ answer[p] # "open"
LeavesVote(p, kinds) ==
    /\ ballot' = IF Withdraws(p, kinds) THEN Counts(ballot, answer[p], -1) ELSE ballot
    /\ counted' = IF Withdraws(p, kinds) THEN counted \ {p} ELSE counted

(* G_ChangeTeam, G_LeaveTeam *)
G_ChangeTeam(p, newTeam) ==
    /\ playerTeam[p] # "gone" /\ newTeam # playerTeam[p]
    /\ ballot.yes >= Least /\ ballot.no >= Least
    /\ LeavesVote(p, {playerTeam[p]})
    /\ playerTeam' = [playerTeam EXCEPT ![p] = newTeam]
    /\ UNCHANGED <<answer, executeIn, passed>>

(* ClientDisconnect *)
VoterDisconnects(p) ==
    /\ playerTeam[p] # "gone"
    /\ LeavesVote(p, {playerTeam[p], "everyone"})
    /\ playerTeam' = [playerTeam EXCEPT ![p] = "gone"]
    /\ UNCHANGED <<answer, executeIn, passed>>

(* ClientConnect clears the client. *)
VoterConnects(p) ==
    /\ playerTeam[p] = "gone"
    /\ playerTeam' = [playerTeam EXCEPT ![p] = "none"]
    /\ answer' = [answer EXCEPT ![p] = "open"]
    /\ UNCHANGED <<ballot, executeIn, counted, passed>>

(* Whether ballot b passes, fails or goes on among n voters. *)
TimeUp(b) == b.age >= VoteTime
Fails_AtThreshold(b, n) == 100 * b.no > n * PercentOf[b.text]
Fails(b, n) == 100 * b.no > n * (100 - PercentOf[b.text])
Outcome(b, n) ==
    IF TimeUp(b) \/ b.yes + b.no = n
    THEN IF b.yes # 0 /\ 100 * b.yes > PercentOf[b.text] * (b.yes + b.no) THEN "pass" ELSE "fail"
    ELSE IF 100 * b.yes > n * PercentOf[b.text] THEN "pass"
    ELSE IF Fails(b, n) THEN "fail"
    ELSE "open"

(* G_CheckVote for ballot b, while what has passed before is carried out   *)
(* in wait frames.                                                         *)
G_CheckVote(b, wait) ==
    LET outcome == IF b.age = -1 THEN "open" ELSE Outcome(b, Voters)
        over == [kind |-> b.kind, age |-> -1, yes |-> 0, no |-> 0, text |-> b.text]
    IN  /\ ballot' = IF outcome = "open" THEN b ELSE over
        /\ answer' = IF outcome = "open" THEN answer ELSE [p \in Players |-> "open"]
        /\ executeIn' = IF outcome = "pass" THEN DelayOf[b.text] + 1 ELSE wait
        /\ counted' = IF outcome = "open" THEN counted ELSE {}
        /\ passed' = IF outcome = "pass" THEN b.text ELSE IF wait > 0 THEN passed ELSE NoText
        /\ UNCHANGED playerTeam

(* A frame: what waits for its time is carried out when that has passed,   *)
(* and the vote is checked.                                                *)
G_RunFrame ==
    G_CheckVote(IF ballot.age \in 0..VoteTime - 1 THEN [ballot EXCEPT !.age = @ + 1] ELSE ballot,
                IF executeIn > 0 THEN executeIn - 1 ELSE 0)

(* The admin commands endvote and cancelvote: everyone voted yes, or no. *)
AdminEndsVote(yes) ==
    /\ InProgress
    /\ G_CheckVote([ballot EXCEPT !.yes = IF yes THEN Voters ELSE 0,
                                  !.no = IF yes THEN 0 ELSE Voters],
                   executeIn)
-----------------------------------------------------------------------------
VoteInit ==
    /\ playerTeam = [p \in Players |-> "none"]
    /\ answer = [p \in Players |-> "open"]
    /\ ballot = [kind |-> "everyone", age |-> -1, yes |-> 0, no |-> 0, text |-> NoText]
    /\ executeIn = 0 /\ counted = {} /\ passed = NoText

VoteNext ==
    \/ \E p \in Players, k \in Kinds : Cmd_CallVote_f(p, k)
    \/ \E p \in Players, a \in {"yes", "no"} : Cmd_Vote_f(p, a)
    \/ \E p \in Players, t \in {"none", "aliens"} : G_ChangeTeam(p, t)
    \/ \E p \in Players : VoterDisconnects(p) \/ VoterConnects(p)
    \/ \E yes \in BOOLEAN : AdminEndsVote(yes)
    \/ G_RunFrame

VoteSpec == VoteInit /\ [][VoteNext]_voteVars
-----------------------------------------------------------------------------
(* Those who have voted, in a vote of everyone, are the ones it counts,    *)
(* and the counters say how they voted, though players come and go.  In a  *)
(* vote of a team nobody is counted who has not voted or is not there.     *)
(* Between votes no answer is left of the last one.                        *)
VoteInv ==
    /\ VoteTypeOK
    /\ ~InProgress => \A p \in Players : answer[p] = "open"
    /\ InProgress => \A p \in counted : Member(p, ballot.kind) /\ answer[p] # "open"
    /\ (InProgress /\ ballot.kind = "everyone") =>
          LET those(a) == {p \in Players : playerTeam[p] # "gone" /\ answer[p] = a}
          IN  /\ counted = those("yes") \cup those("no")
              /\ ballot.yes = Cardinality(those("yes"))
              /\ ballot.no = Cardinality(those("no"))

(* What is carried out is what was passed, though another vote of the same *)
(* kind can be called meanwhile and has its text in the same place         *)
(* (g_cmds.c:1195).                                                        *)
ExecutesWhatPassed == executeIn > 0 => ballot.text = passed

(* A vote that is decided before everyone has voted or its time is up is   *)
(* decided as it would be, however the others vote (g_main.c:2184).        *)
DecidedRight(b, n, outcome) ==
    (b.yes \in 0..n /\ b.no \in 0..n /\ b.yes + b.no < n /\ b.age + 1 < VoteTime)
        => \A yes \in 0..n - b.yes - b.no :
              Outcome([b EXCEPT !.yes = @ + yes, !.no = n - b.yes - yes], n) = outcome
EarlyDecisionRight ==
    [][(InProgress /\ ballot'.age = -1 /\ G_RunFrame)
          => DecidedRight(ballot, Voters, IF executeIn' > 0 THEN "pass" ELSE "fail")]_voteVars

(* A player who is told "vote already cast" (g_cmds.c:1546) has a vote     *)
(* that counts.  (It does not hold: who leaves the team and comes back     *)
(* during the vote is no longer counted.)                                  *)
CastMeansCounted ==
    \A p \in Players :
        (InProgress /\ Member(p, ballot.kind) /\ answer[p] # "open") => p \in counted
==============================================================================
