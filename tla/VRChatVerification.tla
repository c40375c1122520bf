--------------------------- MODULE VRChatVerification ---------------------------
(***************************************************************************)
(* verifyByBio and verifyByFriendRequest (connectors/vrchat/verification.ts) *)
(* as account/router.ts runs them: in the background, several at a time, on *)
(* one bot account, without a handler for what they throw.  VRChat itself   *)
(* is the relation between the bot and each VRChat user and that user's bio. *)
(*                                                                          *)
(* Time is counted in poll intervals: a verification ends Deadline of them   *)
(* after it began (10 with the defaults of verification.ts:31-36).          *)
(***************************************************************************)
EXTENDS Integers

CONSTANTS
  Verifications, \* verifications of a behaviour (bound)
  VRChatUsers,   \* VRChat users
  NoCode,       \* a bio without any code
  Deadline,     \* timeoutMs / pollIntervalMs
  MaxFailures   \* calls of the VRChat API that fail (bound)

ASSUME DeadlineAssumption == Deadline \in Nat \ {0}

ASSUME MaxFailuresAssumption == MaxFailures \in Nat

ASSUME NoCodeAssumption == NoCode \notin Verifications

VARIABLES
  relation,   \* relation[t]: between the bot and t
  bio,        \* bio[t]: the request whose code t's bio contains
  pc,         \* pc[r]: the next step of request r
  mode,       \* mode[r]: how r verifies
  target,     \* target[r]: the VRChat user r verifies
  elapsed,    \* elapsed[r]: poll intervals since r began
  verified,   \* requests whose poll saw the proof
  polls,      \* polls[r]: calls of getUserById or getFriendStatus (history)
  accepted,   \* requests whose target accepted while they ran (history)
  pasted,     \* requests whose code their target pasted (history)
  late,       \* users who accepted after the last poll (history)
  failures

vrchat == <<relation, bio>>
history == <<accepted, pasted, late>>
vrchatVars == <<vrchat, pc, mode, target, elapsed, verified, polls, history, failures>>

PCs == {"idle", "send", "poll", "sleep", "cleanup", "done", "crashed"}

Ended == {"done", "crashed"}

Running == {"send", "poll", "sleep", "cleanup"}

VRChatTypeOK ==
  /\ relation \in [VRChatUsers -> {"none", "requested", "friends"}]
  /\ bio \in [VRChatUsers -> Verifications \cup {NoCode}]
  /\ pc \in [Verifications -> PCs]
  /\ mode \in [Verifications -> {"bio", "friend"}]
  /\ target \in [Verifications -> VRChatUsers]
  /\ elapsed \in [Verifications -> 0..Deadline]
  /\ verified \subseteq Verifications
  /\ polls \in [Verifications -> 0..Deadline]
  /\ accepted \subseteq Verifications
  /\ pasted \subseteq Verifications
  /\ late \subseteq VRChatUsers
  /\ failures \in 0..MaxFailures

VRChatInit ==
  /\ relation = [t \in VRChatUsers |-> "none"]
  /\ bio = [t \in VRChatUsers |-> NoCode]
  /\ pc = [r \in Verifications |-> "idle"]
  /\ mode \in [Verifications -> {"bio", "friend"}]
  /\ target \in [Verifications -> VRChatUsers]
  /\ elapsed = [r \in Verifications |-> 0]
  /\ verified = {}
  /\ polls = [r \in Verifications |-> 0]
  /\ accepted = {}
  /\ pasted = {}
  /\ late = {}
  /\ failures = 0

------------------------------------------------------------------------------

Goto(r, from, to) ==
  /\ pc[r] = from
  /\ pc' = [pc EXCEPT ![r] = to]

With(r) == relation[target[r]]

\* POST /account/link/vrchat/bio or /friend answers and leaves r running.
Start(r) ==
  /\ Goto(r, "idle", IF mode[r] = "friend" THEN "send" ELSE "poll")
  /\ UNCHANGED <<vrchat, mode, target, elapsed, verified, polls, history, failures>>

\* sendFriendRequest; a request to a user who has one already may be refused.
Send(r) ==
  /\ With(r) # "friends"
  /\ Goto(r, "send", "poll")
  /\ relation' = [relation EXCEPT ![target[r]] = "requested"]
  /\ UNCHANGED <<bio, mode, target, elapsed, verified, polls, history, failures>>

\* Where a verification goes after its loop.
AfterLoop(r) == IF mode[r] = "friend" THEN "cleanup" ELSE "done"

\* Mutant: a request that is no longer pending counts as accepted.
NotPending(r) == IF mode[r] = "friend" THEN With(r) # "requested"
                                       ELSE bio[target[r]] = r

\* The proof r's poll looks for.
Proof(r) == IF mode[r] = "friend" THEN With(r) = "friends" ELSE bio[target[r]] = r

PollFrame(r) ==
  /\ polls' = [polls EXCEPT ![r] = @ + 1]
  /\ UNCHANGED <<vrchat, mode, target, history, failures>>

\* getFriendStatus or getUserById, which may take as long as an interval, and
\* the look at the clock after it.
Poll(r) ==
  \E now \in elapsed[r]..(elapsed[r] + 1) :
    /\ now <= Deadline
    /\ elapsed' = [elapsed EXCEPT ![r] = now]
    /\ \/ /\ Proof(r)
          /\ verified' = verified \cup {r}
          /\ Goto(r, "poll", AfterLoop(r))
       \/ /\ ~Proof(r)
          /\ Goto(r, "poll", IF now >= Deadline THEN AfterLoop(r) ELSE "sleep")
          /\ UNCHANGED verified
    /\ PollFrame(r)

SleepFrame == UNCHANGED <<vrchat, mode, target, verified, polls, history, failures>>

\* Mutant: the loop goes on while now <= deadline.
SleepOffByOne(r) ==
  /\ elapsed[r] < Deadline
  /\ elapsed' = [elapsed EXCEPT ![r] = @ + 1]
  /\ Goto(r, "sleep", "poll")
  /\ SleepFrame

\* Mutant: the deadline is computed anew in every iteration.
SleepForever(r) ==
  /\ Goto(r, "sleep", "poll")
  /\ elapsed' = [elapsed EXCEPT ![r] = 0]
  /\ UNCHANGED <<vrchat, mode, target, verified, history, failures>>
  /\ polls' = [polls EXCEPT ![r] = 0]

\* sleep(pollIntervalMs) and the condition of the loop.
Sleep(r) ==
  /\ elapsed' = [elapsed EXCEPT ![r] = @ + 1]
  /\ Goto(r, "sleep", IF elapsed[r] + 1 < Deadline THEN "poll" ELSE AfterLoop(r))
  /\ SleepFrame

\* Mutant: only a verified user is cleaned up after.
CleanUpVerified(r) ==
  /\ Goto(r, "cleanup", "done")
  /\ relation' = IF r \in verified THEN [relation EXCEPT ![target[r]] = "none"]
                                   ELSE relation
  /\ UNCHANGED <<bio, mode, target, elapsed, verified, polls, history, failures>>

\* unfriend after a success; deleteFriendRequest otherwise, which leaves a
\* friendship alone.
CleanUp(r) ==
  /\ Goto(r, "cleanup", "done")
  /\ \/ /\ r \in verified /\ With(r) = "friends"
        /\ relation' = [relation EXCEPT ![target[r]] = "none"]
     \/ /\ r \notin verified
        /\ relation' = [relation EXCEPT ![target[r]] =
                          IF @ = "requested" THEN "none" ELSE @]
  /\ UNCHANGED <<bio, mode, target, elapsed, verified, polls, history, failures>>

\* VRChat refuses the call: there is nothing to undo, or the two are friends.
Refused(r) ==
  \/ pc[r] = "send" /\ With(r) # "none"
  \/ pc[r] = "cleanup" /\ r \in verified /\ With(r) # "friends"
  \/ pc[r] = "cleanup" /\ r \notin verified /\ With(r) # "requested"

\* A call throws, because VRChat refuses it or fails: nobody handles the
\* rejection, so the process ends and every verification with it.
Throw(r) ==
  /\ \/ Refused(r) /\ UNCHANGED failures
     \/ /\ pc[r] \in {"send", "poll", "cleanup"} /\ ~Refused(r)
        /\ failures < MaxFailures /\ failures' = failures + 1
  /\ pc' = [s \in Verifications |-> IF pc[s] \in Running THEN "crashed" ELSE pc[s]]
  /\ UNCHANGED <<vrchat, mode, target, elapsed, verified, polls, history>>

------------------------------------------------------------------------------
(* The VRChat user, external to this code.                                 *)

UserFrame == UNCHANGED <<pc, mode, target, elapsed, verified, polls, failures>>

\* No poll of r will follow although it has not seen a proof.
PastLastPoll(r) ==
  /\ mode[r] = "friend" /\ r \notin verified
  /\ pc[r] = "cleanup" \/ (pc[r] = "sleep" /\ elapsed[r] + 1 >= Deadline)

\* t accepts the bot's request.
Accept(t) ==
  /\ relation[t] = "requested"
  /\ relation' = [relation EXCEPT ![t] = "friends"]
  /\ accepted' = accepted \cup {r \in Verifications : /\ target[r] = t
                                                     /\ mode[r] = "friend"
                                                     /\ pc[r] \in Running}
  /\ late' = IF \E r \in Verifications : target[r] = t /\ PastLastPoll(r)
             THEN late \cup {t} ELSE late
  /\ UNCHANGED <<bio, pasted>> /\ UserFrame

\* t declines the request, or ends the friendship.
Decline(t) ==
  /\ relation[t] # "none"
  /\ relation' = [relation EXCEPT ![t] = "none"]
  /\ UNCHANGED <<bio, history>> /\ UserFrame

\* t writes a code it was shown into its bio, in the place of another.
Paste(t, r) ==
  /\ mode[r] = "bio" /\ pc[r] # "idle" /\ target[r] = t
  /\ bio' = [bio EXCEPT ![t] = r]
  /\ pasted' = pasted \cup {r}
  /\ UNCHANGED <<relation, accepted, late>> /\ UserFrame

\* Every verification has ended: the behaviour may stop.
Rest ==
  /\ \A r \in Verifications : pc[r] \in Ended
  /\ UNCHANGED vrchatVars

VerificationStep(r) == Send(r) \/ Poll(r) \/ Sleep(r) \/ CleanUp(r) \/ Throw(r)

VRChatNext ==
  \/ \E r \in Verifications : Start(r) \/ VerificationStep(r)
  \/ \E t \in VRChatUsers : Accept(t) \/ Decline(t) \/ \E r \in Verifications : Paste(t, r)
  \/ Rest

\* The timers of Node fire and calls of the API return or throw; users owe
\* nothing.
VRChatFairness == \A r \in Verifications : WF_vrchatVars(VerificationStep(r))

VRChatSpec == VRChatInit /\ [][VRChatNext]_vrchatVars

VRChatFairSpec == VRChatSpec /\ VRChatFairness

------------------------------------------------------------------------------
(* Properties.                                                             *)

\* Nobody is verified without having acted: the user accepted while this
\* verification ran, or pasted the code of this one and no other
\* (verification.ts:59, 88-91).
VerifiedByTheUser ==
  \A r \in verified : r \in IF mode[r] = "friend" THEN accepted ELSE pasted

\* Once no verification of a user runs and none of them threw, the bot is tied
\* to that user only when the user accepted after the last poll of one
\* (verification.ts:86-100).
TiedOnlyByLateAcceptance ==
  \A t \in VRChatUsers :
    (\A r \in Verifications : target[r] = t => pc[r] \in {"idle", "done"})
      => relation[t] = "none" \/ t \in late

\* Every verification ends, whatever the user does (verification.ts:56, 62).
VerificationsEnd ==
  \A r \in Verifications : pc[r] \in Running ~> pc[r] \in Ended
==============================================================================
