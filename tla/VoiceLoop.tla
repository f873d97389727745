------------------------------ MODULE VoiceLoop ------------------------------
(***************************************************************************)
(* The hands-free voice loop: voice/continuous_loop.py with the endpointer *)
(* of voice/vad.py and the wake strategies of voice/wake.py.               *)
(*                                                                         *)
(* The loop suspends while it waits for the next frame of the microphone,  *)
(* while it transcribes, while the brain answers and while it speaks; an   *)
(* action is what it does in between.  Durations are numbers of frames.    *)
(*                                                                         *)
(* A frame is voiced or not.  The microphone's queue and the frames it     *)
(* drops while it is full are left out: any sequence of frames may arrive. *)
(***************************************************************************)
EXTENDS Integers

CONSTANTS Modes,            \* wake_mode: TRUE for "transcript", FALSE for "none"
          OnsetFrames,      \* EndpointConfig.onset_frames
          PrerollFrames,    \* EndpointConfig.preroll_frames
          InitialWait,      \* EndpointConfig.max_initial_wait
          InactivityWait,   \* LoopConfig.inactivity_timeout
          MaxUtterance,     \* EndpointConfig.max_utterance
          TrailingSilence   \* EndpointConfig.trailing_silence, at least one frame

ASSUME VoiceAssumption ==
    /\ Modes \subseteq BOOLEAN
    /\ OnsetFrames \in Nat \ {0}
    /\ PrerollFrames \in Nat
    /\ InitialWait \in Nat \ {0}
    /\ InactivityWait \in Nat \ {0}
    /\ MaxUtterance \in Nat
    /\ TrailingSilence \in Nat \ {0}

VARIABLES
    gated,       \* is the wake word needed?  (never changes)
    pc,          \* where run() is
    state,       \* _state
    stop,        \* _stop.is_set()
    over,        \* is the stream of frames exhausted?
    call,        \* the locals of collect_utterance()
    transcript,  \* of the utterance in hand
    ending,      \* does the session end after what is being said?
    reason,      \* stats.stopped_reason
    woken,       \* history: has a wake word been heard since it last fell asleep?
    quiet,       \* history: was the last frame not voiced?
    late         \* history: answers begun after stop()

inputs  == <<gated, stop>>
history == <<woken, quiet, late>>
vars    == <<inputs, pc, state, over, call, transcript, ending, reason, history>>

(***************************************************************************)
(* What is said is an exit phrase, a sleep phrase, another request or      *)
(* nothing, and the wake word comes before it, after it or not at all.     *)
(***************************************************************************)
Nothing == [says |-> "nothing", wake |-> "none"]

Transcripts ==
    [says : {"nothing", "request", "exit", "sleep"}, wake : {"none", "before", "after"}]

\* The locals of a call of collect_utterance() with this max_initial_wait; heard
\* is the number of frames before the onset, which the code does not count.
NewCall(wait) ==
    [limit |-> wait, started |-> FALSE, onset |-> 0, waited |-> 0,
     preroll |-> 0, length |-> 0, silent |-> 0, heard |-> 0]

Calls ==
    [limit : {InitialWait, InactivityWait}, started : BOOLEAN, onset : Nat,
     waited : Nat, preroll : 0..PrerollFrames, length : Nat, silent : Nat, heard : Nat]

TypeOK ==
    /\ gated \in Modes
    /\ pc \in {"start", "listening", "transcribing", "answering", "speaking", "returned"}
    /\ state \in {"asleep", "active", "stopped"}
    /\ stop \in BOOLEAN
    /\ over \in BOOLEAN
    /\ call \in Calls
    /\ transcript \in Transcripts
    /\ ending \in BOOLEAN
    /\ reason \in {"", "stream_ended", "exit_phrase", "interrupted"}
    /\ woken \in BOOLEAN
    /\ quiet \in BOOLEAN
    /\ late \in Nat

Init ==
    /\ gated \in Modes
    /\ pc = "start"
    /\ state = IF gated THEN "asleep" ELSE "active"
    /\ stop = FALSE
    /\ over = FALSE
    /\ call = NewCall(InitialWait)
    /\ transcript = Nothing
    /\ ending = FALSE
    /\ reason = ""
    /\ woken = FALSE
    /\ quiet = TRUE
    /\ late = 0

(***************************************************************************)
(* The head of `while not self._stop.is_set()`, entered in state s, and    *)
(* the ways out of run().                                                  *)
(***************************************************************************)
EndpointForState(s) ==
    NewCall(IF s = "active" /\ gated THEN InactivityWait ELSE InitialWait)

Leave(r) ==
    /\ pc' = "returned"
    /\ state' = "stopped"
    /\ reason' = r
    /\ transcript' = Nothing
    /\ call' = call

\* Fault: stop() is only looked at before the first utterance.
LoopHead_Once(s) ==
    /\ pc' = "listening"
    /\ state' = s
    /\ call' = EndpointForState(s)
    /\ transcript' = Nothing
    /\ reason' = reason

LoopHead(s) ==
    \/ stop /\ Leave(reason)
    \/ /\ ~stop
       /\ pc' = "listening"
       /\ state' = s
       /\ call' = EndpointForState(s)
       /\ transcript' = Nothing
       /\ reason' = reason

Run ==
    /\ pc = "start"
    /\ LoopHead(state)
    /\ UNCHANGED <<inputs, over, ending, history>>

\* _say(): afterwards the session ends or the loop goes on.
Say(s, end) ==
    /\ pc' = "speaking"
    /\ state' = s
    /\ ending' = end
    /\ UNCHANGED <<call, reason>>

GoToSleep == Say("asleep", FALSE) /\ woken' = FALSE

(***************************************************************************)
(* collect_utterance(): one frame before, or after, the onset of speech.   *)
(***************************************************************************)
MinOf(m, n) == IF m < n THEN m ELSE n

\* Fault: only a voiced frame clears the run of silent ones that are waited for.
Waited_SinceVoice(v) ==
    LET pre == MinOf(call.preroll + 1, PrerollFrames)
        began == v /\ call.onset + 1 >= OnsetFrames
    IN  [call EXCEPT !.preroll = pre, !.heard = @ + 1, !.started = began,
                     !.length = IF began THEN pre ELSE 0,
                     !.onset = IF v THEN @ + 1 ELSE 0,
                     !.waited = IF v THEN 0 ELSE @ + 1]

Waited(v) ==
    LET pre == MinOf(call.preroll + 1, PrerollFrames)
        began == v /\ call.onset + 1 >= OnsetFrames
    IN  [call EXCEPT !.preroll = pre, !.heard = @ + 1, !.started = began,
                     !.length = IF began THEN pre ELSE 0,
                     !.onset = IF v THEN @ + 1 ELSE 0,
                     !.waited = IF v THEN @ ELSE @ + 1]

Collected(v) ==
    [call EXCEPT !.length = @ + 1, !.silent = IF v THEN 0 ELSE @ + 1]

Complete(c) == c.silent >= TrailingSilence \/ c.length >= MaxUtterance

\* Fault: it stays awake for ever.
Inactive_StaysAwake == LoopHead(state) /\ UNCHANGED <<ending, woken>>

\* No speech in time: while ACTIVE, and unless it is always awake, it falls asleep.
Inactive ==
    \/ /\ state = "active" /\ gated
       /\ GoToSleep
       /\ UNCHANGED transcript
    \/ /\ ~(state = "active" /\ gated)
       /\ LoopHead(state)
       /\ UNCHANGED <<ending, woken>>

Listen(next) ==
    /\ pc' = next
    /\ UNCHANGED <<state, transcript, ending, reason, woken>>

Frame(v) ==
    /\ pc = "listening" /\ ~over
    /\ quiet' = ~v
    /\ \/ /\ ~call.started
          /\ v \/ Waited(v).waited < call.limit
          /\ call' = Waited(v)
          /\ Listen("listening")
       \/ /\ ~call.started
          /\ ~v /\ Waited(v).waited >= call.limit
          /\ Inactive
       \/ /\ call.started
          /\ call' = Collected(v)
          /\ Listen(IF Complete(Collected(v)) THEN "transcribing" ELSE "listening")
    /\ UNCHANGED <<inputs, over, late>>

\* What has been collected when the stream ends is still an utterance.
StreamEnds ==
    /\ pc = "listening"
    /\ over' = TRUE
    /\ \/ /\ call.started /\ call.length > 0
          /\ call' = call
          /\ Listen("transcribing")
       \/ /\ ~(call.started /\ call.length > 0)
          /\ Leave(IF reason = "" THEN "stream_ended" ELSE reason)
          /\ UNCHANGED <<ending, woken>>
    /\ UNCHANGED <<inputs, quiet, late>>

(***************************************************************************)
(* _handle_transcript() and _respond().                                    *)
(***************************************************************************)
Activated(t) == gated => t.wake # "none"

\* What follows the wake word; AlwaysAwake returns all that was said.
Command(t) == IF gated THEN IF t.wake = "before" THEN t.says ELSE "nothing"
              ELSE IF t.says = "nothing" THEN "request" ELSE t.says

Respond ==
    /\ pc' = "answering"
    /\ late' = IF stop THEN late + 1 ELSE late
    /\ UNCHANGED <<call, reason, ending>>

\* Fault: an utterance without wake word wakes it, too.
HandleAsleep_Chatter(t) ==
    /\ transcript' = t
    /\ woken' = (woken \/ t.wake # "none")
    /\ \/ Command(t) # "nothing" /\ Respond /\ state' = "active"
       \/ Command(t) = "nothing" /\ Say("active", FALSE) /\ UNCHANGED late

HandleAsleep(t) ==
    \/ /\ ~Activated(t)
       /\ LoopHead("asleep")
       /\ UNCHANGED <<ending, woken, late>>
    \/ /\ Activated(t)
       /\ woken' = TRUE
       /\ transcript' = t
       /\ \/ Command(t) # "nothing" /\ Respond /\ state' = "active"
          \/ Command(t) = "nothing" /\ Say("active", FALSE) /\ UNCHANGED late

\* An exit phrase is one only at the end of what is said; a bare wake word is a
\* request like any other.
HandleActive(t) ==
    LET exits  == t.says = "exit" /\ t.wake # "after"
        sleeps == t.says = "sleep"
    IN  /\ transcript' = t
        /\ \/ exits /\ Say("active", TRUE) /\ UNCHANGED <<woken, late>>
           \/ sleeps /\ GoToSleep /\ UNCHANGED late
           \/ ~exits /\ ~sleeps /\ Respond /\ UNCHANGED <<state, woken>>

\* An empty transcript, or a transcription that failed, is passed over.
Transcribed(t) ==
    /\ pc = "transcribing"
    /\ \/ t = Nothing /\ LoopHead(state) /\ UNCHANGED <<ending, woken, late>>
       \/ t # Nothing /\ state = "asleep" /\ HandleAsleep(t)
       \/ t # Nothing /\ state = "active" /\ HandleActive(t)
    /\ UNCHANGED <<inputs, over, quiet>>

\* The brain answers, or raises and is excused.
Answered ==
    /\ pc = "answering"
    /\ Say(state, FALSE)
    /\ UNCHANGED <<inputs, over, transcript, history>>

\* Playback is over, or has failed.
Spoken ==
    /\ pc = "speaking"
    /\ \/ ending /\ Leave("exit_phrase")
       \/ ~ending /\ LoopHead(state)
    /\ UNCHANGED <<inputs, over, ending, history>>

(***************************************************************************)
(* From outside: stop(), and the cancellation of run() wherever it waits.  *)
(***************************************************************************)
Stop ==
    /\ ~stop
    /\ pc # "returned"
    /\ stop' = TRUE
    /\ UNCHANGED <<gated, pc, state, over, call, transcript, ending, reason, history>>

Interrupt ==
    /\ pc \in {"listening", "transcribing", "answering", "speaking"}
    /\ Leave(IF reason = "" THEN "interrupted" ELSE reason)
    /\ UNCHANGED <<inputs, over, ending, history>>

\* run() has returned its statistics; stuttering here is not a deadlock.
Returned == pc = "returned" /\ UNCHANGED vars

Listening == StreamEnds \/ \E v \in BOOLEAN : Frame(v)

Serving == Run \/ Answered \/ Spoken \/ \E t \in Transcripts : Transcribed(t)

Next == Listening \/ Serving \/ Stop \/ Interrupt \/ Returned

Spec == Init /\ [][Next]_vars

\* The microphone goes on delivering frames, and transcription, the brain and
\* playback come to an end.  Nothing is assumed of what is said.
FairSpec == Spec /\ WF_vars(Listening) /\ WF_vars(Serving)

-----------------------------------------------------------------------------
(***************************************************************************)
(* However noise and silence alternate, the loop looks up from waiting for *)
(* speech within onset_frames times the time it was told to wait: only     *)
(* silent frames are counted, and a voiced one that is not followed by     *)
(* enough others is forgotten.                                             *)
(***************************************************************************)
WindowBounded ==
    pc = "listening" /\ ~call.started => call.heard < call.limit * OnsetFrames

(***************************************************************************)
(* An utterance is no longer than max_utterance, in a room that is never   *)
(* silent, unless its pre-roll alone is.                                   *)
(***************************************************************************)
UtteranceBounded ==
    call.length <= MaxUtterance \/ call.length <= PrerollFrames + 1

(***************************************************************************)
(* With a wake word, only what is said after it, and before the loop falls *)
(* asleep again, is answered.                                              *)
(***************************************************************************)
AnswersWhenAwake == pc = "answering" /\ gated => woken

(***************************************************************************)
(* After stop(), the utterance in hand may still be answered, and no other.*)
(***************************************************************************)
OneAnswerAfterStop == late <= 1

(***************************************************************************)
(* Once it has begun to say the farewell, the loop never listens again.    *)
(***************************************************************************)
FarewellEnds == [][ending => pc' \in {"speaking", "returned"}]_vars

(***************************************************************************)
(* While ACTIVE, silence sends it to sleep only after inactivity_timeout,  *)
(* not after the shorter wait that is in force while it is asleep.         *)
(***************************************************************************)
SleepsOnlyAfterInactivity ==
    [][pc = "listening" /\ state = "active" /\ state' = "asleep"
          => call.waited + 1 >= InactivityWait]_vars

(***************************************************************************)
(* After stop(), run() returns, whatever the microphone hears.             *)
(***************************************************************************)
StopReturns == stop ~> pc = "returned"

(***************************************************************************)
(* When the room has become quiet for good, it is not awake for ever.      *)
(***************************************************************************)
SleepsWhenQuiet == gated /\ <>[]quiet => <>[](state # "active")

(***************************************************************************)
(* An exit phrase is not handed to the brain as a request                  *)
(* (tests/test_voice_continuous.py: "goodbye is not sent to brain").       *)
(***************************************************************************)
GoodbyeEnds == pc = "answering" => transcript.says # "exit"
=============================================================================
