--------------------------- MODULE VoiceLoopProofs ---------------------------
(***************************************************************************)
(* What VoiceLoop keeps for any waits, limits and wake modes.              *)
(***************************************************************************)
EXTENDS VoiceLoop, TLAPS

-----------------------------------------------------------------------------
(***************************************************************************)
(* The inductive invariant.                                                *)
(***************************************************************************)
\* The endpointer before the onset: each silent frame that counts as waiting was
\* preceded by too few voiced ones to begin an utterance.
Window ==
    ~call.started =>
        /\ call.waited < call.limit
        /\ call.onset < OnsetFrames
        /\ call.heard <= call.waited * OnsetFrames + call.onset

\* The endpointer after the onset: another frame fits.
Growing ==
    pc = "listening" /\ call.started =>
        call.length < MaxUtterance \/ call.length <= PrerollFrames

\* While it listens awake, the inactivity timeout is in force.
Limit == pc = "listening" /\ state = "active" /\ gated => call.limit = InactivityWait

\* It is awake, with a wake word, when it answers.
Awake ==
    /\ gated /\ state = "active" => woken
    /\ pc = "answering" => state = "active"

Running == state = "stopped" <=> pc = "returned"

\* The farewell is the last thing said.
Last == ending => pc \in {"speaking", "returned"}

\* No answer was begun after stop() if one may still be.
Late ==
    /\ ~stop \/ pc \in {"start", "listening", "transcribing"} => late = 0
    /\ late <= 1

Inv ==
    /\ TypeOK /\ Window /\ Growing /\ UtteranceBounded /\ Limit
    /\ Awake /\ Running /\ Last /\ Late

-----------------------------------------------------------------------------
LEMMA Distribute ==
    ASSUME NEW w \in Nat, NEW m \in Nat
    PROVE  w * m \in Nat /\ (w + 1) * m = w * m + m
OBVIOUS

LEMMA Monotone ==
    ASSUME NEW w \in Nat, NEW l \in Nat, NEW m \in Nat, w < l
    PROVE  w * m + m <= l * m
<1> DEFINE k == l - (w + 1)
<1>1. k \in Nat /\ l = k + (w + 1)
  OBVIOUS
<1>2. l * m = k * m + (w * m + m) /\ k * m \in Nat /\ w * m \in Nat
  BY <1>1
<1> QED BY <1>2

LEMMA NewCallFacts ==
    ASSUME NEW l \in {InitialWait, InactivityWait}
    PROVE  /\ NewCall(l) \in Calls
           /\ ~NewCall(l).started /\ NewCall(l).length = 0 /\ NewCall(l).limit = l
           /\ NewCall(l).onset = 0 /\ NewCall(l).waited = 0 /\ NewCall(l).heard = 0
<1>1. 0 \in 0..PrerollFrames
  BY VoiceAssumption
<1> QED BY <1>1 DEF NewCall, Calls

LEMMA InitInv == Init => Inv
<1> SUFFICES ASSUME Init PROVE Inv
  OBVIOUS
<1>1. call = NewCall(InitialWait) /\ gated \in BOOLEAN
  BY VoiceAssumption DEF Init
<1>2. 0 * OnsetFrames = 0
  BY VoiceAssumption
<1>3. TypeOK
  BY <1>1, NewCallFacts DEF Init, TypeOK, Nothing, Transcripts
<1>4. /\ ~call.started /\ call.length = 0 /\ call.limit = InitialWait
      /\ call.onset = 0 /\ call.waited = 0 /\ call.heard = 0
  BY <1>1, NewCallFacts
<1>5. Window
  BY <1>4, <1>2, VoiceAssumption DEF Window
<1>6. Growing /\ UtteranceBounded
  BY <1>4, VoiceAssumption DEF Growing, UtteranceBounded
<1>7. Limit /\ Last
  BY DEF Init, Limit, Last
<1>8. late = 0 /\ state # "stopped" /\ pc = "start"
  BY DEF Init
<1>9. Awake
  BY DEF Init, Awake
<1>10. Late /\ Running
  BY <1>8 DEF Late, Running
<1> QED BY <1>3, <1>5, <1>6, <1>7, <1>9, <1>10 DEF Inv

-----------------------------------------------------------------------------
\* What the head of the loop leaves, whichever way it goes.
LEMMA LoopHeadStep ==
    ASSUME Inv, NEW s \in {"asleep", "active"}, LoopHead(s)
    PROVE  /\ call' \in Calls /\ transcript' = Nothing /\ reason' = reason
           /\ \/ pc' = "returned" /\ state' = "stopped" /\ call' = call /\ stop
              \/ /\ pc' = "listening" /\ state' = s /\ ~stop
                 /\ Window' /\ Growing' /\ UtteranceBounded'
                 /\ s = "active" /\ gated => call'.limit = InactivityWait
<1>1. CASE stop /\ Leave(reason)
  BY <1>1 DEF Leave, Inv, TypeOK
<1>2. CASE /\ ~stop
           /\ pc' = "listening" /\ state' = s
           /\ call' = EndpointForState(s)
           /\ transcript' = Nothing /\ reason' = reason
  <2>1. PICK l \in {InitialWait, InactivityWait} : call' = NewCall(l)
                 /\ (s = "active" /\ gated => l = InactivityWait)
    BY <1>2 DEF EndpointForState
  <2>2. /\ call' \in Calls /\ ~call'.started /\ call'.length = 0 /\ call'.limit = l
        /\ call'.onset = 0 /\ call'.waited = 0 /\ call'.heard = 0
    BY <2>1, NewCallFacts
  <2>3. 0 * OnsetFrames = 0 /\ l \in Nat \ {0} /\ OnsetFrames \in Nat \ {0}
    BY VoiceAssumption
  <2>4. Window'
    BY <2>2, <2>3 DEF Window
  <2>5. Growing' /\ UtteranceBounded'
    BY <2>2, VoiceAssumption DEF Growing, UtteranceBounded
  <2> QED BY <1>2, <2>1, <2>2, <2>4, <2>5
<1> QED BY <1>1, <1>2 DEF LoopHead

\* Outside collect_utterance() its locals stay as they are.
LEMMA CallKept ==
    ASSUME Inv, call' = call, pc' # "listening" \/ pc' = pc
    PROVE  call' \in Calls /\ Window' /\ Growing' /\ UtteranceBounded'
BY DEF Inv, TypeOK, Window, Growing, UtteranceBounded

-----------------------------------------------------------------------------
(***************************************************************************)
(* The four ways on: listen again, return, speak, answer.                  *)
(***************************************************************************)
LEMMA LoopHeadKeeps ==
    ASSUME Inv, NEW s \in {"asleep", "active"}, LoopHead(s),
           UNCHANGED <<inputs, ending, late>>, ~ending,
           over' \in BOOLEAN, woken' \in BOOLEAN, quiet' \in BOOLEAN,
           s = "active" /\ gated => woken'
    PROVE  Inv'
<1>1. /\ call' \in Calls /\ transcript' = Nothing /\ reason' = reason
      /\ gated' = gated /\ stop' = stop /\ ending' = ending /\ late' = late
  BY LoopHeadStep DEF inputs
<1>2. Nothing \in Transcripts
  BY DEF Nothing, Transcripts
<1>3. CASE pc' = "returned" /\ state' = "stopped" /\ call' = call /\ stop
  <2>1. TypeOK'
    BY <1>1, <1>2, <1>3 DEF Inv, TypeOK
  <2>2. Window' /\ Growing' /\ UtteranceBounded'
    BY <1>3, CallKept
  <2> QED BY <1>1, <1>3, <2>1, <2>2 DEF Inv, Limit, Awake, Running, Last, Late
<1>4. CASE /\ pc' = "listening" /\ state' = s /\ ~stop
           /\ Window' /\ Growing' /\ UtteranceBounded'
           /\ s = "active" /\ gated => call'.limit = InactivityWait
  <2>1. TypeOK'
    BY <1>1, <1>2, <1>4 DEF Inv, TypeOK
  <2>2. Limit' /\ Awake' /\ Running' /\ Last'
    BY <1>1, <1>4 DEF Limit, Awake, Running, Last
  <2>3. Late'
    BY <1>1, <1>4 DEF Inv, Late
  <2> QED BY <1>4, <2>1, <2>2, <2>3 DEF Inv
<1> QED BY <1>3, <1>4, LoopHeadStep

LEMMA LeaveKeeps ==
    ASSUME Inv, NEW r \in {"", "stream_ended", "exit_phrase", "interrupted"}, Leave(r),
           UNCHANGED <<inputs, ending, woken, late>>, over' \in BOOLEAN, quiet' \in BOOLEAN
    PROVE  Inv'
<1>1. Nothing \in Transcripts
  BY DEF Nothing, Transcripts
<1>2. TypeOK'
  BY <1>1 DEF Inv, TypeOK, Leave, inputs
<1>3. Window' /\ Growing' /\ UtteranceBounded'
  BY CallKept DEF Leave
<1> QED BY <1>2, <1>3 DEF Inv, Limit, Awake, Running, Last, Late, Leave, inputs

LEMMA SayKeeps ==
    ASSUME Inv, NEW s \in {"asleep", "active"}, NEW e \in BOOLEAN, Say(s, e),
           UNCHANGED <<inputs, late>>, over' \in BOOLEAN, quiet' \in BOOLEAN,
           transcript' \in Transcripts, woken' \in BOOLEAN,
           s = "active" /\ gated => woken'
    PROVE  Inv'
<1>1. TypeOK'
  BY DEF Inv, TypeOK, Say, inputs
<1>2. Window' /\ Growing' /\ UtteranceBounded'
  BY CallKept DEF Say
<1>3. Limit' /\ Awake' /\ Running' /\ Last'
  BY DEF Limit, Awake, Running, Last, Say, inputs
<1>4. Late'
  BY DEF Inv, Late, Say, inputs
<1> QED BY <1>1, <1>2, <1>3, <1>4 DEF Inv

LEMMA RespondKeeps ==
    ASSUME Inv, pc = "transcribing", Respond, state' = "active",
           UNCHANGED <<inputs, over, quiet>>,
           transcript' \in Transcripts, woken' \in BOOLEAN, gated => woken'
    PROVE  Inv'
<1>1. late = 0 /\ late' \in {0, 1} /\ (~stop => late' = 0)
  BY DEF Inv, Late, Respond
<1>2. ~ending
  BY DEF Inv, Last
<1>3. TypeOK'
  <2>1. pc' = "answering" /\ UNCHANGED <<call, reason, ending>>
    BY DEF Respond
  <2>2. late' \in Nat
    BY <1>1
  <2>3. gated' = gated /\ stop' = stop /\ over' = over /\ quiet' = quiet
    BY DEF inputs
  <2> QED BY <2>1, <2>2, <2>3 DEF Inv, TypeOK
<1>4. Window' /\ Growing' /\ UtteranceBounded'
  BY CallKept DEF Respond
<1>5. Limit' /\ Awake' /\ Running' /\ Last'
  BY <1>2 DEF Inv, Limit, Awake, Running, Last, Respond, inputs
<1>6. Late'
  BY <1>1 DEF Late, Respond, inputs
<1> QED BY <1>3, <1>4, <1>5, <1>6 DEF Inv
-----------------------------------------------------------------------------
(***************************************************************************)
(* Each action preserves the invariant.                                    *)
(***************************************************************************)
LEMMA RunKeeps ==
    ASSUME Inv, Run PROVE Inv'
<1>1. state \in {"asleep", "active"} /\ ~ending
  BY DEF Inv, TypeOK, Running, Last, Run
<1>2. LoopHead(state) /\ UNCHANGED <<inputs, over, ending, history>>
  BY DEF Run
<1>3. over' \in BOOLEAN /\ woken' \in BOOLEAN /\ quiet' \in BOOLEAN
      /\ (state = "active" /\ gated => woken')
  BY <1>2 DEF Inv, TypeOK, Awake, history
<1>4. UNCHANGED <<inputs, ending, late>>
  BY <1>2 DEF history
<1> QED BY <1>1, <1>2, <1>3, <1>4, LoopHeadKeeps

LEMMA WaitedKeeps ==
    ASSUME Inv, pc = "listening", ~call.started, NEW v \in BOOLEAN,
           v \/ Waited(v).waited < call.limit,
           call' = Waited(v), Listen("listening"),
           UNCHANGED <<inputs, over, late>>, quiet' = ~v
    PROVE  Inv'
<1> DEFINE pre == MinOf(call.preroll + 1, PrerollFrames)
           began == v /\ call.onset + 1 >= OnsetFrames
<1>1. /\ call.limit \in {InitialWait, InactivityWait} /\ call.onset \in Nat
      /\ call.waited \in Nat /\ call.preroll \in 0..PrerollFrames
      /\ call.silent \in Nat /\ call.heard \in Nat /\ call.length \in Nat
      /\ call.limit \in Nat /\ OnsetFrames \in Nat \ {0} /\ PrerollFrames \in Nat
  BY VoiceAssumption DEF Inv, TypeOK, Calls
<1>2. pre \in 0..PrerollFrames
  BY <1>1 DEF MinOf
<1>3. Waited(v) =
        [call EXCEPT !.preroll = pre, !.heard = @ + 1, !.started = began,
                     !.length = IF began THEN pre ELSE 0,
                     !.onset = IF v THEN @ + 1 ELSE 0,
                     !.waited = IF v THEN @ ELSE @ + 1]
  BY DEF Waited
<1> HIDE DEF pre
<1>4. /\ call'.limit = call.limit /\ call'.preroll = pre /\ call'.silent = call.silent
      /\ call'.heard = call.heard + 1 /\ call'.started = began
      /\ call'.length = (IF began THEN pre ELSE 0)
      /\ call'.onset = (IF v THEN call.onset + 1 ELSE 0)
      /\ call'.waited = (IF v THEN call.waited ELSE call.waited + 1)
  BY <1>3 DEF Inv, TypeOK, Calls
<1>5. call' \in Calls
  <2>1. call' = [limit |-> call.limit, started |-> began,
                 onset |-> IF v THEN call.onset + 1 ELSE 0,
                 waited |-> IF v THEN call.waited ELSE call.waited + 1,
                 preroll |-> pre, length |-> IF began THEN pre ELSE 0,
                 silent |-> call.silent, heard |-> call.heard + 1]
    BY <1>3 DEF Inv, TypeOK, Calls
  <2>2. /\ (IF v THEN call.onset + 1 ELSE 0) \in Nat
        /\ (IF v THEN call.waited ELSE call.waited + 1) \in Nat
        /\ (IF began THEN pre ELSE 0) \in Nat /\ began \in BOOLEAN
    BY <1>1, <1>2
  <2> QED BY <1>1, <1>2, <2>1, <2>2 DEF Calls
<1>6. TypeOK'
  BY <1>5 DEF Inv, TypeOK, Listen, inputs
<1>7. Window'
  <2> SUFFICES ASSUME ~began
               PROVE  /\ call'.waited < call'.limit
                      /\ call'.onset < OnsetFrames
                      /\ call'.heard <= call'.waited * OnsetFrames + call'.onset
    BY <1>4 DEF Window
  <2> DEFINE product == call.waited * OnsetFrames
  <2>1. /\ call.waited < call.limit /\ call.onset < OnsetFrames
        /\ call.heard <= product + call.onset
    BY DEF Inv, Window
  <2>2. product \in Nat /\ (call.waited + 1) * OnsetFrames = product + OnsetFrames
    BY <1>1, Distribute
  <2> HIDE DEF product
  <2>3. CASE v
    <3>1. call.onset + 1 < OnsetFrames
      BY <2>3, <1>1
    <3>2. /\ call'.waited = call.waited /\ call'.onset = call.onset + 1
          /\ call'.heard = call.heard + 1
      BY <2>3, <1>4
    <3>3. call.heard + 1 <= product + (call.onset + 1)
      BY <2>1, <2>2, <1>1
    <3> QED BY <3>1, <3>2, <3>3, <2>1, <1>4 DEF product
  <2>4. CASE ~v
    <3>1. /\ call'.waited = call.waited + 1 /\ call'.onset = 0
          /\ call'.heard = call.heard + 1
      BY <2>4, <1>4
    <3>2. call.waited + 1 < call.limit
      BY <2>4, <1>4, <3>1
    <3>3. call.heard + 1 <= (product + OnsetFrames) + 0
      BY <2>1, <2>2, <1>1
    <3> QED BY <3>1, <3>2, <3>3, <2>2, <1>1, <1>4
  <2> QED BY <2>3, <2>4
<1>8. Growing' /\ UtteranceBounded'
  BY <1>1, <1>2, <1>4, VoiceAssumption DEF Growing, UtteranceBounded
<1>9. Limit'
  BY <1>4 DEF Inv, Limit, Listen, inputs
<1>10. Awake' /\ Running' /\ Last' /\ Late'
  BY DEF Inv, Awake, Running, Last, Late, Listen, inputs
<1> QED BY <1>6, <1>7, <1>8, <1>9, <1>10 DEF Inv

LEMMA CollectedKeeps ==
    ASSUME Inv, pc = "listening", call.started, NEW v \in BOOLEAN,
           call' = Collected(v), UNCHANGED <<inputs, over, late>>, quiet' = ~v,
           Listen(IF Complete(Collected(v)) THEN "transcribing" ELSE "listening")
    PROVE  Inv'
<1>1. /\ call.length \in Nat /\ call.silent \in Nat
      /\ MaxUtterance \in Nat /\ PrerollFrames \in Nat
  BY VoiceAssumption DEF Inv, TypeOK, Calls
<1>2. /\ call'.limit = call.limit /\ call'.started = call.started
      /\ call'.length = call.length + 1
  BY DEF Inv, TypeOK, Calls, Collected
<1>3. call' \in Calls
  <2>1. (IF v THEN 0 ELSE call.silent + 1) \in Nat
    BY <1>1
  <2>2. call' = [limit |-> call.limit, started |-> call.started, onset |-> call.onset,
                 waited |-> call.waited, preroll |-> call.preroll,
                 length |-> call.length + 1,
                 silent |-> IF v THEN 0 ELSE call.silent + 1, heard |-> call.heard]
    BY DEF Collected, Inv, TypeOK, Calls
  <2>3. /\ call.limit \in {InitialWait, InactivityWait} /\ call.started \in BOOLEAN
        /\ call.onset \in Nat /\ call.waited \in Nat
        /\ call.preroll \in 0..PrerollFrames /\ call.heard \in Nat
    BY DEF Inv, TypeOK, Calls
  <2> QED BY <1>1, <2>1, <2>2, <2>3 DEF Calls
<1>4. pc' \in {"transcribing", "listening"} /\ UNCHANGED <<state, transcript, ending, reason, woken>>
  BY DEF Listen
<1>5. pc' = "listening" => call'.length < MaxUtterance
  BY <1>1, <1>2, <1>3 DEF Listen, Complete, Calls
<1>6. TypeOK'
  BY <1>3, <1>4 DEF Inv, TypeOK, inputs
<1>7. Window'
  BY <1>2 DEF Window
<1>8. Growing' /\ UtteranceBounded'
  BY <1>1, <1>2, <1>5 DEF Inv, Growing, UtteranceBounded
<1>9. Limit'
  BY <1>2, <1>4 DEF Inv, Limit, inputs
<1>10. Awake' /\ Running' /\ Last' /\ Late'
  BY <1>4 DEF Inv, Awake, Running, Last, Late, inputs
<1> QED BY <1>6, <1>7, <1>8, <1>9, <1>10 DEF Inv
LEMMA InactiveKeeps ==
    ASSUME Inv, pc = "listening", Inactive,
           UNCHANGED <<inputs, over, late>>, quiet' \in BOOLEAN
    PROVE  Inv'
<1>1. state \in {"asleep", "active"} /\ ~ending
  BY DEF Inv, TypeOK, Running, Last
<1>2. CASE state = "active" /\ gated /\ GoToSleep /\ UNCHANGED transcript
  <2>1. /\ Say("asleep", FALSE) /\ woken' = FALSE
        /\ transcript' \in Transcripts /\ over' \in BOOLEAN
    BY <1>2 DEF GoToSleep, Inv, TypeOK
  <2> QED BY <2>1, SayKeeps
<1>3. CASE ~(state = "active" /\ gated) /\ LoopHead(state) /\ UNCHANGED <<ending, woken>>
  <2>1. over' \in BOOLEAN /\ woken' \in BOOLEAN /\ UNCHANGED <<inputs, ending, late>>
    BY <1>3 DEF Inv, TypeOK
  <2> QED BY <1>1, <1>3, <2>1, LoopHeadKeeps
<1> QED BY <1>2, <1>3 DEF Inactive

LEMMA FrameKeeps ==
    ASSUME Inv, NEW v \in BOOLEAN, Frame(v) PROVE Inv'
<1>1. pc = "listening" /\ quiet' = ~v /\ quiet' \in BOOLEAN
      /\ UNCHANGED <<inputs, over, late>>
  BY DEF Frame
<1>2. CASE /\ ~call.started /\ (v \/ Waited(v).waited < call.limit)
           /\ call' = Waited(v) /\ Listen("listening")
  BY <1>1, <1>2, WaitedKeeps
<1>3. CASE Inactive
  BY <1>1, <1>3, InactiveKeeps
<1>4. CASE /\ call.started /\ call' = Collected(v)
           /\ Listen(IF Complete(Collected(v)) THEN "transcribing" ELSE "listening")
  BY <1>1, <1>4, CollectedKeeps
<1> QED BY <1>2, <1>3, <1>4 DEF Frame

LEMMA StreamEndsKeeps ==
    ASSUME Inv, StreamEnds PROVE Inv'
<1>1. /\ pc = "listening" /\ over' = TRUE
      /\ UNCHANGED <<inputs, quiet, late>> /\ quiet' \in BOOLEAN
  BY DEF StreamEnds, Inv, TypeOK
<1>2. CASE call' = call /\ Listen("transcribing")
  <2>1. TypeOK'
    BY <1>1, <1>2 DEF Inv, TypeOK, Listen, inputs
  <2>2. Window' /\ Growing' /\ UtteranceBounded'
    BY <1>2, CallKept DEF Listen
  <2> QED BY <1>1, <1>2, <2>1, <2>2
          DEF Inv, Limit, Awake, Running, Last, Late, Listen, inputs
<1>3. CASE /\ Leave(IF reason = "" THEN "stream_ended" ELSE reason)
           /\ UNCHANGED <<ending, woken>>
  <2>1. (IF reason = "" THEN "stream_ended" ELSE reason)
           \in {"", "stream_ended", "exit_phrase", "interrupted"}
    BY DEF Inv, TypeOK
  <2> QED BY <1>1, <1>3, <2>1, LeaveKeeps
<1> QED BY <1>2, <1>3 DEF StreamEnds

LEMMA TranscribedKeeps ==
    ASSUME Inv, NEW t \in Transcripts, Transcribed(t) PROVE Inv'
<1>1. /\ pc = "transcribing" /\ UNCHANGED <<inputs, over, quiet>> /\ ~ending
      /\ over' \in BOOLEAN /\ quiet' \in BOOLEAN
  BY DEF Transcribed, Inv, TypeOK, Last
<1>2. state \in {"asleep", "active"} /\ woken \in BOOLEAN /\ gated \in BOOLEAN
      /\ (state = "active" /\ gated => woken)
  BY <1>1, VoiceAssumption DEF Inv, TypeOK, Running, Awake
<1>3. CASE LoopHead(state) /\ UNCHANGED <<ending, woken, late>>
  BY <1>1, <1>2, <1>3, LoopHeadKeeps
<1>4. CASE state = "asleep" /\ LoopHead("asleep") /\ UNCHANGED <<ending, woken, late>>
  BY <1>1, <1>2, <1>4, LoopHeadKeeps
<1>5. CASE transcript' = t /\ woken' = TRUE /\ Respond /\ state' = "active"
  BY <1>1, <1>5, RespondKeeps
<1>6. CASE transcript' = t /\ woken' = TRUE /\ Say("active", FALSE) /\ UNCHANGED late
  BY <1>1, <1>6, SayKeeps
<1>7. CASE /\ state = "active" /\ transcript' = t /\ Say("active", TRUE)
           /\ UNCHANGED <<woken, late>>
  BY <1>1, <1>2, <1>7, SayKeeps
<1>8. CASE transcript' = t /\ GoToSleep /\ UNCHANGED late
  <2>1. Say("asleep", FALSE) /\ woken' \in BOOLEAN
    BY <1>8 DEF GoToSleep
  <2> QED BY <1>1, <1>8, <2>1, SayKeeps
<1>9. CASE state = "active" /\ transcript' = t /\ Respond /\ UNCHANGED <<state, woken>>
  BY <1>1, <1>2, <1>9, RespondKeeps
<1> QED BY <1>3, <1>4, <1>5, <1>6, <1>7, <1>8, <1>9
        DEF Transcribed, HandleAsleep, HandleActive

LEMMA AnsweredKeeps ==
    ASSUME Inv, Answered PROVE Inv'
<1>1. /\ pc = "answering" /\ Say(state, FALSE) /\ UNCHANGED <<inputs, late>>
      /\ over' \in BOOLEAN /\ quiet' \in BOOLEAN /\ woken' \in BOOLEAN
      /\ transcript' \in Transcripts
  BY DEF Answered, history, Inv, TypeOK
<1>2. state \in {"asleep", "active"} /\ (state = "active" /\ gated => woken')
  BY <1>1 DEF Answered, history, Inv, TypeOK, Awake, Running
<1> QED BY <1>1, <1>2, SayKeeps

LEMMA SpokenKeeps ==
    ASSUME Inv, Spoken PROVE Inv'
<1>1. /\ pc = "speaking" /\ UNCHANGED <<inputs, over, ending, woken, quiet, late>>
      /\ over' \in BOOLEAN /\ quiet' \in BOOLEAN /\ woken' \in BOOLEAN
  BY DEF Spoken, history, Inv, TypeOK
<1>2. state \in {"asleep", "active"} /\ (state = "active" /\ gated => woken')
  BY <1>1 DEF Inv, TypeOK, Awake, Running
<1>3. CASE Leave("exit_phrase")
  BY <1>1, <1>3, LeaveKeeps
<1>4. CASE ~ending /\ LoopHead(state)
  BY <1>1, <1>2, <1>4, LoopHeadKeeps
<1> QED BY <1>3, <1>4 DEF Spoken

LEMMA StopKeeps ==
    ASSUME Inv, Stop PROVE Inv'
<1>1. /\ stop' = TRUE /\ ~stop
      /\ UNCHANGED <<gated, pc, state, over, call, transcript, ending, reason, woken, quiet, late>>
  BY DEF Stop, history
<1>2. Window' /\ Growing' /\ UtteranceBounded'
  BY <1>1, CallKept
<1>3. TypeOK'
  BY <1>1 DEF Inv, TypeOK
<1>4. Late'
  BY <1>1 DEF Inv, Late
<1> QED BY <1>1, <1>2, <1>3, <1>4 DEF Inv, Limit, Awake, Running, Last

LEMMA InterruptKeeps ==
    ASSUME Inv, Interrupt PROVE Inv'
<1>1. (IF reason = "" THEN "interrupted" ELSE reason)
         \in {"", "stream_ended", "exit_phrase", "interrupted"}
  BY DEF Inv, TypeOK
<1>2. /\ Leave(IF reason = "" THEN "interrupted" ELSE reason)
      /\ UNCHANGED <<inputs, over, ending, woken, quiet, late>>
      /\ over' \in BOOLEAN /\ quiet' \in BOOLEAN
  BY DEF Interrupt, history, Inv, TypeOK
<1> QED BY <1>1, <1>2, LeaveKeeps

LEMMA StutterKeeps ==
    ASSUME Inv, UNCHANGED vars PROVE Inv'
<1>1. UNCHANGED <<gated, stop, pc, state, over, call, transcript, ending, reason,
                  woken, quiet, late>>
  BY DEF vars, inputs, history
<1>2. Window' /\ Growing' /\ UtteranceBounded'
  BY <1>1, CallKept
<1>3. TypeOK'
  BY <1>1 DEF Inv, TypeOK
<1> QED BY <1>1, <1>2, <1>3 DEF Inv, Limit, Awake, Running, Last, Late

LEMMA InvInductive == Inv /\ [Next]_vars => Inv'
<1> SUFFICES ASSUME Inv, [Next]_vars PROVE Inv'
  OBVIOUS
<1>1. CASE StreamEnds
  BY <1>1, StreamEndsKeeps
<1>2. ASSUME NEW v \in BOOLEAN, Frame(v) PROVE Inv'
  BY <1>2, FrameKeeps
<1>3. CASE Run
  BY <1>3, RunKeeps
<1>4. CASE Answered
  BY <1>4, AnsweredKeeps
<1>5. CASE Spoken
  BY <1>5, SpokenKeeps
<1>6. ASSUME NEW t \in Transcripts, Transcribed(t) PROVE Inv'
  BY <1>6, TranscribedKeeps
<1>7. CASE Stop
  BY <1>7, StopKeeps
<1>8. CASE Interrupt
  BY <1>8, InterruptKeeps
<1>9. CASE UNCHANGED vars
  BY <1>9, StutterKeeps
<1> QED BY <1>1, <1>2, <1>3, <1>4, <1>5, <1>6, <1>7, <1>8, <1>9
        DEF Next, Listening, Serving, Returned

LEMMA Invariance == Spec => []Inv
BY InitInv, InvInductive, PTL DEF Spec

-----------------------------------------------------------------------------
(***************************************************************************)
(* Every variable keeps its type: in particular the pre-roll never exceeds *)
(* preroll_frames.                                                         *)
(***************************************************************************)
THEOREM TypeCorrect == Spec => []TypeOK
<1>1. Inv => TypeOK
  BY DEF Inv
<1> QED BY <1>1, Invariance, PTL

(***************************************************************************)
(* Before the onset, the frames heard in one wait are fewer than           *)
(* onset_frames times the wait, whatever the microphone hears.             *)
(***************************************************************************)
THEOREM WaitBounded == Spec => []WindowBounded
<1>1. Inv => WindowBounded
  <2> SUFFICES ASSUME Inv, ~call.started
               PROVE  call.heard < call.limit * OnsetFrames
    BY DEF WindowBounded
  <2> DEFINE product == call.waited * OnsetFrames
             most == call.limit * OnsetFrames
  <2>1. /\ call.waited \in Nat /\ call.limit \in Nat /\ call.onset \in Nat
        /\ call.heard \in Nat /\ OnsetFrames \in Nat
    BY VoiceAssumption DEF Inv, TypeOK, Calls
  <2>2. /\ call.waited < call.limit /\ call.onset < OnsetFrames
        /\ call.heard <= product + call.onset
    BY DEF Inv, Window
  <2>3. product + OnsetFrames <= most
    BY <2>1, <2>2, Monotone
  <2>4. product \in Nat /\ most \in Nat
    BY <2>1, Distribute
  <2> HIDE DEF product, most
  <2>5. call.heard < most
    BY <2>1, <2>2, <2>3, <2>4
  <2> QED BY <2>5 DEF most
<1> QED BY <1>1, Invariance, PTL

(***************************************************************************)
(* An utterance never outgrows max_utterance, or its pre-roll.             *)
(***************************************************************************)
THEOREM UtteranceNeverTooLong == Spec => []UtteranceBounded
<1>1. Inv => UtteranceBounded
  BY DEF Inv
<1> QED BY <1>1, Invariance, PTL

(***************************************************************************)
(* The brain hears nothing that was not preceded by the wake word, and     *)
(* nothing after the loop fell asleep.                                     *)
(***************************************************************************)
THEOREM OnlyAwakeIsAnswered == Spec => []AnswersWhenAwake
<1>1. Inv => AnswersWhenAwake
  BY DEF Inv, Awake, AnswersWhenAwake
<1> QED BY <1>1, Invariance, PTL

(***************************************************************************)
(* At most one answer is begun after stop().                               *)
(***************************************************************************)
THEOREM StopIsHeeded == Spec => []OneAnswerAfterStop
<1>1. Inv => OneAnswerAfterStop
  BY DEF Inv, Late, OneAnswerAfterStop
<1> QED BY <1>1, Invariance, PTL

(***************************************************************************)
(* Once the farewell is on its way, no step leads back to listening.       *)
(***************************************************************************)
THEOREM FarewellIsLast == Spec => FarewellEnds
<1>1. Inv /\ [Next]_vars => [ending => pc' \in {"speaking", "returned"}]_vars
  <2> SUFFICES ASSUME Inv, Next, ending PROVE pc' \in {"speaking", "returned"}
    OBVIOUS
  <2>1. pc \in {"speaking", "returned"}
    BY DEF Inv, Last
  <2>2. CASE pc = "speaking"
    BY <2>2 DEF Next, Listening, Serving, Returned, Run, Answered, Spoken, Transcribed,
                StreamEnds, Frame, Stop, Interrupt, Leave
  <2>3. CASE pc = "returned"
    BY <2>3 DEF Next, Listening, Serving, Returned, Run, Answered, Spoken, Transcribed,
                StreamEnds, Frame, Stop, Interrupt, vars
  <2> QED BY <2>1, <2>2, <2>3
<1> QED BY <1>1, Invariance, PTL DEF Spec, FarewellEnds

(***************************************************************************)
(* It falls asleep for want of speech only after inactivity_timeout.       *)
(***************************************************************************)
THEOREM SleepIsPatient == Spec => SleepsOnlyAfterInactivity
<1>1. Inv /\ [Next]_vars =>
        [pc = "listening" /\ state = "active" /\ state' = "asleep"
            => call.waited + 1 >= InactivityWait]_vars
  <2> SUFFICES ASSUME Inv, Next, pc = "listening", state = "active", state' = "asleep"
               PROVE  call.waited + 1 >= InactivityWait
    OBVIOUS
  <2>1. ASSUME NEW v \in BOOLEAN, Frame(v) PROVE call.waited + 1 >= InactivityWait
    <3>1. CASE Listen("listening") \/ Listen("transcribing")
      BY <3>1 DEF Listen
    <3>2. CASE ~v /\ Waited(v).waited >= call.limit /\ Inactive
      <4>1. CASE gated
        <5>1. call.limit = InactivityWait
          BY <4>1 DEF Inv, Limit
        <5>2. Waited(v).waited = call.waited + 1
          BY <3>2 DEF Waited, Inv, TypeOK, Calls
        <5> QED BY <3>2, <5>1, <5>2
      <4>2. CASE ~gated
        BY <3>2, <4>2 DEF Inactive, LoopHead, Leave
      <4> QED BY <4>1, <4>2
    <3> QED BY <2>1, <3>1, <3>2 DEF Frame
  <2>2. CASE StreamEnds
    BY <2>2 DEF StreamEnds, Listen, Leave
  <2>3. CASE Stop \/ Interrupt \/ Returned
    BY <2>3 DEF Stop, Interrupt, Returned, Leave, vars
  <2>4. ~Serving
    BY DEF Serving, Run, Answered, Spoken, Transcribed
  <2> QED BY <2>1, <2>2, <2>3, <2>4 DEF Next, Listening
<1> QED BY <1>1, Invariance, PTL DEF Spec, SleepsOnlyAfterInactivity
=============================================================================
