----------------------------- MODULE AudioAlign -----------------------------
(***************************************************************************)
(* The decoding times of the audio frames of an HLS segment.  RTMP gives   *)
(* them in milliseconds; calcPtsDts scales them to the 90 kHz clock and    *)
(* align.align replaces a time by the one the sample rate predicts, while  *)
(* the two are at most syncms milliseconds apart.                          *)
(***************************************************************************)
EXTENDS Integers

CONSTANTS Sync,    \* syncms * h264_default_hz, 180 ticks in the code
          Incs,    \* ticks per frame, videoHZ*aacSampleLen/sampleRate
          MaxDts   \* bound on the times

ASSUME AlignAssumption ==
    /\ Sync \in Nat
    /\ Incs \subseteq Nat \ {0}
    /\ MaxDts \in Nat

VARIABLES
    frameNum, frameBase,  \* the fields of align
    inc,                  \* ticks per frame at the sample rate of the parser
    started,              \* history: a frame was aligned
    steady,               \* history: inc is what it was when frameBase was set
    dts,                  \* history: the time of the last frame
    out                   \* history: what align made of it

vars == <<frameNum, frameBase, inc, started, steady, dts, out>>

Init ==
    /\ frameNum = 0
    /\ frameBase = 0
    /\ inc \in Incs
    /\ started = FALSE
    /\ steady = TRUE
    /\ dts = 0
    /\ out = 0

\* The time predicted for the next frame.
EstPts == frameBase + frameNum * inc

Distance(a, b) == IF a >= b THEN a - b ELSE b - a

\* Faulty: the frame that sets the base is counted again, with the next one.
Align_CountsTwice(t) ==
    IF Distance(EstPts, t) <= Sync
      THEN /\ frameNum' = frameNum + 1
           /\ out' = EstPts
           /\ UNCHANGED frameBase
      ELSE /\ frameNum' = 0
           /\ frameBase' = t
           /\ out' = t

\* align: close to the prediction take it, else start again from this frame.
Align(t) ==
    IF Distance(EstPts, t) <= Sync
      THEN /\ frameNum' = frameNum + 1
           /\ out' = EstPts
           /\ UNCHANGED frameBase
      ELSE /\ frameNum' = 1
           /\ frameBase' = t
           /\ out' = t

\* calcPtsDts for an audio frame.
Frame(t) ==
    /\ t <= MaxDts
    /\ Align(t)
    /\ started' = TRUE
    /\ steady' = (steady \/ Distance(EstPts, t) > Sync)
    /\ dts' = t
    /\ UNCHANGED inc

\* A new AudioSpecificConfig changes the sample rate.
SpecificInfo(i) ==
    /\ inc' = i
    /\ steady' = (steady /\ i = inc)
    /\ UNCHANGED <<frameNum, frameBase, started, dts, out>>

Next ==
    \/ \E t \in 0..MaxDts : Frame(t)
    \/ \E i \in Incs : SpecificInfo(i)

Spec == Init /\ [][Next]_vars

-----------------------------------------------------------------------------
(* Properties *)

TypeOK ==
    /\ frameNum \in Nat
    /\ frameBase \in Nat
    /\ inc \in Incs
    /\ started \in BOOLEAN
    /\ steady \in BOOLEAN
    /\ dts \in Nat
    /\ out \in Nat

\* While the sample rate stays, a frame is given the time that is exactly one frame after
\* the last, also after one that has set the base again: none is counted twice or left
\* out.  Only when that is further than Sync from its own time, for the stream has jumped or
\* the rounding of the sample rate has added up so far, does it keep its own time.
EvenlySpaced ==
    [][started /\ steady /\ inc' = inc =>
         out' = IF Distance(dts', out + inc) <= Sync THEN out + inc ELSE dts']_vars

\* Audio is moved by at most Sync from the time the publisher gave it.
NearInput == started => Distance(out, dts) <= Sync

\* The next frame is predicted one frame after the last.
PredictsNext == started /\ steady => EstPts = out + inc

\* Frames that do not go back in time are given times that go back by at most
\* Sync, or 2*Sync after a change of the sample rate.
StepBack ==
    [][started /\ dts' >= dts =>
         out' >= out - (IF steady THEN Sync ELSE 2 * Sync)]_vars
=============================================================================
