--------------------------------- MODULE Adpcm ---------------------------------
(***************************************************************************)
(* The ADPCM decoder of the voice-capture server                           *)
(* (decodeImaAdpcmAlignedToPcm16le in aows_test_server.js), a payload byte *)
(* a step.  Beside it runs the bit-accumulation form of IMA ADPCM, which a *)
(* comment of the decoder compares its own form with: reference is what    *)
(* that form has decoded of the frame so far.                              *)
(***************************************************************************)
EXTENDS Integers, Sequences

CONSTANTS
  Formats,     \* the configured [frame, header, hl]: frame and header bytes, nibble order
  Lengths,     \* the lengths of the messages to decode
  StepBytes,   \* header field: the step index byte
  Words,       \* header field: the predictor, a 16-bit word
  Bytes        \* the payload bytes

ASSUME AdpcmAssumption ==
  /\ Formats \subseteq [frame: Nat \ {0}, header: Nat, hl: BOOLEAN]
  /\ Lengths \subseteq Nat
  /\ \A b \in StepBytes \cup Bytes : b \in Nat /\ b <= 255
  /\ \A w \in Words : w \in Nat /\ w <= 65535

VARIABLES
  format,     \* ADPCM_FRAME_BYTES, ADPCM_HEADER_BYTES, NIBBLE_ORDER === 'hl'
  length,     \* buffer.length
  i,          \* the byte of the buffer to read next
  allocated,  \* out.length
  outOffset,
  st,         \* predictor and stepIndex
  reference,  \* the predictor of the bit-accumulation form
  pc          \* "start", "frame", "payload", "out" (decoded) or "null" (not decoded)

decoderVars == <<format, length, i, allocated, outOffset, st, reference, pc>>

IMA_INDEX_TABLE == <<-1, -1, -1, -1, 2, 4, 6, 8>>
IMA_STEP_TABLE == <<
  7, 8, 9, 10, 11, 12, 13, 14, 16, 17, 19, 21, 23, 25, 28, 31, 34, 37, 41, 45, 50, 55, 60,
  66, 73, 80, 88, 97, 107, 118, 130, 143, 157, 173, 190, 209, 230, 253, 279, 307, 337, 371,
  408, 449, 494, 544, 598, 658, 724, 796, 876, 963, 1060, 1166, 1282, 1411, 1552, 1707, 1878,
  2066, 2272, 2499, 2749, 3024, 3327, 3660, 4026, 4428, 4871, 5358, 5894, 6484, 7132, 7845,
  8630, 9493, 10442, 11487, 12635, 13899, 15289, 16818, 18500, 20350, 22385, 24623, 27086,
  29794, 32767>>

\* The 16-bit samples writeInt16LE accepts.
Int16Min == -32768
Int16Max == 32767
Int16 == Int16Min..Int16Max

Clamp(x, low, high) == IF x < low THEN low ELSE IF x > high THEN high ELSE x

\* Signed(w): the 16-bit word w of the header as a signed number.
Signed(w) == IF w >= 32768 THEN w - 65536 ELSE w

\* The predicted difference of a 3-bit magnitude.
Diff(delta, step) == ((2 * delta + 1) * step) \div 8

\* The same, accumulated over the bits of the magnitude.
BitDiff(delta, step) ==
  (step \div 8) + (IF delta >= 4 THEN step ELSE 0)
                + (IF (delta % 4) >= 2 THEN step \div 2 ELSE 0)
                + (IF (delta % 2) = 1 THEN step \div 4 ELSE 0)

Predict(predictor, code, diff) ==
  Clamp(predictor + (IF code >= 8 THEN -diff ELSE diff), Int16Min, Int16Max)

\* Mutant: only the upper bound of the 16-bit range is kept.
NibbleStep_NoFloor(s, code) ==
  LET diff == Diff(code % 8, IMA_STEP_TABLE[s.stepIndex + 1])
      next == s.predictor + (IF code >= 8 THEN -diff ELSE diff)
  IN [predictor |-> IF next > Int16Max THEN Int16Max ELSE next,
      stepIndex |-> Clamp(s.stepIndex + IMA_INDEX_TABLE[(code % 8) + 1], 0, 88)]

\* decodeImaAdpcmNibbleStep
NibbleStep(s, code) ==
  [predictor |-> Predict(s.predictor, code, Diff(code % 8, IMA_STEP_TABLE[s.stepIndex + 1])),
   stepIndex |-> Clamp(s.stepIndex + IMA_INDEX_TABLE[(code % 8) + 1], 0, 88)]

RefStep(ref, s, code) ==
  Predict(ref, code, BitDiff(code % 8, IMA_STEP_TABLE[s.stepIndex + 1]))

DecoderInit ==
  /\ format \in Formats /\ length \in Lengths
  /\ i = 0 /\ allocated = 0 /\ outOffset = 0
  /\ st = [predictor |-> 0, stepIndex |-> 0] /\ reference = 0
  /\ pc = "start"

\* Mutant: a partial last frame is accepted.
Start_Partial ==
  /\ pc = "start"
  /\ IF length < format.frame \/ format.header >= format.frame
     THEN pc' = "null" /\ UNCHANGED allocated
     ELSE /\ allocated' = (length \div format.frame) * (format.frame - format.header) * 4
          /\ pc' = "frame"
  /\ UNCHANGED <<format, length, i, outOffset, st, reference>>

\* Only whole frames are decoded; the room for their samples is allocated.
Start ==
  /\ pc = "start"
  /\ IF length < format.frame \/ length % format.frame /= 0 \/ format.header >= format.frame
     THEN pc' = "null" /\ UNCHANGED allocated
     ELSE /\ allocated' = (length \div format.frame) * (format.frame - format.header) * 4
          /\ pc' = "frame"
  /\ UNCHANGED <<format, length, i, outOffset, st, reference>>

\* The header of the next frame: it sets the decoder's state.
Header ==
  /\ pc = "frame" /\ i < length
  /\ \E b \in StepBytes, w \in Words :
       /\ st' = [predictor |-> Signed(w), stepIndex |-> IF b > 88 THEN 88 ELSE b]
       /\ reference' = Signed(w)
  /\ i' = i + format.header /\ pc' = "payload"
  /\ UNCHANGED <<format, length, allocated, outOffset>>

\* A payload byte: two samples.
Payload ==
  /\ pc = "payload"
  /\ \E b \in Bytes :
       LET n1 == IF format.hl THEN b \div 16 ELSE b % 16
           n2 == IF format.hl THEN b % 16 ELSE b \div 16
           s  == NibbleStep(st, n1)
       IN /\ st' = NibbleStep(s, n2)
          /\ reference' = RefStep(RefStep(reference, st, n1), s, n2)
  /\ i' = i + 1 /\ outOffset' = outOffset + 4
  /\ pc' = IF (i + 1) % format.frame = 0 THEN "frame" ELSE "payload"
  /\ UNCHANGED <<format, length, allocated>>

Finish ==
  /\ pc = "frame" /\ i >= length
  /\ pc' = "out"
  /\ UNCHANGED <<format, length, i, allocated, outOffset, st, reference>>

DecoderNext == Start \/ Header \/ Payload \/ Finish

DecoderSpec == DecoderInit /\ [][DecoderNext]_decoderVars
-----------------------------------------------------------------------------
\* Every sample fits the 16 bits writeInt16LE accepts, the step index stays in its table, and
\* no write falls past the end of the buffer allocated from the length alone (writeInt16LE
\* would throw and the message would be lost); a decoded message fills it: no sample of
\* silence is appended to the capture.
OutputFits ==
  /\ st \in [predictor: Int16, stepIndex: 0..88]
  /\ outOffset <= allocated
  /\ pc = "out" => outOffset = allocated /\ i = length

\* Samples decoded since the header of the frame that was read last.
SamplesInFrame ==
  IF i = 0 THEN 0 ELSE 2 * (((i - 1) % format.frame) + 1 - format.header)

Abs(x) == IF x < 0 THEN -x ELSE x

\* aows_test_server.js:151, of the difference of decodeImaAdpcmNibbleStep: "Same result as
\* bit-accumulation form".
SameAsBitAccumulation == st.predictor = reference

\* How far the two come apart: the decoder computes each difference with one rounding, the
\* bit-accumulation form with up to four, so they part by at most 2 a sample, and the header
\* of the next frame brings them together again.
DriftBounded == Abs(st.predictor - reference) <= 2 * SamplesInFrame
=============================================================================
