------------------------------- MODULE AowsProof -------------------------------
(***************************************************************************)
(* Proofs about the voice-capture server.                                  *)
(*                                                                         *)
(* Its sessions (AowsServer), for any finite set of sessions, any bound on *)
(* their frames and any configuration.  All of it follows from one         *)
(* inductive invariant: the checked invariants, and what a session's code, *)
(* streams and counters are before and after it is live.                   *)
(*                                                                         *)
(* Its decoder (Adpcm), for any frame format, any messages and any bytes.  *)
(* The inductive invariant says where in which frame the decoder is, as a  *)
(* number of whole frames and of payload bytes behind the header.          *)
(***************************************************************************)
EXTENDS AowsServer, Adpcm, FiniteSetTheorems, TLAPS

\* The set whose size activeConnections counts.
LiveSessions == {s \in Sessions : Live(s)}

\* What the checked invariants leave out: a session has no code until its
\* server side is closing, counts nothing before it is connected, and its
\* capture is ended only by the close handler.
SessionHistory ==
  \A s \in Sessions :
     /\ ws[s] = "none" => written[s] = counters[s]
     /\ ws[s] \in {"none", "open"} => code[s] = "none"
     /\ out[s] = "ended" => ws[s] = "closed"

IInv == TypeOK /\ ActiveCount /\ ClosedIsQuiet /\ CountersHonest /\ SessionHistory

-----------------------------------------------------------------------------
\* Initially there is no session and nothing is counted.
LEMMA InitIInv == Init => IInv
<1> SUFFICES ASSUME Init PROVE IInv
  OBVIOUS
<1>1. TypeOK
  BY DEF Init, TypeOK, Codes, Stream
<1>2. ActiveCount
  <2>1. LiveSessions = {}
    BY DEF Init, LiveSessions, Live
  <2>2. QED
    BY <2>1, FS_EmptySet DEF Init, ActiveCount, LiveSessions
<1>3. ClosedIsQuiet /\ CountersHonest /\ SessionHistory
  BY DEF Init, ClosedIsQuiet, CountersHonest, SessionHistory
<1>4. QED
  BY <1>1, <1>2, <1>3 DEF IInv

\* Every handler keeps the types.
LEMMA TypeStep ==
  ASSUME TypeOK, ActiveCount, NEW s \in Sessions, Step(s)
  PROVE  TypeOK'
<1> USE ConfigAssumption DEF TypeOK, Codes, Stream
<1>1. CASE Connection(s)
  BY <1>1 DEF Connection
<1>2. CASE BinaryMessage(s)
  BY <1>2 DEF BinaryMessage
<1>3. CASE StopMessage(s)
  BY <1>3 DEF StopMessage, Close
<1>4. CASE IdleTimer(s)
  BY <1>4 DEF IdleTimer, Close
<1>5. CASE StreamFails(s)
  BY <1>5 DEF StreamFails, Fail
<1>6. CASE StreamError(s)
  BY <1>6 DEF StreamError, Destroy, Close
<1>7. CASE WsClose(s)
  BY <1>7 DEF WsClose, End
<1>8. QED
  BY <1>1, <1>2, <1>3, <1>4, <1>5, <1>6, <1>7 DEF Step

\* A closing session is still live: Close moves no session in or out of the count.
LEMMA CloseKeepsLive ==
  ASSUME TypeOK, NEW s \in Sessions, NEW c \in Codes, Close(s, c)
  PROVE  LiveSessions' = LiveSessions
BY DEF TypeOK, Close, LiveSessions, Live

\* The count follows the set of live sessions: only the connection and the close
\* handler change either, and they change both, by one.
LEMMA CountStep ==
  ASSUME TypeOK, ActiveCount, NEW s \in Sessions, Step(s)
  PROVE  ActiveCount'
<1>1. IsFiniteSet(LiveSessions)
  BY SessionsAssumption, FS_Subset DEF LiveSessions
<1>2. activeConnections = Cardinality(LiveSessions)
  BY DEF ActiveCount, LiveSessions
<1>3. SUFFICES activeConnections' = Cardinality(LiveSessions')
  BY DEF ActiveCount, LiveSessions
<1>4. CASE Connection(s)
  <2>1. LiveSessions' = LiveSessions \cup {s} /\ s \notin LiveSessions
    BY <1>4 DEF Connection, LiveSessions, Live, TypeOK
  <2>2. Cardinality(LiveSessions') = Cardinality(LiveSessions) + 1
    BY <1>1, <2>1, FS_AddElement
  <2>3. QED
    BY <1>2, <1>4, <2>2 DEF Connection
<1>5. CASE WsClose(s)
  <2>1. LiveSessions' = LiveSessions \ {s} /\ s \in LiveSessions
    BY <1>5 DEF WsClose, LiveSessions, Live, TypeOK
  <2>2. Cardinality(LiveSessions') = Cardinality(LiveSessions) - 1
    BY <1>1, <2>1, FS_RemoveElement
  <2>3. activeConnections \in Nat /\ activeConnections # 0
    <3>1. Cardinality(LiveSessions) # 0
      BY <1>1, <2>1, FS_EmptySet
    <3>2. QED
      BY <1>2, <3>1 DEF TypeOK
  <2>4. activeConnections' = activeConnections - 1
    BY <1>5, <2>3 DEF WsClose
  <2>5. QED
    BY <1>2, <2>2, <2>4
<1>6. CASE BinaryMessage(s) \/ StreamFails(s)
  BY <1>2, <1>6 DEF BinaryMessage, StreamFails, LiveSessions, Live
<1>7. CASE StopMessage(s) \/ IdleTimer(s) \/ StreamError(s)
  <2>1. LiveSessions' = LiveSessions
    BY <1>7, CloseKeepsLive DEF StopMessage, IdleTimer, StreamError, Codes
  <2>2. activeConnections' = activeConnections
    BY <1>7 DEF StopMessage, IdleTimer, StreamError
  <2>3. QED
    BY <1>2, <2>1, <2>2
<1>8. QED
  BY <1>4, <1>5, <1>6, <1>7 DEF Step

\* What a session leaves behind, counts and remembers.
LEMMA SessionStep ==
  ASSUME TypeOK, ClosedIsQuiet, CountersHonest, SessionHistory,
         NEW s \in Sessions, Step(s)
  PROVE  ClosedIsQuiet' /\ CountersHonest' /\ SessionHistory'
<1> USE ConfigAssumption DEF TypeOK, ClosedIsQuiet, CountersHonest, SessionHistory, Live
<1>1. CASE Connection(s)
  BY <1>1 DEF Connection
<1>2. CASE BinaryMessage(s)
  BY <1>2 DEF BinaryMessage
<1>3. CASE StopMessage(s)
  BY <1>3 DEF StopMessage, Close
<1>4. CASE IdleTimer(s)
  BY <1>4 DEF IdleTimer, Close
<1>5. CASE StreamFails(s)
  BY <1>5 DEF StreamFails, Fail
<1>6. CASE StreamError(s)
  BY <1>6 DEF StreamError, Destroy, Close
<1>7. CASE WsClose(s)
  BY <1>7 DEF WsClose, End
<1>8. QED
  BY <1>1, <1>2, <1>3, <1>4, <1>5, <1>6, <1>7 DEF Step

\* Every step of every session keeps the invariant.
LEMMA IInvStep == IInv /\ [Next]_vars => IInv'
<1> SUFFICES ASSUME IInv, [Next]_vars PROVE IInv'
  OBVIOUS
<1>1. ASSUME NEW s \in Sessions, Step(s) PROVE IInv'
  BY <1>1, TypeStep, CountStep, SessionStep DEF IInv
<1>2. CASE UNCHANGED vars
  BY <1>2 DEF vars, perSession, IInv, TypeOK, ActiveCount, ClosedIsQuiet, CountersHonest,
              SessionHistory, Live
<1>3. QED
  BY <1>1, <1>2 DEF Next

\* The invariant holds in every reachable state.
THEOREM Invariance == Spec => []IInv
BY InitIInv, IInvStep, PTL DEF Spec

\* For any finite set of sessions the logged number of active connections is the
\* number of connections that are open or closing.
THEOREM ActiveCountCorrect == Spec => []ActiveCount
<1>1. IInv => ActiveCount
  BY DEF IInv
<1>2. QED
  BY <1>1, Invariance, PTL

\* Type correctness.
THEOREM TypeCorrect == Spec => []TypeOK
<1>1. IInv => TypeOK
  BY DEF IInv
<1>2. QED
  BY <1>1, Invariance, PTL

\* A closed session has no pending timer and no open capture file.
THEOREM ClosedIsQuietCorrect == Spec => []ClosedIsQuiet
<1>1. IInv => ClosedIsQuiet
  BY DEF IInv
<1>2. QED
  BY <1>1, Invariance, PTL

\* The logged frame count is that of the capture while the capture can be written.
THEOREM CountersHonestCorrect == Spec => []CountersHonest
<1>1. IInv => CountersHonest
  BY DEF IInv
<1>2. QED
  BY <1>1, Invariance, PTL

\* What the server logs of connections and frames is true.
THEOREM CountsHonestCorrect == Spec => []CountsHonest
<1>1. IInv => CountsHonest
  BY DEF IInv, CountsHonest
<1>2. QED
  BY <1>1, Invariance, PTL

\* No handler replaces the close code of a session that is already closing.
THEOREM FirstCloseWinsCorrect == Spec => FirstCloseWins
<1>1. ASSUME IInv, [Next]_vars
      PROVE  [\A s \in Sessions : code[s] # "none" => code'[s] = code[s]]_vars
  <2>1. CASE UNCHANGED vars
    BY <2>1 DEF vars
  <2>2. ASSUME NEW t \in Sessions, Step(t)
        PROVE  \A s \in Sessions : code[s] # "none" => code'[s] = code[s]
    <3> USE DEF IInv, SessionHistory, TypeOK
    <3>1. CASE Connection(t) \/ BinaryMessage(t) \/ StreamFails(t) \/ WsClose(t)
      BY <3>1 DEF Connection, BinaryMessage, StreamFails, WsClose
    <3>2. ASSUME NEW c \in Codes, Close(t, c)
          PROVE  \A s \in Sessions : code[s] # "none" => code'[s] = code[s]
      BY <1>1, <3>2 DEF Close
    <3>3. CASE StopMessage(t) \/ IdleTimer(t) \/ StreamError(t)
      BY <3>2, <3>3 DEF StopMessage, IdleTimer, StreamError, Codes
    <3>4. QED
      BY <2>2, <3>1, <3>3 DEF Step
  <2>3. QED
    BY <1>1, <2>1, <2>2 DEF Next
<1>2. QED
  BY <1>1, Invariance, PTL DEF Spec, FirstCloseWins

-----------------------------------------------------------------------------
\* The decoder.
DecoderState == [predictor: Int16, stepIndex: 0..88]

-----------------------------------------------------------------------------
\* The bounds of a 16-bit sample, as facts about numbers.
LEMMA SampleBounds ==
  /\ Int16Min \in Int /\ Int16Max \in Int /\ Int16Min <= Int16Max
  /\ \A x : x \in Int16 <=> x \in Int /\ Int16Min <= x /\ x <= Int16Max
<1>1. Int16Min \in Int /\ Int16Max \in Int /\ Int16Min <= Int16Max
  BY DEF Int16Min, Int16Max
<1>2. QED
  BY <1>1 DEF Int16

\* The tables: a step for every step index, a change of index for every magnitude.
LEMMA StepRange == \A k \in 0..88 : IMA_STEP_TABLE[k + 1] \in Nat
BY DEF IMA_STEP_TABLE

LEMMA IndexRange == \A delta \in 0..7 : IMA_INDEX_TABLE[delta + 1] \in -1..8
BY DEF IMA_INDEX_TABLE

\* Clamp takes no two numbers further apart.
LEMMA ClampNear ==
  ASSUME NEW x \in Int, NEW y \in Int, NEW low \in Int, NEW high \in Int, low <= high,
         NEW d \in Nat, Abs(x - y) <= d
  PROVE  Abs(Clamp(x, low, high) - Clamp(y, low, high)) <= d
BY DEF Clamp, Abs

\* One rounding against one for each bit set and one for the half step: the two
\* differences of a magnitude part by at most two.
LEMMA DiffNear ==
  ASSUME NEW delta \in 0..7, NEW step \in Nat
  PROVE  /\ Diff(delta, step) \in Nat /\ BitDiff(delta, step) \in Nat
         /\ Abs(Diff(delta, step) - BitDiff(delta, step)) <= 2
<1> USE DEF Diff, BitDiff, Abs
<1>1. CASE delta = 0 BY <1>1
<1>2. CASE delta = 1 BY <1>2
<1>3. CASE delta = 2 BY <1>3
<1>4. CASE delta = 3 BY <1>4
<1>5. CASE delta = 4 BY <1>5
<1>6. CASE delta = 5 BY <1>6
<1>7. CASE delta = 6 BY <1>7
<1>8. CASE delta = 7 BY <1>8
<1>9. QED BY <1>1, <1>2, <1>3, <1>4, <1>5, <1>6, <1>7, <1>8

\* A sample of the decoder fits, and takes the two forms at most two further apart.
LEMMA NibbleNear ==
  ASSUME NEW s \in DecoderState, NEW ref \in Int16, NEW nibble \in 0..15,
         NEW d \in Nat, Abs(s.predictor - ref) <= d
  PROVE  /\ NibbleStep(s, nibble) \in DecoderState
         /\ RefStep(ref, s, nibble) \in Int16
         /\ Abs(NibbleStep(s, nibble).predictor - RefStep(ref, s, nibble)) <= d + 2
<1> DEFINE delta == nibble % 8
           step  == IMA_STEP_TABLE[s.stepIndex + 1]
           diff  == Diff(delta, step)
           bits  == BitDiff(delta, step)
<1>1. delta \in 0..7
  OBVIOUS
<1>2. s.predictor \in Int16 /\ s.stepIndex \in 0..88
  BY DEF DecoderState
<1>3. step \in Nat
  BY <1>2, StepRange
<1>4. diff \in Nat /\ bits \in Nat /\ Abs(diff - bits) <= 2
  BY <1>1, <1>3, DiffNear
<1>5. IMA_INDEX_TABLE[delta + 1] \in -1..8
  BY <1>1, IndexRange
<1>6. NibbleStep(s, nibble) = [predictor |-> Predict(s.predictor, nibble, diff),
          stepIndex |-> Clamp(s.stepIndex + IMA_INDEX_TABLE[delta + 1], 0, 88)]
  BY DEF NibbleStep
<1>7. RefStep(ref, s, nibble) = Predict(ref, nibble, bits)
  BY DEF RefStep
<1> HIDE DEF delta, step, diff, bits
<1>8. Predict(s.predictor, nibble, diff) \in Int16 /\ Predict(ref, nibble, bits) \in Int16
  <2>1. \A x \in Int : Clamp(x, Int16Min, Int16Max) \in Int16
    BY SampleBounds DEF Clamp
  <2>2. \A z, y \in Int : z + (IF nibble >= 8 THEN -y ELSE y) \in Int
    OBVIOUS
  <2>3. s.predictor \in Int /\ ref \in Int /\ diff \in Int /\ bits \in Int
    BY <1>2, <1>4, SampleBounds
  <2>4. QED
    BY <2>1, <2>2, <2>3 DEF Predict
<1>9. Clamp(s.stepIndex + IMA_INDEX_TABLE[delta + 1], 0, 88) \in 0..88
  <2>1. s.stepIndex \in Int
    BY <1>2
  <2>2. s.stepIndex + IMA_INDEX_TABLE[delta + 1] \in Int
    BY <2>1, <1>5
  <2>3. \A x \in Int : Clamp(x, 0, 88) \in 0..88
    BY DEF Clamp
  <2>4. QED
    BY <2>2, <2>3
<1>10. Abs(Predict(s.predictor, nibble, diff) - Predict(ref, nibble, bits)) <= d + 2
  <2> DEFINE x == s.predictor + (IF nibble >= 8 THEN -diff ELSE diff)
             y == ref + (IF nibble >= 8 THEN -bits ELSE bits)
  <2>1. x \in Int /\ y \in Int /\ Abs(x - y) <= d + 2
    <3>1. s.predictor \in Int /\ ref \in Int
      BY <1>2 DEF Int16
    <3>2. CASE nibble >= 8
      BY <1>4, <3>1, <3>2 DEF Abs
    <3>3. CASE ~(nibble >= 8)
      BY <1>4, <3>1, <3>3 DEF Abs
    <3>4. QED
      BY <3>2, <3>3
  <2>2. d + 2 \in Nat
    OBVIOUS
  <2> HIDE DEF x, y
  <2>3. Abs(Clamp(x, Int16Min, Int16Max) - Clamp(y, Int16Min, Int16Max)) <= d + 2
    BY <2>1, <2>2, SampleBounds, ClampNear
  <2>4. QED
    BY <2>3 DEF Predict, x, y
<1>11. QED
  BY <1>6, <1>7, <1>8, <1>9, <1>10 DEF DecoderState


\* The predictor of a header is a sample.
LEMMA SignedRange == \A w \in Words : Signed(w) \in Int16
BY AdpcmAssumption, SampleBounds DEF Signed, Int16Min, Int16Max

-----------------------------------------------------------------------------
\* What division leaves.
LEMMA Division ==
  ASSUME NEW F \in Nat \ {0}, NEW a \in Nat
  PROVE  a \div F \in Nat /\ a % F \in 0..(F - 1) /\ a = (a \div F) * F + (a % F)
<1> DEFINE q == a \div F
           m == a % F
<1>1. a = F * q + m /\ m \in 0..(F - 1) /\ q \in Int
  OBVIOUS
<1> HIDE DEF q, m
<1>2. q >= 0
  <2>1. SUFFICES ASSUME q <= -1 PROVE FALSE
    BY <1>1
  <2>2. F * q <= -F
    BY <1>1, <2>1
  <2>3. QED
    BY <1>1, <2>2
<1>3. q \in Nat /\ m \in 0..(F - 1) /\ a = q * F + m
  BY <1>1, <1>2
<1>4. QED
  BY <1>3 DEF q, m

\* k whole frames and r bytes of the next: what remains of them after division.
LEMMA Remainder ==
  ASSUME NEW F \in Nat \ {0}, NEW k \in Nat, NEW r \in Nat, r < F
  PROVE  (k * F + r) % F = r
<1> DEFINE a == k * F + r
           q == a \div F
           m == a % F
<1>1. k * F \in Nat /\ a \in Nat
  OBVIOUS
<1>2. a = F * q + m /\ m \in 0..(F - 1) /\ q \in Int
  BY <1>1
<1> HIDE DEF q, m
<1>3. F * q - k * F = r - m
  BY <1>2
<1>4. F * (q - k) = r - m
  BY <1>2, <1>3
<1>5. -F < r - m /\ r - m < F
  BY <1>2
<1>6. q - k = 0
  BY <1>2, <1>4, <1>5
<1>7. QED
  BY <1>2, <1>4, <1>6 DEF m

\* Fewer whole frames hold at least a frame less.
LEMMA FewerFrames ==
  ASSUME NEW D \in Nat, NEW k \in Nat, NEW n \in Nat, k < n
  PROVE  /\ k * D + D <= n * D /\ (k + 1) * D = k * D + D
         /\ k * D \in Nat /\ n * D \in Nat
<1>1. PICK e \in Nat : n = k + 1 + e
  <2>1. n - k - 1 \in Nat
    OBVIOUS
  <2>2. QED
    BY <2>1
<1>2. n * D = k * D + D + e * D /\ (k + 1) * D = k * D + D
  BY <1>1
<1>3. e * D \in Nat /\ k * D \in Nat /\ n * D \in Nat
  OBVIOUS
<1>4. QED
  BY <1>2, <1>3

-----------------------------------------------------------------------------
\* The message is n whole frames, and room is allocated for all their samples.
Allocated(n) ==
  /\ format.header < format.frame /\ length = n * format.frame
  /\ allocated = (n * (format.frame - format.header)) * 4

DecoderTypes ==
  /\ format \in Formats /\ length \in Nat /\ i \in Nat
  /\ st \in DecoderState /\ reference \in Int16
  /\ pc \in {"start", "frame", "payload", "out", "null"}

\* Nothing is read before the message is accepted.
NotStarted ==
  pc \in {"start", "null"} =>
    i = 0 /\ outOffset = 0 /\ allocated = 0 /\ st.predictor = reference

\* Between two frames: i is at the end of the k-th.
AtFrame ==
  pc \in {"frame", "out"} =>
    \E n \in Nat : \E k \in 0..n :
      /\ Allocated(n) /\ i = k * format.frame /\ (pc = "out" => k = n)
      /\ outOffset = (k * (format.frame - format.header)) * 4
      /\ Abs(st.predictor - reference) <=
           IF k = 0 THEN 0 ELSE 4 * (format.frame - format.header)

\* In the payload: i is past j payload bytes of the frame after the k-th.
InPayload ==
  pc = "payload" =>
    \E n, k, j \in Nat :
      /\ Allocated(n) /\ k < n /\ j < format.frame - format.header
      /\ i = k * format.frame + format.header + j
      /\ outOffset = (k * (format.frame - format.header) + j) * 4
      /\ Abs(st.predictor - reference) <= 4 * j

DecoderInv == DecoderTypes /\ NotStarted /\ AtFrame /\ InPayload

\* Initially nothing is read.
LEMMA InitDecoder == DecoderInit => DecoderInv
BY AdpcmAssumption, SampleBounds
   DEF DecoderInit, DecoderInv, DecoderTypes, NotStarted, AtFrame, InPayload, DecoderState,
       Int16Min, Int16Max

\* Start accepts whole frames only.
LEMMA StartStep == ASSUME DecoderInv, Start PROVE DecoderInv'
<1> USE DEF DecoderInv
<1>1. DecoderTypes'
  BY DEF DecoderTypes, Start
<1>2. NotStarted'
  BY DEF NotStarted, Start
<1>3. InPayload'
  BY DEF InPayload, Start
<1>4. AtFrame'
  <2>1. SUFFICES ASSUME pc' = "frame" PROVE AtFrame'
    BY DEF Start, AtFrame
  <2>2. format.frame \in Nat \ {0} /\ format.header \in Nat
    BY AdpcmAssumption DEF DecoderTypes
  <2>3. length \in Nat /\ length % format.frame = 0 /\ format.header < format.frame
        /\ allocated' = (length \div format.frame) * (format.frame - format.header) * 4
    BY <2>1, <2>2 DEF Start, DecoderTypes
  <2>4. PICK n \in Nat : n = length \div format.frame /\ length = n * format.frame
    <3>1. /\ length \div format.frame \in Nat
          /\ length = (length \div format.frame) * format.frame + (length % format.frame)
      BY <2>2, <2>3, Division
    <3>2. PICK n \in Nat : n = length \div format.frame
      BY <3>1
    <3>3. length = n * format.frame + 0
      BY <2>3, <3>1, <3>2
    <3>4. length = n * format.frame
      BY <2>2, <3>3
    <3>5. QED
      BY <3>2, <3>4
  <2>5. i' = 0 * format'.frame /\ outOffset' = (0 * (format'.frame - format'.header)) * 4
        /\ Abs(st'.predictor - reference') = 0
    BY <2>2, SampleBounds DEF Start, NotStarted, DecoderTypes, Abs
  <2>6. Allocated(n)'
    BY <2>2, <2>3, <2>4 DEF Allocated, Start
  <2>7. \E k \in 0..n :
          /\ Allocated(n)' /\ i' = k * format'.frame /\ (pc' = "out" => k = n)
          /\ outOffset' = (k * (format'.frame - format'.header)) * 4
          /\ Abs(st'.predictor - reference') <=
               IF k = 0 THEN 0 ELSE 4 * (format'.frame - format'.header)
    <3>1. 0 \in 0..n /\ 0 <= 0
      BY <2>4
    <3>2. QED
      BY <2>1, <2>5, <2>6, <3>1
  <2>8. QED
    BY <2>4, <2>7 DEF AtFrame
<1>5. QED
  BY <1>1, <1>2, <1>3, <1>4

\* A header starts a frame afresh.
LEMMA HeaderStep == ASSUME DecoderInv, Header PROVE DecoderInv'
<1> USE DEF DecoderInv
<1>1. format.frame \in Nat \ {0} /\ format.header \in Nat /\ i \in Nat /\ length \in Nat
  BY AdpcmAssumption DEF DecoderTypes
<1>2. PICK b \in StepBytes, w \in Words :
        /\ st' = [predictor |-> Signed(w), stepIndex |-> IF b > 88 THEN 88 ELSE b]
        /\ reference' = Signed(w)
  BY DEF Header
<1>3. st' \in DecoderState /\ reference' \in Int16 /\ st'.predictor = reference'
  BY <1>2, AdpcmAssumption, SignedRange DEF DecoderState
<1>4. DecoderTypes'
  BY <1>1, <1>3 DEF DecoderTypes, Header
<1>5. NotStarted' /\ AtFrame'
  BY DEF NotStarted, AtFrame, Header
<1>6. InPayload'
  <2>1. PICK n \in Nat, k \in Nat :
          /\ k <= n /\ Allocated(n) /\ i = k * format.frame
          /\ outOffset = (k * (format.frame - format.header)) * 4
    BY DEF AtFrame, Header
  <2>2. k \in Nat /\ k < n
    BY <1>1, <2>1 DEF Allocated, Header
  <2>3. Allocated(n)'
    BY <2>1 DEF Allocated, Header
  <2>4. k * format.frame \in Nat /\ k * (format.frame - format.header) \in Int
    BY <1>1, <2>2
  <2>5. i' = k * format'.frame + format'.header + 0
    BY <1>1, <2>1, <2>4 DEF Header
  <2>6. outOffset' = (k * (format'.frame - format'.header) + 0) * 4
    BY <2>1, <2>4 DEF Header
  <2>7. Abs(st'.predictor - reference') <= 4 * 0
    BY <1>3, SampleBounds DEF Abs
  <2>8. 0 < format'.frame - format'.header
    BY <1>1, <2>3 DEF Allocated, Header
  <2>9. QED
    BY <2>2, <2>3, <2>5, <2>6, <2>7, <2>8 DEF InPayload
<1>7. QED
  BY <1>4, <1>5, <1>6

\* A payload byte is two samples, four bytes of room and a drift of at most four.
LEMMA PayloadStep == ASSUME DecoderInv, Payload PROVE DecoderInv'
<1> USE DEF DecoderInv
<1> DEFINE F == format.frame
           H == format.header
           D == F - H
<1>1. F \in Nat \ {0} /\ H \in Nat /\ i \in Nat /\ length \in Nat
  BY AdpcmAssumption DEF DecoderTypes
<1>2. PICK n \in Nat, k \in Nat, j \in Nat :
        /\ Allocated(n) /\ k < n /\ j < D
        /\ i = k * F + H + j /\ outOffset = (k * D + j) * 4
        /\ Abs(st.predictor - reference) <= 4 * j
  BY DEF InPayload, Payload
<1>3. D \in Nat
  BY <1>1, <1>2
<1>4. k * F \in Nat /\ k * D \in Nat /\ (k + 1) * F = k * F + F /\ (k + 1) * D = k * D + D
  BY <1>1, <1>2, <1>3, FewerFrames
<1>5. st' \in DecoderState /\ reference' \in Int16
      /\ Abs(st'.predictor - reference') <= 4 * (j + 1)
  <2>1. PICK b \in Bytes, n1 \in 0..15, n2 \in 0..15 :
          LET s == NibbleStep(st, n1)
          IN /\ st' = NibbleStep(s, n2)
             /\ reference' = RefStep(RefStep(reference, st, n1), s, n2)
    <3>1. PICK b \in Bytes :
            LET n1 == IF format.hl THEN b \div 16 ELSE b % 16
                n2 == IF format.hl THEN b % 16 ELSE b \div 16
                s  == NibbleStep(st, n1)
            IN /\ st' = NibbleStep(s, n2)
               /\ reference' = RefStep(RefStep(reference, st, n1), s, n2)
      BY DEF Payload
    <3>2. b \in Nat /\ b <= 255
      BY AdpcmAssumption
    <3>3. b \div 16 \in 0..15 /\ b % 16 \in 0..15
      BY <3>2
    <3>4. QED
      BY <3>1, <3>3
  <2>2. st \in DecoderState /\ reference \in Int16
    BY DEF DecoderTypes
  <2>3. 4 * j \in Nat /\ 4 * j + 2 \in Nat /\ (4 * j + 2) + 2 = 4 * (j + 1)
    BY <1>2
  <2> DEFINE s == NibbleStep(st, n1)
             ref == RefStep(reference, st, n1)
  <2>4. s \in DecoderState /\ ref \in Int16 /\ Abs(s.predictor - ref) <= 4 * j + 2
    BY <1>2, <2>2, <2>3, NibbleNear
  <2> HIDE DEF s, ref
  <2>5. /\ NibbleStep(s, n2) \in DecoderState /\ RefStep(ref, s, n2) \in Int16
        /\ Abs(NibbleStep(s, n2).predictor - RefStep(ref, s, n2)) <= (4 * j + 2) + 2
    BY <2>3, <2>4, NibbleNear
  <2>6. QED
    BY <2>1, <2>3, <2>5 DEF s, ref
<1>6. DecoderTypes'
  BY <1>1, <1>5 DEF DecoderTypes, Payload
<1>7. NotStarted'
  BY DEF NotStarted, Payload
<1>8. Allocated(n)'
  BY <1>2 DEF Allocated, Payload
<1>9. i' = k * F + (H + (j + 1)) /\ outOffset' = (k * D + (j + 1)) * 4
      /\ format' = format
  BY <1>1, <1>2, <1>3, <1>4 DEF Payload
<1>10. CASE j + 1 < D
  <2>1. (i + 1) % F = H + (j + 1) /\ H + (j + 1) # 0
    <3>1. H + (j + 1) \in Nat /\ H + (j + 1) < F
      BY <1>1, <1>2, <1>10
    <3>2. i + 1 = k * F + (H + (j + 1))
      BY <1>1, <1>2, <1>4
    <3>3. QED
      BY <1>1, <1>2, <3>1, <3>2, Remainder
  <2>2. pc' = "payload"
    BY <2>1 DEF Payload
  <2>3. j + 1 \in Nat
    BY <1>2
  <2>4. i' = k * format'.frame + format'.header + (j + 1)
    BY <1>1, <1>2, <1>4, <1>9
  <2>5. InPayload'
    BY <1>2, <1>5, <1>8, <1>9, <1>10, <2>3, <2>4 DEF InPayload
  <2>6. AtFrame'
    BY <2>2 DEF AtFrame
  <2>7. QED
    BY <1>6, <1>7, <2>5, <2>6
<1>11. CASE ~(j + 1 < D)
  <2>1. j + 1 = D /\ i' = (k + 1) * F /\ outOffset' = ((k + 1) * D) * 4
    BY <1>1, <1>2, <1>3, <1>4, <1>9, <1>11
  <2>2. (i + 1) % F = 0
    <3>1. i + 1 = (k + 1) * F + 0 /\ k + 1 \in Nat /\ 0 < F
      BY <1>1, <1>2, <1>4, <2>1 DEF Payload
    <3>2. QED
      BY <1>1, <3>1, Remainder
  <2>3. pc' = "frame"
    BY <2>2 DEF Payload
  <2>4. k + 1 \in 0..n /\ k + 1 # 0
    BY <1>2
  <2>5. AtFrame'
    BY <1>5, <1>8, <1>9, <2>1, <2>3, <2>4 DEF AtFrame
  <2>6. InPayload'
    BY <2>3 DEF InPayload
  <2>7. QED
    BY <1>6, <1>7, <2>5, <2>6
<1>12. QED
  BY <1>10, <1>11

\* The decoder stops behind the last frame, and nowhere else.
LEMMA FinishStep == ASSUME DecoderInv, Finish PROVE DecoderInv'
<1> USE DEF DecoderInv
<1>1. format.frame \in Nat \ {0} /\ format.header \in Nat
  BY AdpcmAssumption DEF DecoderTypes
<1>2. DecoderTypes' /\ NotStarted' /\ InPayload'
  BY DEF DecoderTypes, NotStarted, InPayload, Finish
<1>3. PICK n \in Nat, k \in Nat :
        /\ k <= n /\ Allocated(n) /\ i = k * format.frame
        /\ outOffset = (k * (format.frame - format.header)) * 4
        /\ Abs(st.predictor - reference) <=
             IF k = 0 THEN 0 ELSE 4 * (format.frame - format.header)
  BY DEF AtFrame, Finish
<1>4. k = n
  <2>1. SUFFICES ASSUME k < n PROVE FALSE
    BY <1>3
  <2>2. k * format.frame + format.frame <= n * format.frame
        /\ k * format.frame \in Nat /\ n * format.frame \in Nat
    BY <1>1, <2>1, FewerFrames
  <2>3. k * format.frame >= n * format.frame
    BY <1>3 DEF Allocated, Finish
  <2>4. QED
    BY <1>1, <2>2, <2>3
<1>5. AtFrame'
  BY <1>3, <1>4 DEF AtFrame, Allocated, Finish
<1>6. QED
  BY <1>2, <1>5

LEMMA DecoderStep == DecoderInv /\ [DecoderNext]_decoderVars => DecoderInv'
<1> SUFFICES ASSUME DecoderInv, [DecoderNext]_decoderVars PROVE DecoderInv'
  OBVIOUS
<1>1. CASE UNCHANGED decoderVars
  BY <1>1 DEF decoderVars, DecoderInv, DecoderTypes, NotStarted, AtFrame, InPayload, Allocated
<1>2. QED
  BY <1>1, StartStep, HeaderStep, PayloadStep, FinishStep DEF DecoderNext

\* The invariant holds in every reachable state of the decoder.
THEOREM DecoderInvariance == DecoderSpec => []DecoderInv
BY InitDecoder, DecoderStep, PTL DEF DecoderSpec

\* A sample of the decoder is one writeInt16LE accepts, none falls past the buffer that is
\* allocated from the length alone, and a decoded message fills it: for any frame format, any
\* message and any bytes.
THEOREM OutputFitsCorrect == DecoderSpec => []OutputFits
<1>1. DecoderInv => OutputFits
  <2> SUFFICES ASSUME DecoderInv PROVE OutputFits
    OBVIOUS
  <2> DEFINE F == format.frame
             D == format.frame - format.header
  <2>1. F \in Nat \ {0} /\ format.header \in Nat
    BY AdpcmAssumption DEF DecoderInv, DecoderTypes
  <2>2. CASE pc \in {"start", "null"}
    BY <2>2 DEF DecoderInv, DecoderTypes, DecoderState, NotStarted, OutputFits
  <2>3. CASE pc \in {"frame", "out"}
    <3>1. PICK n \in Nat, k \in Nat :
            /\ k <= n /\ Allocated(n) /\ i = k * F /\ (pc = "out" => k = n)
            /\ outOffset = (k * D) * 4
      BY <2>3 DEF DecoderInv, AtFrame
    <3>2. D \in Nat /\ k * D \in Nat /\ n * D \in Nat
      BY <2>1, <3>1 DEF Allocated
    <3>3. k * D <= n * D
      BY <3>1, <3>2, FewerFrames
    <3>4. outOffset <= allocated
      BY <3>1, <3>2, <3>3 DEF Allocated
    <3>5. QED
      BY <3>1, <3>4 DEF DecoderInv, DecoderTypes, DecoderState, OutputFits, Allocated
  <2>4. CASE pc = "payload"
    <3>1. PICK n \in Nat, k \in Nat, j \in Nat :
            /\ Allocated(n) /\ k < n /\ j < D /\ outOffset = (k * D + j) * 4
      BY <2>4 DEF DecoderInv, InPayload
    <3>2. D \in Nat
      BY <2>1, <3>1 DEF Allocated
    <3>3. k * D + D <= n * D /\ k * D \in Nat /\ n * D \in Nat
      BY <3>1, <3>2, FewerFrames
    <3>4. outOffset <= allocated
      BY <3>1, <3>2, <3>3 DEF Allocated
    <3>5. QED
      BY <2>4, <3>4 DEF DecoderInv, DecoderTypes, DecoderState, OutputFits
  <2>5. QED
    BY <2>2, <2>3, <2>4 DEF DecoderInv, DecoderTypes
<1>2. QED
  BY <1>1, DecoderInvariance, PTL

\* However the steps are rounded, the decoder's samples stay within two a sample of the
\* bit-accumulation form since the last header: the drift never outlives a frame.
THEOREM DriftBoundedCorrect == DecoderSpec => []DriftBounded
<1>1. DecoderInv => DriftBounded
  <2> SUFFICES ASSUME DecoderInv PROVE DriftBounded
    OBVIOUS
  <2> DEFINE F == format.frame
             H == format.header
             D == F - H
             drift == Abs(st.predictor - reference)
  <2>1. F \in Nat \ {0} /\ H \in Nat
    BY AdpcmAssumption DEF DecoderInv, DecoderTypes
  <2>2. drift \in Nat
    BY SampleBounds DEF DecoderInv, DecoderTypes, DecoderState, Abs
  <2>3. ASSUME i = 0, drift = 0 PROVE DriftBounded
    BY <2>3 DEF DriftBounded, SamplesInFrame
  <2>4. ASSUME NEW k \in Nat, NEW r \in 1..F, i = k * F + r, drift <= 4 * (r - H)
        PROVE  DriftBounded
    <3>1. k * F \in Nat /\ i - 1 = k * F + (r - 1) /\ r - 1 \in Nat /\ r - 1 < F /\ i # 0
      BY <2>1, <2>4
    <3>2. (i - 1) % F = r - 1
      BY <2>1, <3>1, Remainder
    <3>3. SamplesInFrame = 2 * (r - H)
      BY <2>1, <3>1, <3>2 DEF SamplesInFrame
    <3>4. QED
      BY <2>1, <2>2, <2>4, <3>3 DEF DriftBounded
  <2> HIDE DEF drift
  <2>5. CASE pc \in {"start", "null"}
    <3>1. i = 0 /\ drift = 0
      BY <2>5, SampleBounds
         DEF DecoderInv, DecoderTypes, DecoderState, NotStarted, drift, Abs
    <3>2. QED
      BY <2>3, <3>1
  <2>6. CASE pc \in {"frame", "out"}
    <3>1. PICK n \in Nat, k \in Nat :
            i = k * F /\ Allocated(n) /\ drift <= IF k = 0 THEN 0 ELSE 4 * D
      BY <2>6 DEF DecoderInv, AtFrame, drift
    <3>2. CASE k = 0
      BY <2>1, <2>2, <2>3, <3>1, <3>2
    <3>3. CASE k # 0
      <4>1. k - 1 \in Nat /\ (k - 1) * F + F = k * F /\ F \in 1..F
        BY <2>1, <3>3
      <4>2. QED
        BY <2>1, <2>4, <3>1, <3>3, <4>1
    <3>4. QED
      BY <3>2, <3>3
  <2>7. CASE pc = "payload"
    <3>1. PICK n \in Nat, k \in Nat, j \in Nat :
            i = k * F + H + j /\ j < D /\ drift <= 4 * j
      BY <2>7 DEF DecoderInv, InPayload, drift
    <3>2. k * F \in Nat
      BY <2>1
    <3>3. CASE H + j # 0
      <4>1. H + j \in 1..F /\ i = k * F + (H + j) /\ drift <= 4 * ((H + j) - H)
        BY <2>1, <3>1, <3>2, <3>3
      <4>2. QED
        BY <2>4, <4>1
    <3>4. CASE H + j = 0
      <4>1. H = 0 /\ j = 0 /\ i = k * F /\ drift = 0
        <5>1. H = 0 /\ j = 0
          BY <2>1, <3>4
        <5>2. i = k * F
          BY <3>1, <3>2, <5>1
        <5>3. drift = 0
          BY <2>2, <3>1, <5>1
        <5>4. QED
          BY <5>1, <5>2, <5>3
      <4>2. CASE k = 0
        BY <2>1, <2>3, <4>1, <4>2
      <4>3. CASE k # 0
        <5>1. k - 1 \in Nat /\ (k - 1) * F + F = k * F /\ F \in 1..F
          BY <2>1, <4>3
        <5>2. drift <= 4 * (F - H) /\ i = (k - 1) * F + F
          BY <2>1, <4>1, <5>1
        <5>3. QED
          BY <2>4, <5>1, <5>2
      <4>4. QED
        BY <4>2, <4>3
    <3>5. QED
      BY <3>3, <3>4
  <2>8. QED
    BY <2>5, <2>6, <2>7 DEF DecoderInv, DecoderTypes
<1>2. QED
  BY <1>1, DecoderInvariance, PTL
=============================================================================
