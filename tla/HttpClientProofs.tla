-------------------------- MODULE HttpClientProofs --------------------------
(***************************************************************************)
(* Proofs about HttpClient: the invariant, the retry discipline, and that  *)
(* the client implements HttpCall.                                         *)
(***************************************************************************)
EXTENDS HttpClient, SequenceTheorems, TLAPS

\* The empty response is the beginning of every other.
LEMMA NoneReceived ==
  ASSUME NEW s \in Seq(Chunks)
  PROVE  SubSeq(s, 1, 0) = << >>
BY SubSeqEmpty

\* One more piece of a response.
LEMMA OneMoreReceived ==
  ASSUME NEW s \in Seq(Chunks), NEW n \in Nat, n < Len(s)
  PROVE  SubSeq(s, 1, n + 1) = Append(SubSeq(s, 1, n), s[n + 1])
<1>1. n + 1 \in 1 .. Len(s)
  OBVIOUS
<1>2. SubSeq(s, 1, n + 1) = SubSeq(s, 1, n) \o <<s[n + 1]>>
  BY <1>1, SubSeqRecursiveSecond
<1>3. SubSeq(s, 1, n) \in Seq(Chunks) /\ s[n + 1] \in Chunks
  OBVIOUS
<1> QED
  BY <1>2, <1>3, AppendIsConcat

\* The whole of a response.
LEMMA AllReceived ==
  ASSUME NEW s \in Seq(Chunks)
  PROVE  SubSeq(s, 1, Len(s)) = s
BY SubSeqFull

-----------------------------------------------------------------------------
(* The invariant *)

\* An attempt that ends leaves the call asleep, after an outage, or answered.
LEMMA Ending ==
  ASSUME HttpInv, NEW outcome \in Outcomes, pc \in {"send", "receive"}, End(outcome)
  PROVE  /\ attempt' \in 0 .. MaxAttempts
         /\ log' \in Seq(Outcomes)
         /\ \/ pc' = "sleep" /\ answer' = "none"
            \/ pc' = "done" /\ answer' = outcome
         /\ LogSoFar'
<1>1. /\ attempt \in 0 .. MaxAttempts /\ log \in Seq(Outcomes) /\ answer = "none"
      /\ Len(log) = attempt
      /\ \A i \in 1 .. attempt : log[i] = "transport"
  BY DEF HttpInv, HttpTypeOK, NothingLeftBehind, LogSoFar
<1>2. /\ log' \in Seq(Outcomes)
      /\ Len(log') = attempt + 1
      /\ \A i \in 1 .. attempt : log'[i] = "transport"
      /\ log'[attempt + 1] = outcome
  BY <1>1, AppendProperties DEF End
<1>3. CASE Retried(outcome)
  <2>1. attempt' = attempt + 1 /\ pc' = "sleep" /\ answer' = "none" /\ attempt < MaxAttempts
        /\ outcome = "transport"
    BY <1>1, <1>3 DEF End, Retried
  <2>2. \A i \in 1 .. attempt' : i \in 1 .. attempt \/ i = attempt + 1
    BY <1>1, <2>1
  <2> QED
    BY <1>1, <1>2, <2>1, <2>2, AttemptAssumption DEF LogSoFar
<1>4. CASE ~Retried(outcome)
  <2>1. attempt' = attempt /\ pc' = "done" /\ answer' = outcome
    BY <1>4 DEF End
  <2>2. outcome = "transport" => attempt = MaxAttempts
    BY <1>1, <1>4, AttemptAssumption DEF Retried
  <2> QED
    BY <1>1, <1>2, <2>1, <2>2 DEF LogSoFar
<1> QED
  BY <1>3, <1>4

\* The call starts in the invariant.
LEMMA InitInv == HttpInit => HttpInv
<1> SUFFICES ASSUME HttpInit PROVE HttpInv
  OBVIOUS
<1>1. << >> \in Seq(Outcomes) /\ << >> \in Seq(Chunks) /\ Len(<< >>) = 0
  OBVIOUS
<1> QED
  BY <1>1, AttemptAssumption DEF HttpInit, HttpInv, HttpTypeOK, NothingLeftBehind, LogSoFar

\* Every step keeps it.
LEMMA NextInv == HttpInv /\ [HttpNext]_httpVars => HttpInv'
<1> SUFFICES ASSUME HttpInv, [HttpNext]_httpVars PROVE HttpInv'
  OBVIOUS
<1> USE DEF HttpInv, HttpTypeOK, NothingLeftBehind
<1>1. CASE Wake
  BY <1>1 DEF Wake, LogSoFar
<1>2. CASE SendFails
  <2>1. "transport" \in Outcomes /\ pc \in {"send", "receive"} /\ End("transport")
    BY <1>2 DEF SendFails, Outcomes
  <2>2. /\ attempt' \in 0 .. MaxAttempts /\ log' \in Seq(Outcomes) /\ LogSoFar'
        /\ (pc' = "sleep" /\ answer' = "none") \/ (pc' = "done" /\ answer' = "transport")
    BY <2>1, Ending
  <2> QED
    BY <1>2, <2>1, <2>2 DEF SendFails
<1>3. CASE Respond
  <2>1. CASE \E status \in Refusals : End(status) /\ cause' = "status" /\ UNCHANGED <<body, got>>
    <3>1. PICK status \in Refusals : End(status) /\ cause' = "status" /\ UNCHANGED <<body, got>>
      BY <2>1
    <3>2. status \in Outcomes /\ pc \in {"send", "receive"}
      BY <1>3 DEF Respond, Outcomes
    <3>3. /\ attempt' \in 0 .. MaxAttempts /\ log' \in Seq(Outcomes) /\ LogSoFar'
          /\ (pc' = "sleep" /\ answer' = "none") \/ (pc' = "done" /\ answer' = status)
      BY <3>1, <3>2, Ending
    <3> QED
      BY <1>3, <3>1, <3>2, <3>3 DEF Respond
  <2>2. CASE /\ pc' = "receive" /\ body' \in Bodies /\ got' = 0
             /\ UNCHANGED <<attempt, answer, log, cause>>
    <3>1. body' \in Seq(Chunks) /\ Len(body') \in Nat /\ SubSeq(body', 1, 0) = << >>
      BY <2>2, BodyAssumption, NoneReceived
    <3>2. pc = "send" /\ UNCHANGED <<method, dest>>
      BY <1>3 DEF Respond
    <3> QED
      BY <2>2, <3>1, <3>2 DEF LogSoFar
  <2> QED
    BY <1>3, <2>1, <2>2 DEF Respond
<1>4. CASE Receive
  <2>1. /\ pc = "receive" /\ body \in Seq(Chunks) /\ got \in Nat /\ got < Len(body)
        /\ got' = got + 1 /\ UNCHANGED <<method, pc, attempt, body, answer, log, cause>>
    BY <1>4, BodyAssumption DEF Receive
  <2>2. body[got'] \in Chunks /\ SubSeq(body, 1, got') = Append(SubSeq(body, 1, got), body[got'])
    BY <2>1, OneMoreReceived
  <2>3. LogSoFar' /\ got' \in 0 .. Len(body)
    BY <2>1 DEF LogSoFar
  <2>4. CASE method \in Streaming
    <3>1. dest' = Append(dest, body[got']) /\ dest = SubSeq(body, 1, got)
      BY <1>4, <2>1, <2>4 DEF Receive
    <3>2. dest' \in Seq(Chunks)
      BY <2>2, <3>1, AppendProperties
    <3> QED
      BY <2>1, <2>2, <2>3, <2>4, <3>1, <3>2
  <2>5. CASE method \notin Streaming
    <3>1. dest' = dest /\ dest = << >>
      BY <1>4, <2>1, <2>5 DEF Receive
    <3> QED
      BY <2>1, <2>3, <2>5, <3>1
  <2> QED
    BY <2>4, <2>5
<1>5. CASE Complete
  <2>1. "ok" \in Outcomes /\ pc \in {"send", "receive"} /\ End("ok") /\ body \in Seq(Chunks)
    BY <1>5, BodyAssumption DEF Complete, Outcomes
  <2>2. /\ attempt' \in 0 .. MaxAttempts /\ log' \in Seq(Outcomes) /\ LogSoFar'
        /\ pc' = "done" /\ answer' = "ok"
    BY <2>1, Ending DEF End, Retried
  <2> QED
    BY <1>5, <2>1, <2>2 DEF Complete
<1>6. CASE Lose
  <2>1. BodyError \in Outcomes /\ pc = "receive" /\ End(BodyError)
    BY <1>6 DEF Lose, BodyError, Outcomes
  <2>2. /\ attempt' \in 0 .. MaxAttempts /\ log' \in Seq(Outcomes) /\ LogSoFar'
        /\ (pc' = "sleep" /\ answer' = "none") \/ (pc' = "done" /\ answer' = BodyError)
    BY <2>1, Ending
  <2>3. method \in Streaming => pc' = "done"
    BY <2>1 DEF BodyError, End, Retried
  <2> QED
    BY <1>6, <2>1, <2>2, <2>3 DEF Lose
<1>7. CASE UNCHANGED httpVars
  BY <1>7 DEF httpVars, LogSoFar
<1> QED
  BY <1>1, <1>2, <1>3, <1>4, <1>5, <1>6, <1>7 DEF HttpNext

\* In every state of a call its writer holds nothing, or the beginning of the
\* one response that is being received, and only outages went before.
THEOREM Invariance == HttpSpec => []HttpInv
BY InitInv, NextInv, PTL DEF HttpSpec

-----------------------------------------------------------------------------
(* What follows from it *)

\* Every variable keeps its type; the attempts stay within their bound.
THEOREM TypeCorrect == HttpSpec => []HttpTypeOK
<1>1. HttpInv => HttpTypeOK
  BY DEF HttpInv
<1> QED
  BY <1>1, Invariance, PTL

\* retry_with_backoff repeats a request only after an outage, at most
\* MaxAttempts times, and reports an outage only when it has used them all.
THEOREM RetryDiscipline == HttpSpec => []OnlyOutagesAreRetried
<1>1. HttpInv => OnlyOutagesAreRetried
  <2> SUFFICES ASSUME HttpInv PROVE OnlyOutagesAreRetried
    OBVIOUS
  <2>1. /\ attempt \in 0 .. MaxAttempts /\ log \in Seq(Outcomes) /\ DOMAIN log = 1 .. Len(log)
        /\ Len(log) = IF pc = "done" THEN attempt + 1 ELSE attempt
        /\ \A i \in 1 .. attempt : log[i] = "transport"
        /\ answer = "transport" => attempt = MaxAttempts /\ pc = "done"
    BY DEF HttpInv, HttpTypeOK, LogSoFar, NothingLeftBehind
  <2> QED
    BY <2>1, AttemptAssumption DEF OnlyOutagesAreRetried
<1> QED
  BY <1>1, Invariance, PTL

\* The retries, the pieces and the buffers are invisible to the caller: each
\* behaviour of the client is one of HttpCall.
THEOREM Implementation == HttpSpec => ImplementsCall
<1>1. HttpInit => Call!CallInit
  BY DEF HttpInit, Call!CallInit
<1>2. HttpInv /\ HttpInv' /\ [HttpNext]_httpVars => [Call!CallNext]_(Call!callVars)
  <2> SUFFICES ASSUME HttpInv, HttpInv', [HttpNext]_httpVars PROVE [Call!CallNext]_(Call!callVars)
    OBVIOUS
  <2>1. CASE pc' # "done"
    <3>1. pc # "done"
      BY <2>1 DEF HttpNext, Wake, SendFails, Respond, Receive, Complete, Lose, httpVars
    <3>2. answer = "none" /\ answer' = "none"
      BY <2>1, <3>1 DEF HttpInv, NothingLeftBehind
    <3> QED
      BY <2>1, <3>1, <3>2 DEF Call!callVars
  <2>2. CASE pc = "done"
    <3>1. UNCHANGED <<pc, answer, dest>>
      BY <2>2 DEF HttpNext, Wake, SendFails, Respond, Receive, Complete, Lose, httpVars
    <3> QED
      BY <3>1 DEF Call!callVars
  <2>3. CASE pc # "done" /\ pc' = "done"
    <3>1. answer = "none"
      BY <2>3 DEF HttpInv, NothingLeftBehind
    <3>2. CASE SendFails
      <4>1. answer' = "transport" /\ dest' = << >>
        BY <2>3, <3>2 DEF SendFails, End, HttpInv, NothingLeftBehind
      <4> QED
        BY <2>3, <3>1, <4>1 DEF Call!CallNext, Call!Refuse
    <3>3. CASE Respond
      <4>1. answer' \in Refusals /\ dest' = << >>
        BY <2>3, <3>3 DEF Respond, End, HttpInv, NothingLeftBehind
      <4> QED
        BY <2>3, <3>1, <4>1 DEF Call!CallNext, Call!Refuse
    <3>4. CASE Complete
      <4>1. answer' = "ok" /\ body \in Bodies /\ body \in Seq(Chunks) /\ got = Len(body)
        BY <2>3, <3>4, BodyAssumption DEF Complete, End, HttpInv, HttpTypeOK
      <4>2. CASE method \in Streaming
        <5>1. dest' = SubSeq(body, 1, Len(body))
          BY <3>4, <4>1, <4>2 DEF Complete, HttpInv, NothingLeftBehind
        <5> QED
          BY <2>3, <3>1, <4>1, <5>1, AllReceived DEF Call!CallNext, Call!Succeed
      <4>3. CASE method \notin Streaming
        BY <2>3, <3>1, <3>4, <4>1, <4>3 DEF Complete, Call!CallNext, Call!Succeed
      <4> QED
        BY <4>2, <4>3
    <3>5. CASE Lose
      <4>1. answer' = BodyError /\ pc = "receive" /\ dest' = dest
        BY <2>3, <3>5 DEF Lose, End
      <4>2. CASE method \in Streaming
        <5>1. /\ answer' = "io" /\ dest' = SubSeq(body, 1, got)
              /\ body \in Bodies /\ got \in 0 .. Len(body)
          BY <4>1, <4>2 DEF BodyError, HttpInv, HttpTypeOK, NothingLeftBehind
        <5> QED
          BY <2>3, <3>1, <5>1 DEF Call!CallNext, Call!BreakOff
      <4>3. CASE method \notin Streaming
        <5>1. answer' = "transport" /\ dest' = << >>
          BY <4>1, <4>3 DEF BodyError, HttpInv, NothingLeftBehind
        <5> QED
          BY <2>3, <3>1, <5>1 DEF Call!CallNext, Call!Refuse
      <4> QED
        BY <4>2, <4>3
    <3> QED
      BY <2>3, <3>2, <3>3, <3>4, <3>5 DEF HttpNext, Wake, Receive, httpVars
  <2> QED
    BY <2>1, <2>2, <2>3
<1> QED
  BY <1>1, <1>2, Invariance, PTL DEF HttpSpec, ImplementsCall, Call!CallSpec
=============================================================================
