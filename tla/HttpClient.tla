----------------------------- MODULE HttpClient -----------------------------
(***************************************************************************)
(* UreqClient: the four request methods of the HttpClient trait, each a    *)
(* closure run under retry_with_backoff.                                   *)
(*                                                                         *)
(* A response is received piece by piece.  The get_bytes methods collect   *)
(* it themselves and hand it over whole; the get_stream methods pass each  *)
(* piece on to the caller's writer as it comes.  What the server holds may *)
(* be another body at the next attempt.                                    *)
(***************************************************************************)
EXTENDS Naturals, Sequences

CONSTANTS
  Chunks,
  Bodies,      \* what the server may have at the URL, over time
  Refusals,    \* the HTTP statuses it may answer with, other than 2xx
  MaxAttempts  \* max_attempts of retry_with_backoff: 3 at every call

ASSUME BodyAssumption    == Bodies \subseteq Seq(Chunks)
ASSUME RefusalAssumption == Refusals \cap {"none", "ok", "io", "transport"} = {}
ASSUME AttemptAssumption == MaxAttempts \in Nat

Streaming  == {"get_stream", "get_stream_auth"}
Methods    == {"get_bytes", "get_bytes_auth"} \cup Streaming

VARIABLES
  method,   \* the method called
  pc,
  attempt,  \* the attempts that were retried so far
  body,     \* the response being received
  got,      \* how much of it has come
  dest,     \* what the caller has: its writer, or the returned bytes
  answer,   \* "none" yet, "ok", a refusal, "transport" (status 0) or "io"
  log,      \* history: how each attempt ended
  cause     \* history: what went wrong last

httpVars == <<method, pc, attempt, body, got, dest, answer, log, cause>>

HttpInit ==
  /\ method \in Methods
  /\ pc = "send" /\ attempt = 0
  /\ body = << >> /\ got = 0 /\ dest = << >>
  /\ answer = "none" /\ log = << >> /\ cause = "none"

\* Mutant: status 500 and the like are tried again, too.
RetryAll(outcome) == outcome # "ok" /\ attempt < MaxAttempts
\* Mutant: one attempt too few.
RetryFewer(outcome) == outcome = "transport" /\ attempt + 1 < MaxAttempts
Retried(outcome) == outcome = "transport" /\ attempt < MaxAttempts

\* Mutant: the attempts are not counted.
EndUncounted(outcome) ==
  \/ /\ Retried(outcome)
     /\ pc' = "sleep" /\ UNCHANGED <<attempt, answer, log>>
  \/ /\ ~Retried(outcome)
     /\ log' = Append(log, outcome)
     /\ answer' = outcome /\ pc' = "done" /\ UNCHANGED attempt

\* An attempt has ended.
End(outcome) ==
  /\ log' = Append(log, outcome)
  /\ \/ /\ Retried(outcome)
        /\ attempt' = attempt + 1 /\ pc' = "sleep" /\ UNCHANGED answer
     \/ /\ ~Retried(outcome)
        /\ answer' = outcome /\ pc' = "done" /\ UNCHANGED attempt

\* The backoff, 100 ms and twice as long each time.
Wake ==
  /\ pc = "sleep" /\ pc' = "send"
  /\ UNCHANGED <<method, attempt, body, got, dest, answer, log, cause>>

\* No connection, no TLS, or no response head within the client's timeouts.
SendFails ==
  /\ pc = "send" /\ End("transport")
  /\ cause' \in {"refused", "timeout"}
  /\ UNCHANGED <<method, body, got, dest>>

Respond ==
  /\ pc = "send"
  /\ \/ \E status \in Refusals : End(status) /\ cause' = "status" /\ UNCHANGED <<body, got>>
     \/ /\ pc' = "receive" /\ body' \in Bodies /\ got' = 0
        /\ UNCHANGED <<attempt, answer, log, cause>>
  /\ UNCHANGED <<method, dest>>

Receive ==
  /\ pc = "receive" /\ got < Len(body)
  /\ got' = got + 1
  /\ \/ method \in Streaming /\ dest' = Append(dest, body[got'])
     \/ method \notin Streaming /\ UNCHANGED dest
  /\ UNCHANGED <<method, pc, attempt, body, answer, log, cause>>

Complete ==
  /\ pc = "receive" /\ got = Len(body)
  /\ End("ok")
  /\ \/ method \in Streaming /\ UNCHANGED dest
     \/ method \notin Streaming /\ dest' = body
  /\ UNCHANGED <<method, body, got, cause>>

\* Mutant: an error of the copy is mapped like every other error.
AlwaysHttp == "transport"

\* map_error knows no status for an error in the body; an error of io::copy
\* does not come through map_error.
BodyError == IF method \in Streaming THEN "io" ELSE "transport"

\* The connection is lost, or the 300 seconds are over.
Lose ==
  /\ pc = "receive"
  /\ End(BodyError)
  /\ cause' \in {"reset", "timeout"}
  /\ UNCHANGED <<method, body, got, dest>>

HttpNext == Wake \/ SendFails \/ Respond \/ Receive \/ Complete \/ Lose

HttpSpec     == HttpInit /\ [][HttpNext]_httpVars
HttpFairSpec == HttpSpec /\ WF_httpVars(HttpNext)

-----------------------------------------------------------------------------
(* Properties *)

Outcomes == {"ok", "io", "transport"} \cup Refusals

\* The type of every variable, and how far an attempt has come.
HttpTypeOK ==
  /\ method \in Methods
  /\ pc \in {"send", "receive", "sleep", "done"}
  /\ attempt \in 0 .. MaxAttempts
  /\ body \in Bodies \cup {<< >>} /\ (pc = "receive" => body \in Bodies)
  /\ got \in 0 .. Len(body) /\ dest \in Seq(Chunks)
  /\ answer \in Outcomes \cup {"none"}
  /\ log \in Seq(Outcomes)
  /\ cause \in {"none", "refused", "reset", "timeout", "status"}

\* The client keeps the promise of HttpCall: however often it tries, what it
\* answers with Ok is one whole body, never two or a part of one, and every
\* other answer but a broken stream delivers nothing.  The caller sees its
\* writer again when the call returns.
Call ==
  INSTANCE HttpCall WITH delivered <- IF pc = "done" THEN dest ELSE << >>

ImplementsCall == Call!CallSpec

\* A request is repeated only after a transport error, and given up as one
\* only when it failed that way every time.
OnlyOutagesAreRetried ==
  /\ \A i \in DOMAIN log : log[i] # "transport" => i = Len(log) /\ pc = "done"
  /\ Len(log) <= MaxAttempts + 1
  /\ answer = "transport" => Len(log) = MaxAttempts + 1

\* What the caller's writer holds while the call is under way.
NothingLeftBehind ==
  pc # "done" =>
    /\ answer = "none"
    /\ dest = IF pc = "receive" /\ method \in Streaming THEN SubSeq(body, 1, got) ELSE << >>

\* The attempts so far: all but a final one were outages.
LogSoFar ==
  /\ Len(log) = IF pc = "done" THEN attempt + 1 ELSE attempt
  /\ \A i \in 1 .. attempt : log[i] = "transport"
  /\ answer = "transport" => attempt = MaxAttempts

\* The inductive invariant behind ImplementsCall and OnlyOutagesAreRetried.
HttpInv == HttpTypeOK /\ NothingLeftBehind /\ LogSoFar

\* Every call returns: each attempt is bounded by the timeouts, and so is
\* their number.
CallReturns == <>(pc = "done")
=============================================================================
