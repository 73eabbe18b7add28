------------------------------ MODULE HttpCall ------------------------------
(***************************************************************************)
(* What a caller of the HttpClient trait may rely on: a call is answered   *)
(* once, and what it delivers is either exactly one response body or,      *)
(* after an error, at most the beginning of one.  The requests of Install  *)
(* and Resolve assume this much and no more.                               *)
(***************************************************************************)
EXTENDS Naturals, Sequences

CONSTANTS
  Bodies,     \* what the server may have at the URL, over time
  Refusals    \* the HTTP statuses it may answer with, other than 2xx

VARIABLES
  answer,     \* "none" while the call is under way
  delivered   \* the bytes the caller ends up with

callVars == <<answer, delivered>>

CallInit == answer = "none" /\ delivered = << >>

Succeed ==
  /\ answer' = "ok"
  /\ delivered' \in Bodies

\* PkgError::Http; its status is 0 when the server gave none.
Refuse ==
  /\ answer' \in Refusals \cup {"transport"}
  /\ delivered' = << >>

\* PkgError::Io: the transfer broke off.
BreakOff ==
  /\ answer' = "io"
  /\ \E body \in Bodies : \E n \in 0 .. Len(body) : delivered' = SubSeq(body, 1, n)

CallNext == answer = "none" /\ (Succeed \/ Refuse \/ BreakOff)

CallSpec == CallInit /\ [][CallNext]_callVars
=============================================================================
