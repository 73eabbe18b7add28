---------------------------- MODULE MCLoneParts ----------------------------
(***************************************************************************)
(* The parts that work on their own, for TLC: one of `pkg flake build`, the *)
(* HTTP client, `pkg new`, the address of a workload, the calendar, the    *)
(* digests and the size of an image runs while the others stand still.     *)
(***************************************************************************)
EXTENDS MCFlakeBuild, HttpClient, Scaffold, Calendar, NixHash, Sizing

VARIABLE part

flakeVars == vars
all == <<part, flakeVars, httpVars, scaffoldVars, name, days, date, bytes, sizingVars>>

PartsInit ==
  /\ part \in {"flake", "http", "scaffold", "address", "calendar", "digest", "sizing"}
  /\ Init /\ HttpInit /\ ScaffoldInit /\ NameInit /\ CalendarInit /\ HashInit /\ SizingInit
  /\ part # "flake" => lock = << >>
  /\ part # "http" => method = "get_bytes"

\* What the parts other than p keep.
Others(p) ==
  /\ part = p /\ UNCHANGED part
  /\ p # "flake" => UNCHANGED flakeVars
  /\ p # "http" => UNCHANGED httpVars
  /\ p # "scaffold" => UNCHANGED scaffoldVars
  /\ p # "address" => UNCHANGED name
  /\ p # "calendar" => UNCHANGED <<days, date>>
  /\ p # "digest" => UNCHANGED bytes
  /\ p # "sizing" => UNCHANGED sizingVars

PartsNext ==
  \/ Others("flake") /\ Next
  \/ Others("http") /\ HttpNext
  \/ Others("scaffold") /\ ScaffoldNext
  \/ Others("address") /\ \E b \in Letters : AppendLetter(b)
  \/ Others("calendar") /\ NextDay
  \/ Others("digest") /\ \E b \in ByteValues : AppendByte(b)
  \/ Others("sizing") /\ SizingNext

\* The fairness of `pkg flake build` and of the client.
PartsSpec ==
  /\ PartsInit /\ [][PartsNext]_all
  /\ WF_all(Others("flake") /\ Step)
  /\ WF_all(Others("http") /\ HttpNext)

\* CallReturns, of the client's part.
EveryCallReturns == part = "http" => CallReturns

\* Two versions of a resource, of different lengths, and an empty one.
TwoVersions == {<<"a1", "a2">>, <<"b1", "b2", "b3">>, << >>}

\* One large file, many small ones, files that fill a block and one byte more,
\* a directory of nothing, and enough for every counter to come to its limit.
SmallContents ==
  {<<0, 0>>, <<1, 100000000>>, <<12000, 1>>, <<2000, 4097>>, <<9000, 20000>>, <<100000, 9000>>}
=============================================================================
