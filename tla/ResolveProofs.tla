--------------------------- MODULE ResolveProofs ---------------------------
(* What holds of Resolve for every channel, cache and number of workloads. *)
EXTENDS ResolveInvariant, SequenceTheorems, TLAPS

-----------------------------------------------------------------------------
(* Lemmas about the operators *)

\* A byte that is new enough stays so: the channel only moves on.
LEMMA SinceStays ==
  ASSUME TypeOK, head' \in Revisions, head <= head', NEW r \in Revisions, NEW i, NEW byte,
         Since(r, i, byte)
  PROVE  Since(r, i, byte)'
<1>1. Revisions = 1 .. Len(Published) /\ Len(Published) \in Nat
  BY TextAssumption DEF Revisions
<1> QED BY <1>1 DEF Since, TypeOK

\* So does a text.
LEMMA KeepsUpStays ==
  ASSUME TypeOK, head' \in Revisions, head <= head', NEW r \in Revisions, NEW text,
         KeepsUp(r, text)
  PROVE  KeepsUp(r, text)'
<1>1. Revisions = 1 .. Len(Published) /\ Len(Published) \in Nat
  BY TextAssumption DEF Revisions
<1>2. PICK later \in r .. head : Len(text) <= Len(Published[later])
  BY DEF KeepsUp
<1>3. later \in r .. head'
  BY <1>1, <1>2 DEF TypeOK
<1>4. \E q \in r .. head' : Len(text) <= Len(Published[q])
  BY <1>2, <1>3
<1>5. \A i \in DOMAIN text : text[i] = Hole \/ Since(r, i, text[i])'
  BY SinceStays DEF KeepsUp
<1> QED BY <1>4, <1>5 DEF KeepsUp

\* So does a path.
LEMMA PiecedStays ==
  ASSUME TypeOK, head' \in Revisions, head <= head', NEW r \in Revisions, NEW path,
         PiecedSince(r, path)
  PROVE  PiecedSince(r, path)'
<1>1. Revisions = 1 .. Len(Published) /\ Len(Published) \in Nat
  BY TextAssumption DEF Revisions
<1>2. PICK later \in r .. head : \E at \in 0 .. Len(Published[later]) :
        \A i \in DOMAIN path : path[i] = Hole \/ Since(r, at + i, path[i])
  BY DEF PiecedSince
<1>3. PICK at \in 0 .. Len(Published[later]) :
        \A i \in DOMAIN path : path[i] = Hole \/ Since(r, at + i, path[i])
  BY <1>2
<1>4. later \in r .. head'
  BY <1>1, <1>2 DEF TypeOK
<1>5. \A i \in DOMAIN path : path[i] = Hole \/ Since(r, at + i, path[i])'
  BY <1>3, SinceStays
<1> QED BY <1>3, <1>4, <1>5 DEF PiecedSince

\* What is new enough for a revision is new enough for an earlier one.
LEMMA SinceEarlier ==
  ASSUME TypeOK, NEW r \in Revisions, NEW s \in Revisions, s <= r, NEW i, NEW byte,
         Since(r, i, byte)
  PROVE  Since(s, i, byte)
<1>1. Revisions = 1 .. Len(Published) /\ Len(Published) \in Nat
  BY TextAssumption DEF Revisions
<1> QED BY <1>1 DEF Since, TypeOK

\* The list of the current revision is new enough for all so far.
LEMMA CurrentKeepsUp ==
  ASSUME TypeOK, NEW r \in Revisions, r <= head
  PROVE  KeepsUp(r, Published[head])
<1>1. Revisions = 1 .. Len(Published) /\ Len(Published) \in Nat /\ head \in r .. head
  BY TextAssumption DEF Revisions, TypeOK
<1>2. Len(Published[head]) \in Nat
  BY <1>1, TextAssumption DEF TypeOK, Revisions
<1>3. Len(Published[head]) <= Len(Published[head])
  BY <1>2
<1> QED BY <1>1, <1>3 DEF KeepsUp, Since

\* A line of a text is what the text has from some place on.
LEMMA LineInText ==
  ASSUME NEW text \in Texts, NEW line \in LinesOf(text)
  PROVE  /\ line \in Texts
         /\ \E at \in 0 .. Len(text) : \A i \in DOMAIN line :
              at + i \in DOMAIN text /\ line[i] = text[at + i]
<1> DEFINE Breaks == {0, Len(text) + 1} \cup {i \in DOMAIN text : text[i] = Eol}
<1>1. Len(text) \in Nat /\ DOMAIN text = 1 .. Len(text)
  BY DEF Texts
<1>2. PICK g \in Breaks \X Breaks : g[1] < g[2] /\ line = SubSeq(text, g[1] + 1, g[2] - 1)
  BY DEF LinesOf
<1>3. g[1] \in 0 .. Len(text) + 1 /\ g[2] \in 0 .. Len(text) + 1
  BY <1>1, <1>2
<1> DEFINE a == g[1]
           b == g[2] - 1
<1>4. a \in 0 .. Len(text) /\ b \in 0 .. Len(text) /\ a <= b /\ line = SubSeq(text, a + 1, b)
  BY <1>1, <1>2, <1>3
<1> HIDE DEF a, b, Breaks
<1>5. /\ line \in Seq(Bytes \cup {Hole}) /\ Len(line) = b - a
      /\ \A i \in 1 .. b - a : line[i] = text[a + i]
  <2>1. a + 1 \in 1 .. Len(text) + 1 /\ a + 1 <= b + 1
    BY <1>1, <1>4
  <2>2. line \in Seq(Bytes \cup {Hole})
    BY <1>1, <1>4, <2>1 DEF Texts
  <2>3. Len(line) = b - a
    BY <1>1, <1>4, <2>1
  <2>4. ASSUME NEW i \in 1 .. b - a PROVE line[i] = text[a + i]
    BY <1>1, <1>4, <2>1
  <2> QED BY <2>2, <2>3, <2>4
<1>6. DOMAIN line = 1 .. b - a
  BY <1>5
<1>7. \A i \in 1 .. b - a : a + i \in DOMAIN text
  BY <1>1, <1>4
<1> QED BY <1>4, <1>5, <1>6, <1>7 DEF Texts

\* A resolution maps each name to a line of the text.
LEMMA FoundInText ==
  ASSUME NEW text, NEW w, NEW found \in Resolutions(text, w)
  PROVE  /\ DOMAIN found = NamesOf(w)
         /\ \A name \in NamesOf(w) : found[name] \in LinesOf(text)
<1>1. ASSUME NEW name PROVE Best(text, name) \subseteq LinesOf(text)
  BY DEF Best, Pool
<1>2. /\ DOMAIN found = NamesOf(w)
      /\ \A name \in NamesOf(w) : found[name] \in Best(text, name)
  BY DEF Resolutions
<1> QED BY <1>1, <1>2

\* And so to a path that is as new as the text.
LEMMA FoundIsPieced ==
  ASSUME TypeOK, NEW r \in Revisions, NEW s \in Revisions, s <= r,
         NEW text \in Texts, KeepsUp(r, text), NEW line \in LinesOf(text)
  PROVE  line \in Texts /\ PiecedSince(s, line)
<1>1. Revisions = 1 .. Len(Published) /\ Len(Published) \in Nat /\ head \in Revisions
  BY TextAssumption DEF Revisions, TypeOK
<1>2. PICK at \in 0 .. Len(text) : \A i \in DOMAIN line :
              at + i \in DOMAIN text /\ line[i] = text[at + i]
  BY LineInText
<1>3. PICK later \in r .. head : Len(text) <= Len(Published[later])
  BY DEF KeepsUp
<1>4. later \in s .. head /\ later \in Revisions
  BY <1>1, <1>3
<1>5. Len(Published[later]) \in Nat /\ Len(text) \in Nat
  BY <1>4, TextAssumption DEF Revisions, Texts
<1>6. at \in 0 .. Len(Published[later])
  BY <1>2, <1>3, <1>5
<1>7. ASSUME NEW i \in DOMAIN line PROVE line[i] = Hole \/ Since(s, at + i, line[i])
  <2>1. text[at + i] = Hole \/ Since(r, at + i, text[at + i])
    BY <1>2 DEF KeepsUp
  <2> QED BY <1>2, <2>1, SinceEarlier
<1>8. PiecedSince(s, line)
  BY <1>4, <1>6, <1>7 DEF PiecedSince
<1> QED BY <1>8, LineInText

\* c is the text with the byte at place i.
WrittenOver(c, text, i, byte) ==
  /\ c \in Texts /\ Len(c) = IF i > Len(text) THEN i ELSE Len(text)
  /\ \A k \in DOMAIN c :
       \/ k = i /\ c[k] = byte
       \/ k \in DOMAIN text /\ c[k] = text[k]
       \/ c[k] = Hole

\* Writing a byte, past the end or not, gives bytes and gaps again.
LEMMA WriteAtType ==
  ASSUME NEW text \in Texts, NEW i \in Nat \ {0}, NEW byte \in Bytes \cup {Hole}
  PROVE  WrittenOver(WriteAt(text, i, byte), text, i, byte)
<1> DEFINE n == IF i > Len(text) THEN i ELSE Len(text)
           f == WriteAt(text, i, byte)
<1>1. Len(text) \in Nat /\ DOMAIN text = 1 .. Len(text) /\ n \in Nat
  BY DEF Texts
<1>2. f \in [1 .. n -> Bytes \cup {Hole}]
  BY <1>1 DEF WriteAt, Texts
<1>3. f \in Texts /\ Len(f) = n
  BY <1>1, <1>2 DEF Texts
<1> QED BY <1>2, <1>3 DEF WriteAt, WrittenOver

\* An empty text is as new as can be.
LEMMA EmptyKeepsUp ==
  ASSUME TypeOK, NEW r \in Revisions, r <= head
  PROVE  KeepsUp(r, << >>)
<1>1. Revisions = 1 .. Len(Published) /\ Len(Published) \in Nat /\ head \in r .. head
  BY TextAssumption DEF Revisions, TypeOK
<1>2. Len(Published[head]) \in Nat
  BY <1>1, TextAssumption DEF TypeOK, Revisions
<1>3. Len(<< >>) <= Len(Published[head])
  BY <1>2
<1> QED BY <1>1, <1>3 DEF KeepsUp

\* The first bytes of a text, read one further, stay in their places.
LEMMA ReadKeepsUp ==
  ASSUME NEW r \in Revisions, NEW a \in Texts, NEW b \in Texts, KeepsUp(r, a), KeepsUp(r, b),
         NEW n \in Nat \ {0}, Len(a) + 1 = n, n <= Len(b), head \in Revisions
  PROVE  /\ Append(a, b[n]) \in Texts /\ Len(Append(a, b[n])) = n
         /\ KeepsUp(r, Append(a, b[n]))
<1> DEFINE c == Append(a, b[n])
<1>1. n \in DOMAIN b /\ b[n] \in Bytes \cup {Hole} /\ Len(a) \in Nat
  BY DEF Texts
<1>2. c \in Texts /\ Len(c) = n /\ DOMAIN c = 1 .. n
  BY <1>1 DEF Texts
<1>3. \A i \in 1 .. n : IF i = n THEN c[i] = b[n] ELSE i \in DOMAIN a /\ c[i] = a[i]
  BY <1>1 DEF Texts
<1> HIDE DEF c
<1>4. \A i \in DOMAIN c : c[i] = Hole \/ Since(r, i, c[i])
  BY <1>1, <1>2, <1>3 DEF KeepsUp
<1>5. PICK later \in r .. head : Len(b) <= Len(Published[later])
  BY DEF KeepsUp
<1>6. Len(Published[later]) \in Nat
  BY <1>5, TextAssumption DEF Revisions
<1>7. Len(c) <= Len(Published[later])
  BY <1>2, <1>5, <1>6 DEF Texts
<1>8. KeepsUp(r, c)
  BY <1>4, <1>5, <1>7 DEF KeepsUp
<1> QED BY <1>2, <1>8 DEF c

\* A text written over another, byte by byte in their places, keeps up if both do.
LEMMA WriteKeepsUp ==
  ASSUME NEW r \in Revisions, NEW a \in Texts, NEW b \in Texts, KeepsUp(r, a), KeepsUp(r, b),
         NEW n \in DOMAIN b, head \in Revisions
  PROVE  WriteAt(a, n, b[n]) \in Texts /\ KeepsUp(r, WriteAt(a, n, b[n]))
<1> DEFINE byte == b[n]
           c == WriteAt(a, n, byte)
<1>1. /\ n \in Nat \ {0} /\ n <= Len(b) /\ byte \in Bytes \cup {Hole}
      /\ Len(a) \in Nat /\ Len(b) \in Nat
  BY DEF Texts
<1> HIDE DEF byte
<1>0. WrittenOver(c, a, n, byte)
  BY <1>1, WriteAtType, Zenon
<1> HIDE DEF c
<1>2. /\ c \in Texts /\ Len(c) = IF n > Len(a) THEN n ELSE Len(a)
      /\ \A k \in DOMAIN c :
           \/ k = n /\ c[k] = byte
           \/ k \in DOMAIN a /\ c[k] = a[k]
           \/ c[k] = Hole
  BY <1>0 DEF WrittenOver
<1>3. byte = Hole \/ Since(r, n, byte)
  BY DEF KeepsUp, byte
<1>4. \A k \in DOMAIN c : c[k] = Hole \/ Since(r, k, c[k])
  BY <1>2, <1>3 DEF KeepsUp
<1>5. PICK p \in r .. head : Len(a) <= Len(Published[p])
  BY DEF KeepsUp
<1>6. PICK q \in r .. head : Len(b) <= Len(Published[q])
  BY DEF KeepsUp
<1>7. Len(Published[p]) \in Nat /\ Len(Published[q]) \in Nat
  <2>1. Revisions = 1 .. Len(Published) /\ Len(Published) \in Nat
    BY TextAssumption DEF Revisions
  <2>2. p \in Revisions /\ q \in Revisions
    BY <1>5, <1>6, <2>1
  <2> QED BY <2>2, TextAssumption DEF Revisions
<1>8. Len(c) <= Len(Published[p]) \/ Len(c) <= Len(Published[q])
  BY <1>1, <1>2, <1>5, <1>6, <1>7
<1>9. KeepsUp(r, c)
  BY <1>4, <1>5, <1>6, <1>8 DEF KeepsUp
<1> QED BY <1>2, <1>9 DEF c, byte

\* A sequence is no NoFile.
LEMMA FileIsFile == \A text \in Texts : text # NoFile
BY FileAssumption

-----------------------------------------------------------------------------
(* The invariant *)

\* It holds before anything has run.
LEMMA InitInv == Init => Core
<1> SUFFICES ASSUME Init PROVE Core
  OBVIOUS
<1>1. Revisions = 1 .. Len(Published) /\ Len(Published) \in Nat \ {0}
  BY TextAssumption DEF Revisions
<1>2. << >> \in Texts
  BY DEF Texts
<1>3. \A w \in Workloads : job[w] = NoJob
  BY DEF Init
<1>4. \A w \in Workloads : JobOK(w, NoJob)
  BY <1>2 DEF JobOK, Job, NoJob, Pcs, Results
<1>5. TypeOK
  BY <1>1, <1>3, <1>4 DEF Init, TypeOK
<1>6. FilesKeepUp /\ NeverOlderThanClaimed
  BY DEF Init, FilesKeepUp, NeverOlderThanClaimed, Written
<1>7. JobsKeepUp /\ FoundKeepsUp
  BY <1>3 DEF JobsKeepUp, JobKeepsUp, FoundKeepsUp, NoJob, Keyed
<1> QED BY <1>5, <1>6, <1>7 DEF Core

\* The channel moves on, and everything stays as new as it has to be.
LEMMA AdvanceInv ==
  ASSUME Core, Advance
  PROVE  Core'
<1>1. /\ Revisions = 1 .. Len(Published) /\ Len(Published) \in Nat /\ head \in Revisions
      /\ head' = head + 1 /\ head' \in Revisions /\ head <= head'
      /\ UNCHANGED <<file, manifest, job, runs, faults, unsafe>> /\ TypeOK
  BY TextAssumption DEF Advance, Core, TypeOK, Revisions
<1>2. TypeOK'
  <2>1. \A w \in Workloads : JobOK(w, job[w])'
    BY <1>1 DEF TypeOK, JobOK
  <2> QED BY <1>1, <2>1 DEF TypeOK
<1>3. ASSUME NEW r \in Revisions, NEW text, KeepsUp(r, text)
      PROVE  KeepsUp(r, text)'
  BY <1>1, <1>3, KeepsUpStays
<1>4. FilesKeepUp'
  BY <1>1, <1>3 DEF Core, FilesKeepUp
<1>5. JobsKeepUp'
  <2> SUFFICES ASSUME NEW w \in Workloads PROVE JobKeepsUp(job[w])'
    BY DEF JobsKeepUp
  <2>1. JobKeepsUp(job[w]) /\ JobOK(w, job[w]) /\ job'[w] = job[w]
    BY <1>1 DEF Core, JobsKeepUp, TypeOK
  <2>2. job[w].pc \in Keyed => job[w].key \in Revisions /\ KeepsUp(job[w].key, job[w].text)'
    BY <1>3, <2>1 DEF JobOK, Job, JobKeepsUp, Keyed
  <2>3. job[w].pc = "key" => job[w].rev \in Revisions
    BY <2>1 DEF JobOK, Job, Pcs
  <2> QED BY <1>1, <2>1, <2>2, <2>3 DEF JobKeepsUp
<1>6. FoundKeepsUp'
  <2> SUFFICES ASSUME NEW w \in Workloads, job[w].pc \in {"open", "write", "report"},
                      NEW name \in NamesOf(w)
               PROVE  PiecedSince(job[w].rev, job[w].found[name])'
    BY <1>1 DEF FoundKeepsUp
  <2>1. job[w].rev \in Revisions /\ PiecedSince(job[w].rev, job[w].found[name])
    BY <1>1 DEF Core, FoundKeepsUp, TypeOK, JobOK, Job, Pcs
  <2> QED BY <1>1, <2>1, PiecedStays
<1>7. NeverOlderThanClaimed'
  <2> SUFFICES ASSUME NEW w \in Workloads, Written(w), NEW name \in NamesOf(w)
               PROVE  PiecedSince(manifest[w].rev, manifest[w].packages[name])'
    BY <1>1 DEF NeverOlderThanClaimed, Written
  <2>1. manifest[w].rev \in Revisions /\ PiecedSince(manifest[w].rev, manifest[w].packages[name])
    BY <1>1 DEF Core, NeverOlderThanClaimed, TypeOK, Written, Manifests
  <2> QED BY <1>1, <2>1, PiecedStays
<1> QED BY <1>2, <1>4, <1>5, <1>6, <1>7 DEF Core

-----------------------------------------------------------------------------
(* A step of a command *)

\* What the next record of a command has to be.
Good(w, r) ==
  /\ JobOK(w, r) /\ JobKeepsUp(r)
  /\ r.pc \in {"open", "write", "report"} =>
       \A name \in NamesOf(w) : PiecedSince(r.rev, r.found[name])

\* A command that goes from one good record to the next, and touches no file
\* but its own cache file and manifest, preserves the invariant.
LEMMA StepInv ==
  ASSUME Core, NEW w \in Workloads, NEW r, Step(w, r), UNCHANGED head,
         runs' \in Nat, faults' \in Nat, Good(w, job[w])',
         DOMAIN file' = Revisions, DOMAIN manifest' = Workloads,
         \A k \in Revisions : \/ file'[k] = file[k]
                              \/ file'[k] \in Texts /\ KeepsUp(k, file'[k]),
         \A v \in Workloads : \/ manifest'[v] = manifest[v]
                              \/ manifest'[v] = Torn
                              \/ /\ manifest'[v] \in Manifests(v)
                                 /\ \A name \in NamesOf(v) :
                                      PiecedSince(manifest'[v].rev, manifest'[v].packages[name])
  PROVE  Core'
<1>1. /\ DOMAIN job' = Workloads /\ job'[w] = r
      /\ \A v \in Workloads \ {w} : job'[v] = job[v]
  BY DEF Step, Core, TypeOK
<1>2. \A k \in Revisions : /\ file'[k] \in Texts \cup {NoFile}
                           /\ file[k] # NoFile => file'[k] # NoFile
  BY FileIsFile DEF Core, TypeOK
<1>3. \A v \in Workloads : JobOK(v, job[v])'
  <2> SUFFICES ASSUME NEW v \in Workloads, v # w PROVE JobOK(v, job[v])'
    BY <1>1 DEF Good
  <2>1. JobOK(v, job[v]) /\ job'[v] = job[v]
    BY <1>1 DEF Core, TypeOK
  <2>2. job[v].pc \in {"read", "save"} => job[v].key \in Revisions
    BY <2>1 DEF JobOK, Job, Pcs
  <2> QED BY <1>2, <2>1, <2>2 DEF JobOK, CacheKey
<1>4. unsafe' \subseteq Revisions
  <2>1. \A v \in Workloads : job'[v].pc = "save" => job'[v].key \in Revisions
    BY <1>3 DEF JobOK, Job, Pcs
  <2>2. Contended' \subseteq Revisions
    BY <2>1 DEF Contended, At, Key, CacheKey
  <2>3. At(w, "save") => Key(w) \in Revisions
    BY DEF Core, TypeOK, JobOK, Job, Pcs, At, Key, CacheKey
  <2> QED BY <2>2, <2>3 DEF Step, Core, TypeOK
<1>5. TypeOK'
  BY <1>2, <1>3, <1>1, <1>4 DEF Core, TypeOK
<1>6. FilesKeepUp'
  BY DEF Core, FilesKeepUp, KeepsUp, Since
<1>7. JobsKeepUp'
  <2> SUFFICES ASSUME NEW v \in Workloads, v # w PROVE JobKeepsUp(job[v])'
    BY <1>1 DEF JobsKeepUp, Good
  <2>1. JobKeepsUp(job[v]) /\ job'[v] = job[v]
    BY <1>1 DEF Core, JobsKeepUp
  <2> QED BY <2>1 DEF JobKeepsUp, KeepsUp, Since
<1>8. FoundKeepsUp'
  <2> SUFFICES ASSUME NEW v \in Workloads, v # w, (job[v].pc \in {"open", "write", "report"})',
                      NEW name \in NamesOf(v)
               PROVE  PiecedSince(job[v].rev, job[v].found[name])'
    BY <1>1 DEF FoundKeepsUp, Good
  <2>1. job'[v] = job[v] /\ PiecedSince(job[v].rev, job[v].found[name])
    BY <1>1 DEF Core, FoundKeepsUp
  <2> QED BY <2>1 DEF PiecedSince, Since
<1>9. NeverOlderThanClaimed'
  BY DEF Core, NeverOlderThanClaimed, Written, PiecedSince, Since
<1> QED BY <1>5, <1>6, <1>7, <1>8, <1>9 DEF Core


\* A step that touches no file preserves the invariant if its record is good.
LEMMA QuietInv ==
  ASSUME Core, NEW w \in Workloads, NEW r, Step(w, r), UNCHANGED <<head, file, manifest>>,
         runs' \in Nat, faults' \in Nat, Good(w, r)
  PROVE  Core'
<1>1. job'[w] = r
  BY DEF Step, Core, TypeOK
<1>2. Good(w, job[w])'
  BY <1>1 DEF Good, JobOK, JobKeepsUp, KeepsUp, PiecedSince, Since
<1> QED BY <1>2, StepInv DEF Core, TypeOK

\* So does stopping, for whatever reason.
LEMMA StopInv ==
  ASSUME Core, NEW w \in Workloads, NEW why \in Results, Stop(w, why),
         UNCHANGED <<head, file, manifest>>, runs' \in Nat, faults' \in Nat
  PROVE  Core'
<1> DEFINE r == [job[w] EXCEPT !.pc = "idle", !.result = why]
<1>1. JobOK(w, job[w])
  BY DEF Core, TypeOK
<1>2. Good(w, r)
  BY <1>1 DEF Good, JobOK, Job, JobKeepsUp, Keyed, Pcs
<1>3. Step(w, r)
  BY DEF Stop
<1> HIDE DEF r
<1> QED BY <1>2, <1>3, QuietInv

\* A command that starts knows nothing yet.
LEMMA StartInv ==
  ASSUME Core, NEW w \in Workloads, Start(w)
  PROVE  Core'
<1>1. /\ UNCHANGED <<head, file, manifest>> /\ runs' \in Nat /\ faults' \in Nat
      /\ manifest[w] \in Manifests(w) \cup {NoFile, Torn} /\ << >> \in Texts
  BY DEF Start, Core, TypeOK, NoFault, Fault, Texts
<1> DEFINE r == [NoJob EXCEPT !.pc = "rev", !.old = manifest[w]]
           s == [NoJob EXCEPT !.old = manifest[w], !.result = "specFailed"]
<1>2. NoJob \in Job(w) /\ NoJob.text = << >> /\ NoJob.pc = "idle" /\ NoJob.pos = 1
  BY <1>1 DEF NoJob, Job, Pcs, Results
<1>3. /\ r \in Job(w) /\ r.pc = "rev" /\ r.text = << >>
      /\ s \in Job(w) /\ s.pc = "idle" /\ r.pos = 1
  BY <1>1, <1>2 DEF Job, Pcs, Results
<1>5. Good(w, r) /\ Good(w, s)
  BY <1>3 DEF Good, JobOK, JobKeepsUp, Keyed
<1>4. Step(w, r) \/ Step(w, s)
  BY DEF Start
<1> HIDE DEF r, s
<1> QED BY <1>1, <1>4, <1>5, QuietInv

\* The revision, and the key after it, are what the channel is at.
LEMMA FetchRevisionInv ==
  ASSUME Core, NEW w \in Workloads, FetchRevision(w)
  PROVE  Core'
<1>1. /\ UNCHANGED <<head, file, manifest>> /\ runs' \in Nat /\ faults' \in Nat
      /\ JobOK(w, job[w]) /\ JobKeepsUp(job[w]) /\ head \in Revisions
  BY DEF FetchRevision, Core, TypeOK, JobsKeepUp, NoFault, Fault, FailsWith
<1>2. "channelFailed" \in Results
  BY DEF Results
<1>3. CASE Stop(w, "channelFailed")
  BY <1>1, <1>2, <1>3, StopInv
<1>4. CASE At(w, "rev") /\ Step(w, [job[w] EXCEPT !.pc = "key", !.rev = head])
  <2> DEFINE r == [job[w] EXCEPT !.pc = "key", !.rev = head]
  <2>1. r \in Job(w) /\ r.pc = "key" /\ r.rev = head /\ r.text = job[w].text /\ r.pos = job[w].pos
    BY <1>1 DEF JobOK, Job, Pcs
  <2>2. job[w].text = << >> /\ job[w].pos = 1 /\ head <= head
    BY <1>1, <1>4, TextAssumption DEF JobKeepsUp, At, Revisions
  <2>3. Good(w, r)
    BY <1>1, <2>1, <2>2 DEF Good, JobOK, JobKeepsUp, Keyed
  <2> HIDE DEF r
  <2> QED BY <1>1, <1>4, <2>3, QuietInv DEF r
<1>5. CASE At(w, "key") /\ Step(w, [job[w] EXCEPT !.pc = "lookup", !.key = head])
  <2> DEFINE r == [job[w] EXCEPT !.pc = "lookup", !.key = head]
  <2>1. /\ r \in Job(w) /\ r.pc = "lookup" /\ r.key = head
        /\ r.text = job[w].text /\ r.rev = job[w].rev /\ r.pos = job[w].pos
    BY <1>1 DEF JobOK, Job, Pcs
  <2>2. /\ job[w].text = << >> /\ job[w].pos = 1 /\ job[w].rev <= head /\ head <= head
        /\ job[w].rev \in Revisions
    BY <1>1, <1>5, TextAssumption DEF JobKeepsUp, At, JobOK, Pcs, Revisions
  <2>3. KeepsUp(head, << >>)
    BY <1>1, <2>2, EmptyKeepsUp DEF Core
  <2>4. Good(w, r)
    BY <1>1, <2>1, <2>2, <2>3 DEF Good, JobOK, JobKeepsUp, Keyed
  <2> HIDE DEF r
  <2> QED BY <1>1, <1>5, <2>4, QuietInv DEF r
<1> QED BY <1>3, <1>4, <1>5 DEF FetchRevision, Answers, FailsWith

\* Looking for the file, and reading it: the bytes read are those of the file.
LEMMA LookupInv ==
  ASSUME Core, NEW w \in Workloads, Lookup(w)
  PROVE  Core'
<1>1. /\ UNCHANGED <<head, file, manifest>> /\ runs' \in Nat /\ faults' \in Nat
      /\ JobOK(w, job[w]) /\ JobKeepsUp(job[w]) /\ At(w, "lookup")
  BY DEF Lookup, Core, TypeOK, JobsKeepUp, NoFault
<1> DEFINE r(pc) == [job[w] EXCEPT !.pc = pc]
<1>2. ASSUME NEW pc \in {"read", "download"}, pc = "read" => file[Key(w)] # NoFile
      PROVE  Good(w, r(pc))
  BY <1>1, <1>2 DEF Good, JobOK, Job, JobKeepsUp, Keyed, Pcs, At, Key
<1>3. \/ file[Key(w)] # NoFile /\ Step(w, r("read"))
      \/ Step(w, r("download"))
  BY DEF Lookup, Goto
<1>4. Good(w, r("download"))
  BY <1>2
<1>5. file[Key(w)] # NoFile => Good(w, r("read"))
  BY <1>2
<1> HIDE DEF r
<1> QED BY <1>1, <1>3, <1>4, <1>5, QuietInv

\* Reading adds a byte of the file, or ends, or falls back to a download.
LEMMA ReadByteInv ==
  ASSUME Core, NEW w \in Workloads, ReadByte(w)
  PROVE  Core'
<1>1. /\ UNCHANGED <<head, file, manifest>> /\ runs' \in Nat /\ faults' \in Nat
      /\ JobOK(w, job[w]) /\ JobKeepsUp(job[w]) /\ job[w].pc = "read"
      /\ job[w].key \in Revisions /\ Key(w) = job[w].key
      /\ file[Key(w)] \in Texts /\ KeepsUp(Key(w), file[Key(w)])
  BY DEF ReadByte, Core, TypeOK, JobsKeepUp, FilesKeepUp, NoFault, Fault, At, Key, CacheKey,
         JobOK, Pcs
<1>2. job[w] \in Job(w) /\ job[w].text \in Texts /\ job[w].pos \in Nat \ {0}
  BY <1>1 DEF JobOK, Job
<1> DEFINE pos  == job[w].pos
           read == Append(job[w].text, file[Key(w)][pos])
           next == job[w].pos + 1
           r    == [job[w] EXCEPT !.text = read, !.pos = next]
           find == [job[w] EXCEPT !.pc = "find"]
           none == << >>
           one  == 1
           down == [job[w] EXCEPT !.pc = "download", !.text = none, !.pos = one]
<1>3. CASE pos <= Len(file[Key(w)]) /\ Step(w, r)
  <2>1. pos \in DOMAIN file[Key(w)] /\ file[Key(w)][pos] \in Bytes \cup {Hole}
    BY <1>1, <1>2, <1>3 DEF Texts
  <2>2. /\ Len(job[w].text) + 1 = pos /\ KeepsUp(job[w].key, job[w].text)
        /\ head \in Revisions
    BY <1>1 DEF JobKeepsUp, Keyed, Pcs, Core, TypeOK
  <2> HIDE DEF pos
  <2>3. read \in Texts /\ Len(read) = pos /\ KeepsUp(job[w].key, read)
    BY <1>1, <1>2, <1>3, <2>2, ReadKeepsUp DEF pos
  <2>6. next \in Nat \ {0} /\ Len(read) + 1 = next
    BY <1>2, <2>3 DEF pos
  <2> HIDE DEF read, next
  <2>4. /\ r \in Job(w) /\ r.pc = "read" /\ r.text = read /\ r.rev = job[w].rev
        /\ r.key = job[w].key /\ r.pos = next
    BY <1>1, <1>2, <2>3, <2>6 DEF Job
  <2>5. Good(w, r)
    BY <1>1, <2>3, <2>4, <2>6 DEF Good, JobOK, JobKeepsUp, Keyed, Pcs
  <2> HIDE DEF r
  <2> QED BY <1>1, <1>3, <2>5, QuietInv
<1>4. CASE Step(w, find)
  <2>1. Good(w, find)
    BY <1>1 DEF Good, JobOK, Job, JobKeepsUp, Keyed, Pcs
  <2> HIDE DEF find
  <2> QED BY <1>1, <1>4, <2>1, QuietInv
<1>5. CASE Step(w, down)
  <2>1. none \in Texts /\ one \in Nat \ {0} /\ KeepsUp(job[w].key, none)
    BY <1>1, EmptyKeepsUp DEF Texts, Core, JobKeepsUp, Keyed, Pcs
  <2> HIDE DEF none, one
  <2>2. /\ down \in Job(w) /\ down.pc = "download" /\ down.text = none
        /\ down.rev = job[w].rev /\ down.key = job[w].key
    BY <1>2, <2>1 DEF Job, Pcs
  <2>3. Good(w, down)
    BY <1>1, <2>1, <2>2 DEF Good, JobOK, JobKeepsUp, Keyed, Pcs
  <2> HIDE DEF down
  <2> QED BY <1>1, <1>5, <2>3, QuietInv
<1> QED BY <1>3, <1>4, <1>5 DEF ReadByte, Goto

\* A downloaded list is the current one, and so is no older than the key.
LEMMA DownloadInv ==
  ASSUME Core, NEW w \in Workloads, Download(w)
  PROVE  Core'
<1>1. /\ UNCHANGED <<head, file, manifest>> /\ runs' \in Nat /\ faults' \in Nat
      /\ JobOK(w, job[w]) /\ JobKeepsUp(job[w]) /\ job[w].pc = "download" /\ TypeOK
      /\ job[w].key \in Revisions /\ job[w].key <= head /\ job[w] \in Job(w)
  BY DEF Download, Core, TypeOK, JobsKeepUp, JobKeepsUp, Keyed, NoFault, Fault, FailsWith, At,
         JobOK, Pcs
<1>2. CASE \E why \in {"channelFailed", "decompressFailed"} : Stop(w, why)
  <2>1. {"channelFailed", "decompressFailed"} \subseteq Results
    BY DEF Results
  <2> QED BY <1>1, <1>2, <2>1, StopInv
<1> DEFINE list == Published[head]
           one  == 1
           r    == [job[w] EXCEPT !.pc = "create", !.text = list, !.pos = one]
<1>3. CASE Step(w, r)
  <2>1. list \in Texts
    <3>1. head \in DOMAIN Published
      BY <1>1 DEF TypeOK, Revisions
    <3>2. Published[head] \in Seq(Bytes)
      BY <3>1, TextAssumption
    <3> QED BY <3>2 DEF Texts
  <2>2. KeepsUp(job[w].key, list)
    BY <1>1, CurrentKeepsUp
  <2>3. one \in Nat \ {0}
    OBVIOUS
  <2> HIDE DEF list, one
  <2>4. /\ r \in Job(w) /\ r.pc = "create" /\ r.text = list
        /\ r.rev = job[w].rev /\ r.key = job[w].key
    BY <1>1, <2>1, <2>3 DEF Job, Pcs
  <2>5. Good(w, r)
    BY <1>1, <2>2, <2>4 DEF Good, JobOK, JobKeepsUp, Keyed, Pcs
  <2> HIDE DEF r
  <2> QED BY <1>1, <1>3, <2>5, QuietInv
<1> QED BY <1>2, <1>3 DEF Download, FailsWith

\* fs::write goes on, or is done, with the list it was given.
LEMMA SavingFacts ==
  ASSUME NEW w \in Workloads, NEW r \in Job(w)
  PROVE  /\ Saving(r) \in Job(w) /\ Saving(r).text = r.text /\ Saving(r).rev = r.rev
         /\ Saving(r).key = r.key /\ Saving(r).pc \in {"save", "find"}
         /\ Saving(r).pc = "save" => Saving(r).pos \in DOMAIN r.text
<1> DEFINE pc == IF Saved(r) THEN "find" ELSE "save"
<1>1. pc \in Pcs /\ pc \in {"save", "find"} /\ (pc = "save" => ~Saved(r))
  BY DEF Pcs
<1>2. r.text \in Texts /\ r.pos \in Nat \ {0}
  BY DEF Job
<1>3. ~Saved(r) => r.pos \in DOMAIN r.text
  BY <1>2 DEF Saved, Texts
<1>4. Saving(r) = [r EXCEPT !.pc = pc]
  BY DEF Saving
<1> HIDE DEF pc
<1> QED BY <1>1, <1>3, <1>4 DEF Job

\* Writing to its own cache file, a command writes what is new enough for it.
LEMMA SavingInv ==
  ASSUME Core, NEW w \in Workloads, NEW r \in Job(w), Step(w, Saving(r)),
         UNCHANGED <<head, manifest>>, runs' \in Nat, faults' \in Nat,
         r.text = job[w].text, r.rev = job[w].rev, r.key = job[w].key, job[w].pc \in Keyed,
         NEW written \in Texts, KeepsUp(r.key, written),
         file' = [file EXCEPT ![r.key] = written]
  PROVE  Core'
<1>1. /\ JobOK(w, job[w]) /\ JobKeepsUp(job[w]) /\ r.key \in Revisions /\ r.rev \in Revisions
      /\ DOMAIN file = Revisions
  BY DEF Core, TypeOK, JobsKeepUp, JobOK, Keyed, Pcs
<1>2. /\ file'[r.key] = written /\ written # NoFile /\ DOMAIN file' = Revisions
      /\ \A k \in Revisions \ {r.key} : file'[k] = file[k]
  BY <1>1, FileIsFile
<1>3. job'[w] = Saving(r)
  BY DEF Step, Core, TypeOK
<1> DEFINE s == Saving(r)
<1>4. /\ s \in Job(w) /\ s.text = r.text /\ s.rev = r.rev
      /\ s.key = r.key /\ s.pc \in {"save", "find"}
      /\ s.pc = "save" => s.pos \in DOMAIN r.text
  BY SavingFacts
<1> HIDE DEF s
<1>5. Good(w, job[w])'
  <2>1. s.rev <= s.key /\ s.key <= head /\ KeepsUp(s.key, s.text)
    BY <1>1, <1>4 DEF JobKeepsUp
  <2>2. JobOK(w, job[w])'
    BY <1>1, <1>2, <1>3, <1>4 DEF JobOK, Job, Pcs, CacheKey, s
  <2>3. JobKeepsUp(job[w])'
    BY <1>3, <1>4, <2>1 DEF JobKeepsUp, Keyed, KeepsUp, Since, s
  <2> QED BY <1>3, <1>4, <2>2, <2>3 DEF Good, s
<1>6. \A k \in Revisions : \/ file'[k] = file[k]
                           \/ file'[k] \in Texts /\ KeepsUp(k, file'[k])
  BY <1>2
<1> QED BY <1>2, <1>5, <1>6, StepInv DEF Core, TypeOK

\* Creating the cache file empties it.
LEMMA CreateInv ==
  ASSUME Core, NEW w \in Workloads, Create(w)
  PROVE  Core'
<1>1. /\ head' = head /\ runs' \in Nat /\ faults' \in Nat /\ job[w].pc \in Keyed
      /\ Key(w) = job[w].key /\ job[w] \in Job(w)
  BY DEF Create, Core, TypeOK, NoFault, Fault, FailsWith, At, Keyed, Pcs, Key, CacheKey, JobOK
<1>2. CASE FailsWith(w, "cacheFailed")
  BY <1>1, <1>2, StopInv DEF FailsWith, Results
<1>3. CASE /\ file' = [file EXCEPT ![Key(w)] = << >>] /\ UNCHANGED manifest
           /\ Step(w, Saving(job[w]))
  <2>1. << >> \in Texts /\ KeepsUp(job[w].key, << >>)
    BY <1>1, EmptyKeepsUp DEF Texts, Core, TypeOK, JobsKeepUp, JobKeepsUp, Keyed, JobOK, Pcs
  <2> QED BY <1>1, <1>3, <2>1, SavingInv
<1> QED BY <1>2, <1>3 DEF Create

\* A byte that is saved is the list's, in its place.
LEMMA SaveByteInv ==
  ASSUME Core, NEW w \in Workloads, SaveByte(w)
  PROVE  Core'
<1>1. /\ head' = head /\ runs' \in Nat /\ faults' \in Nat /\ job[w].pc = "save"
      /\ Key(w) = job[w].key /\ JobOK(w, job[w]) /\ JobKeepsUp(job[w])
  BY DEF SaveByte, Core, TypeOK, JobsKeepUp, NoFault, Fault, FailsWith, At, Key, CacheKey
<1>2. CASE FailsWith(w, "cacheFailed")
  BY <1>1, <1>2, StopInv DEF FailsWith, Results
<1> DEFINE pos   == job[w].pos
           next  == job[w].pos + 1
           r     == [job[w] EXCEPT !.pos = next]
           text  == WriteAt(file[Key(w)], pos, job[w].text[pos])
<1>3. CASE /\ file' = [file EXCEPT ![Key(w)] = text] /\ UNCHANGED manifest
           /\ Step(w, Saving(r))
  <2>1. /\ job[w] \in Job(w) /\ pos \in DOMAIN job[w].text /\ job[w].key \in Revisions
        /\ job[w].text \in Texts /\ pos \in Nat \ {0} /\ job[w].pc \in Keyed
        /\ file[Key(w)] # NoFile
    BY <1>1 DEF JobOK, Job, Pcs, Keyed, CacheKey
  <2>2. next \in Nat \ {0}
    BY <2>1
  <2>3. r \in Job(w) /\ r.text = job[w].text /\ r.rev = job[w].rev /\ r.key = job[w].key
    <3> HIDE DEF next
    <3> QED BY <2>1, <2>2 DEF Job
  <2>4. file[Key(w)] \in Texts /\ KeepsUp(job[w].key, file[Key(w)])
    BY <1>1, <2>1 DEF Core, TypeOK, FilesKeepUp
  <2>5. KeepsUp(job[w].key, job[w].text) /\ head \in Revisions
    BY <1>1, <2>1 DEF JobKeepsUp, Core, TypeOK
  <2>6. text \in Texts /\ KeepsUp(job[w].key, text)
    BY <2>1, <2>4, <2>5, <1>1, WriteKeepsUp
  <2> HIDE DEF r, pos
  <2> HIDE DEF text
  <2> QED BY <1>1, <1>3, <2>1, <2>3, <2>6, SavingInv
<1> QED BY <1>2, <1>3 DEF SaveByte

\* What is found is a line of the text, and so no older than the key, which
\* is no older than the revision.
LEMMA FindInv ==
  ASSUME Core, NEW w \in Workloads, Find(w)
  PROVE  Core'
<1>1. /\ UNCHANGED <<head, file, manifest>> /\ runs' \in Nat /\ faults' \in Nat
      /\ JobOK(w, job[w]) /\ JobKeepsUp(job[w]) /\ job[w].pc = "find" /\ TypeOK
  BY DEF Find, Core, TypeOK, JobsKeepUp, NoFault, At
<1>2. CASE Stop(w, "packageNotFound")
  BY <1>1, <1>2, StopInv DEF Results
<1>3. CASE \E found \in Resolutions(job[w].text, w) :
             Step(w, [job[w] EXCEPT !.pc = "open", !.found = found])
  <2>1. PICK found \in Resolutions(job[w].text, w) :
          Step(w, [job[w] EXCEPT !.pc = "open", !.found = found])
    BY <1>3
  <2> DEFINE r == [job[w] EXCEPT !.pc = "open", !.found = found]
  <2>3. /\ job[w].rev \in Revisions /\ job[w].key \in Revisions /\ job[w].rev <= job[w].key
        /\ job[w].key <= head /\ KeepsUp(job[w].key, job[w].text) /\ job[w] \in Job(w)
        /\ job[w].text \in Texts
    BY <1>1 DEF JobOK, JobKeepsUp, Keyed, Pcs, Job
  <2>4. /\ DOMAIN found = NamesOf(w)
        /\ \A name \in NamesOf(w) : found[name] \in Texts /\ PiecedSince(job[w].rev, found[name])
    <3>1. DOMAIN found = NamesOf(w) /\ \A name \in NamesOf(w) : found[name] \in LinesOf(job[w].text)
      BY FoundInText
    <3> QED BY <1>1, <2>3, <3>1, FoundIsPieced
  <2>2. found \in [NamesOf(w) -> Texts]
    <3>1. found = [name \in NamesOf(w) |-> found[name]]
      BY DEF Resolutions
    <3> QED BY <2>4, <3>1
  <2>5. /\ r \in Job(w) /\ r.pc = "open" /\ r.found = found /\ r.text = job[w].text
        /\ r.rev = job[w].rev /\ r.key = job[w].key
    BY <2>2, <2>3 DEF Job, Pcs
  <2>6. Good(w, r)
    BY <2>2, <2>3, <2>4, <2>5 DEF Good, JobOK, JobKeepsUp, Keyed, Pcs
  <2> HIDE DEF r
  <2> QED BY <1>1, <2>1, <2>6, QuietInv DEF r
<1> QED BY <1>2, <1>3 DEF Find

\* The manifest is emptied, and then filled with what was found.
LEMMA ManifestInv ==
  ASSUME Core, NEW w \in Workloads, OpenManifest(w) \/ WriteManifest(w)
  PROVE  Core'
<1>1. /\ UNCHANGED <<head, file>> /\ runs' \in Nat /\ faults' \in Nat
      /\ JobOK(w, job[w]) /\ JobKeepsUp(job[w]) /\ job[w].pc \in {"open", "write"}
      /\ DOMAIN manifest = Workloads /\ DOMAIN file = Revisions
      /\ \A name \in NamesOf(w) : PiecedSince(job[w].rev, job[w].found[name])
  BY DEF OpenManifest, WriteManifest, Core, TypeOK, JobsKeepUp, FoundKeepsUp, NoFault, Fault,
         FailsWith, At
<1>2. CASE FailsWith(w, "manifestFailed")
  BY <1>1, <1>2, StopInv DEF FailsWith, Results
<1> DEFINE r(pc) == [job[w] EXCEPT !.pc = pc]
           m == [rev |-> job[w].rev, packages |-> job[w].found]
<1>3. ASSUME NEW pc \in {"write", "report"}, Step(w, r(pc)), UNCHANGED <<head, file>>
      PROVE  Good(w, job[w])'
  <2>1. Good(w, r(pc))
    BY <1>1 DEF Good, JobOK, Job, JobKeepsUp, Keyed, Pcs
  <2>2. job'[w] = r(pc)
    BY <1>3 DEF Step, Core, TypeOK
  <2> HIDE DEF r
  <2> QED BY <2>1, <2>2, <1>3 DEF Good, JobOK, JobKeepsUp, KeepsUp, Since, PiecedSince
<1>4. m \in Manifests(w) /\ \A name \in NamesOf(w) : PiecedSince(m.rev, m.packages[name])
  BY <1>1 DEF Manifests, JobOK, Pcs
<1>5. CASE manifest' = [manifest EXCEPT ![w] = Torn] /\ Step(w, r("write"))
  <2>1. /\ DOMAIN manifest' = Workloads
        /\ \A v \in Workloads : manifest'[v] = manifest[v] \/ manifest'[v] = Torn
    BY <1>1, <1>5
  <2>2. Good(w, job[w])'
    BY <1>1, <1>3, <1>5
  <2> HIDE DEF r
  <2> QED BY <1>1, <1>5, <2>1, <2>2, StepInv
<1>6. CASE manifest' = [manifest EXCEPT ![w] = m] /\ Step(w, r("report"))
  <2>1. /\ DOMAIN manifest' = Workloads /\ manifest'[w] = m
        /\ \A v \in Workloads \ {w} : manifest'[v] = manifest[v]
    BY <1>1, <1>6
  <2>2. Good(w, job[w])'
    BY <1>1, <1>3, <1>6
  <2> HIDE DEF r, m
  <2> QED BY <1>1, <1>4, <1>6, <2>1, <2>2, StepInv
<1> QED BY <1>2, <1>5, <1>6 DEF OpenManifest, WriteManifest, Goto

\* The end of a command, good or bad.
LEMMA EndInv ==
  ASSUME Core, NEW w \in Workloads, Report(w) \/ Crash(w)
  PROVE  Core'
<1>1. {"ok", "panicked", "crashed"} \subseteq Results
  BY DEF Results
<1> QED BY <1>1, StopInv DEF Report, Crash, Core, TypeOK, NoFault

\* The invariant is inductive.
LEMMA NextInv == Core /\ [Next]_vars => Core'
<1> SUFFICES ASSUME Core, [Next]_vars PROVE Core'
  OBVIOUS
<1>1. CASE UNCHANGED vars
  BY <1>1 DEF vars, Core, TypeOK, JobOK, FilesKeepUp, JobsKeepUp, JobKeepsUp, KeepsUp, Since,
              FoundKeepsUp, NeverOlderThanClaimed, Written, PiecedSince
<1>2. CASE Advance
  BY <1>2, AdvanceInv
<1>3. CASE \E w \in Workloads : Start(w) \/ Work(w) \/ Crash(w)
  BY <1>3, StartInv, FetchRevisionInv, LookupInv, ReadByteInv, DownloadInv, CreateInv,
     SaveByteInv, FindInv, ManifestInv, EndInv DEF Work
<1> QED BY <1>1, <1>2, <1>3 DEF Next

\* In every state files keep up with the revisions they are named for, and
\* commands with the keys they read under.
THEOREM CoreInvariance == Spec => []Core
BY InitInv, NextInv, PTL DEF Spec

\* Every variable keeps its type, for every channel and number of workloads.
THEOREM TypeCorrect == Spec => []TypeOK
<1>1. Core => TypeOK
  BY DEF Core
<1> QED BY <1>1, CoreInvariance, PTL

\* No manifest ever names a newer revision than its paths are from, however
\* many commands share the cache, and wherever they are interrupted.
THEOREM NeverOlder == Spec => []NeverOlderThanClaimed
<1>1. Core => NeverOlderThanClaimed
  BY DEF Core
<1> QED BY <1>1, CoreInvariance, PTL

-----------------------------------------------------------------------------
(* What a command that fails leaves of the manifest *)

Early    == Pcs \ {"idle", "write", "report"}
Failures == {"specFailed", "channelFailed", "decompressFailed", "cacheFailed", "packageNotFound"}

\* Until a command opens its manifest, that is the one it began with.
KeptBy(r, m) ==
  /\ r.pc # "idle" => r.result = "none"
  /\ r.pc \in Early \/ r.result \in Failures => m = r.old

Kept == \A w \in Workloads : KeptBy(job[w], manifest[w])

\* A step of one command that is true to its own manifest is to all of them.
LEMMA KeptStep ==
  ASSUME TypeOK, Kept, NEW w \in Workloads, NEW r, Step(w, r), KeptBy(r, manifest'[w]),
         \A v \in Workloads \ {w} : manifest'[v] = manifest[v]
  PROVE  Kept'
<1>1. DOMAIN job = Workloads
  BY DEF TypeOK
<1>2. job'[w] = r /\ \A v \in Workloads \ {w} : job'[v] = job[v]
  BY <1>1 DEF Step
<1>3. \A v \in Workloads : KeptBy(job'[v], manifest'[v])
  BY <1>2 DEF Kept
<1> QED BY <1>3 DEF Kept

\* A step that leaves the manifests alone.
LEMMA KeptGoes ==
  ASSUME TypeOK, Kept, NEW w \in Workloads, NEW r, Step(w, r), manifest' = manifest,
         job[w].pc \in Early, r.pc \in Early, r.result = job[w].result, r.old = job[w].old
  PROVE  Kept'
<1>1. KeptBy(r, manifest[w])
  BY DEF Kept, KeptBy, Early
<1> QED BY <1>1, KeptStep

\* The end of a command that leaves the manifests alone.
LEMMA KeptStop ==
  ASSUME TypeOK, Kept, NEW w \in Workloads, NEW why \in Results, Stop(w, why), manifest' = manifest,
         job[w].pc # "idle", why \in Failures => job[w].pc \in Early
  PROVE  Kept'
<1> DEFINE r == [job[w] EXCEPT !.pc = "idle", !.result = why]
<1>1. job[w] \in Job(w)
  BY DEF TypeOK, JobOK
<1>2. r.pc = "idle" /\ r.result = why /\ r.old = job[w].old
  BY <1>1 DEF Job
<1>3. KeptBy(job[w], manifest[w])
  BY DEF Kept
<1>4. KeptBy(r, manifest[w])
  BY <1>2, <1>3 DEF KeptBy, Early
<1>5. Step(w, r)
  BY DEF Stop
<1> HIDE DEF r
<1> QED BY <1>4, <1>5, KeptStep

\* Every step leaves the manifests of the other commands, and of those that fail.
LEMMA KeptNext ==
  ASSUME TypeOK, Kept, [Next]_vars
  PROVE  Kept'
<1>1. CASE UNCHANGED vars \/ Advance
  BY <1>1 DEF vars, Advance, Kept
<1>2. ASSUME NEW w \in Workloads, Start(w) \/ Work(w) \/ Crash(w) PROVE Kept'
  <2>0. job[w] \in Job(w) /\ DOMAIN manifest = Workloads /\ KeptBy(job[w], manifest[w])
    BY DEF TypeOK, JobOK, Kept
  <2>1. CASE Start(w)
    <3>1. manifest' = manifest
      BY <2>1 DEF Start
    <3>2. \A r : r \in {[NoJob EXCEPT !.pc = "rev", !.old = manifest[w]],
                        [NoJob EXCEPT !.old = manifest[w], !.result = "specFailed"]}
                 => KeptBy(r, manifest[w])
      BY DEF NoJob, KeptBy, Early, Failures
    <3>3. \E r : Step(w, r) /\ KeptBy(r, manifest[w])
      BY <2>1, <3>2 DEF Start
    <3> QED BY <3>1, <3>3, KeptStep
  <2>2. CASE FetchRevision(w)
    <3>1. manifest' = manifest /\ job[w].pc \in {"rev", "key"}
      BY <2>2 DEF FetchRevision, At
    <3>2. \A r : r \in {[job[w] EXCEPT !.pc = "key", !.rev = head],
                        [job[w] EXCEPT !.pc = "lookup", !.key = head]} =>
            r.pc \in Early /\ r.result = job[w].result /\ r.old = job[w].old
      BY <2>0 DEF Job, Early, Pcs
    <3>3. \/ Stop(w, "channelFailed")
          \/ \E r : Step(w, r) /\ r \in {[job[w] EXCEPT !.pc = "key", !.rev = head],
                                         [job[w] EXCEPT !.pc = "lookup", !.key = head]}
      BY <2>2 DEF FetchRevision, Answers, FailsWith
    <3>4. job[w].pc \in Early /\ "channelFailed" \in Results
      BY <3>1 DEF Early, Pcs, Results
    <3> QED BY <3>1, <3>2, <3>3, <3>4, KeptGoes, KeptStop DEF Early
  <2>3. CASE Lookup(w)
    <3>1. \E pc \in {"read", "download"} : Step(w, [job[w] EXCEPT !.pc = pc])
      BY <2>3 DEF Lookup, Goto
    <3>2. manifest' = manifest /\ job[w].pc \in Early
      BY <2>3 DEF Lookup, At, Early, Pcs
    <3>3. \A pc \in {"read", "download"} :
            /\ [job[w] EXCEPT !.pc = pc].pc \in Early
            /\ [job[w] EXCEPT !.pc = pc].result = job[w].result
            /\ [job[w] EXCEPT !.pc = pc].old = job[w].old
      BY <2>0 DEF Job, Early, Pcs
    <3> QED BY <3>1, <3>2, <3>3, KeptGoes
  <2>4. CASE ReadByte(w)
    <3> DEFINE next == Append(job[w].text, file[Key(w)][job[w].pos])
               after == job[w].pos + 1
    <3>1. manifest' = manifest /\ job[w].pc \in Early /\ job[w].pc = "read"
      BY <2>4 DEF ReadByte, At, Early, Pcs
    <3>2. \/ Step(w, [job[w] EXCEPT !.text = next, !.pos = after])
          \/ Step(w, [job[w] EXCEPT !.pc = "find"])
          \/ Step(w, [job[w] EXCEPT !.pc = "download", !.text = << >>, !.pos = 1])
      BY <2>4 DEF ReadByte, Goto
    <3> HIDE DEF next, after
    <3>3. \A r : r \in {[job[w] EXCEPT !.text = next, !.pos = after], [job[w] EXCEPT !.pc = "find"],
                        [job[w] EXCEPT !.pc = "download", !.text = << >>, !.pos = 1]} =>
            r.pc \in Early /\ r.result = job[w].result /\ r.old = job[w].old
      BY <2>0, <3>1 DEF Job, Early, Pcs
    <3>4. \E r : Step(w, r) /\ r.pc \in Early /\ r.result = job[w].result /\ r.old = job[w].old
      BY <3>2, <3>3
    <3> QED BY <3>1, <3>4, KeptGoes
  <2>5. CASE Download(w)
    <3>1. manifest' = manifest /\ job[w].pc \in Early
      BY <2>5 DEF Download, FailsWith, At, Early, Pcs
    <3>2. \/ \E why \in {"channelFailed", "decompressFailed"} : Stop(w, why)
          \/ Step(w, [job[w] EXCEPT !.pc = "create", !.text = Published[head], !.pos = 1])
      BY <2>5 DEF Download, FailsWith
    <3>3. ASSUME NEW r, r = [job[w] EXCEPT !.pc = "create", !.text = Published[head], !.pos = 1]
          PROVE  r.pc \in Early /\ r.result = job[w].result /\ r.old = job[w].old
      BY <2>0, <3>3 DEF Job, Early, Pcs
    <3> QED BY <3>1, <3>2, <3>3, KeptGoes, KeptStop DEF Early, Results
  <2>6. CASE Create(w) \/ SaveByte(w)
    <3>1. manifest' = manifest /\ job[w].pc \in Early
      BY <2>6 DEF Create, SaveByte, FailsWith, At, Early, Pcs
    <3>2. \A j \in Job(w) : Saving(j).pc \in Early /\ Saving(j).result = j.result /\ Saving(j).old = j.old
      BY DEF Job, Early, Pcs, Saving
    <3>3. [job[w] EXCEPT !.pos = job[w].pos + 1] \in Job(w)
          /\ [job[w] EXCEPT !.pos = job[w].pos + 1].result = job[w].result
          /\ [job[w] EXCEPT !.pos = job[w].pos + 1].old = job[w].old
      BY <2>0 DEF Job
    <3>4. \/ Stop(w, "cacheFailed")
          \/ Step(w, Saving(job[w])) \/ Step(w, Saving([job[w] EXCEPT !.pos = job[w].pos + 1]))
      BY <2>6 DEF Create, SaveByte, FailsWith
    <3>5. \/ Stop(w, "cacheFailed")
          \/ \E r : Step(w, r) /\ r.pc \in Early /\ r.result = job[w].result /\ r.old = job[w].old
      <4> DEFINE next == [job[w] EXCEPT !.pos = job[w].pos + 1]
      <4>1. /\ Saving(next).pc \in Early
            /\ Saving(next).result = job[w].result /\ Saving(next).old = job[w].old
        BY <3>2, <3>3
      <4>2. /\ Saving(job[w]).pc \in Early
            /\ Saving(job[w]).result = job[w].result /\ Saving(job[w]).old = job[w].old
        BY <2>0, <3>2
      <4> HIDE DEF next
      <4>3. Stop(w, "cacheFailed") \/ Step(w, Saving(job[w])) \/ Step(w, Saving(next))
        BY <3>4 DEF next
      <4> QED BY <4>1, <4>2, <4>3
    <3> QED BY <3>1, <3>5, KeptGoes, KeptStop DEF Early, Results
  <2>7. CASE Find(w)
    <3>1. manifest' = manifest /\ job[w].pc \in Early
      BY <2>7 DEF Find, At, Early, Pcs
    <3>2. \/ Stop(w, "packageNotFound")
          \/ \E found : Step(w, [job[w] EXCEPT !.pc = "open", !.found = found])
      BY <2>7 DEF Find
    <3>3. ASSUME NEW found, NEW r, r = [job[w] EXCEPT !.pc = "open", !.found = found]
          PROVE  r.pc \in Early /\ r.result = job[w].result /\ r.old = job[w].old
      BY <2>0, <3>3 DEF Job, Early, Pcs
    <3> QED BY <3>1, <3>2, <3>3, KeptGoes, KeptStop DEF Early, Results
  <2>8. CASE OpenManifest(w) \/ WriteManifest(w)
    <3>1. job[w].pc \in {"open", "write"} /\ job[w].result = "none"
          /\ \A v \in Workloads \ {w} : manifest'[v] = manifest[v]
      BY <2>0, <2>8 DEF OpenManifest, WriteManifest, FailsWith, At, KeptBy
    <3>2. \A pc \in {"write", "report"} : \A m : KeptBy([job[w] EXCEPT !.pc = pc], m)
      BY <2>0, <3>1 DEF Job, KeptBy, Early, Failures
    <3>3. \/ Stop(w, "manifestFailed") /\ manifest' = manifest
          \/ \E pc \in {"write", "report"} : Step(w, [job[w] EXCEPT !.pc = pc])
      BY <2>8 DEF OpenManifest, WriteManifest, FailsWith, Goto
    <3>4. "manifestFailed" \in Results \ Failures
      BY DEF Results, Failures
    <3> QED BY <3>1, <3>2, <3>3, <3>4, KeptStep, KeptStop
  <2>9. CASE Report(w) \/ Crash(w)
    <3>1. manifest' = manifest /\ job[w].pc # "idle"
      BY <2>9 DEF Report, Crash, At
    <3>2. \E why \in {"ok", "panicked", "crashed"} : Stop(w, why)
      BY <2>9 DEF Report, Crash
    <3>3. {"ok", "panicked", "crashed"} \subseteq Results \ Failures
      BY DEF Results, Failures
    <3> QED BY <3>1, <3>2, <3>3, KeptStop
  <2> QED BY <1>2, <2>1, <2>2, <2>3, <2>4, <2>5, <2>6, <2>7, <2>8, <2>9 DEF Work
<1> QED BY <1>1, <1>2 DEF Next

\* A command that fails before it opens its manifest leaves it as it was, for
\* every channel, cache and number of workloads.
THEOREM FailureKeeps == Spec => []FailureKeepsManifest
<1>1. Init => Kept
  <2>1. NoJob.pc = "idle" /\ NoJob.result = "none"
    BY DEF NoJob
  <2> QED BY <2>1 DEF Init, Kept, KeptBy, Early, Failures
<1>2. Core => TypeOK
  BY DEF Core
<1>3. Kept => FailureKeepsManifest
  BY DEF Kept, KeptBy, Failures, FailureKeepsManifest
<1> QED BY <1>1, <1>2, <1>3, CoreInvariance, KeptNext, PTL DEF Spec

-----------------------------------------------------------------------------
(* What a command concludes, it concludes from one list *)

\* All of a list is the list.
LEMMA FirstOfAll ==
  ASSUME NEW a \in Texts, NEW b \in Texts, NEW n \in Nat, FirstOf(a, b, n), n >= Len(b)
  PROVE  a = b
<1>1. Len(a) = Len(b) /\ \A i \in 1 .. Len(a) : a[i] = b[i]
  BY DEF FirstOf, Texts
<1> QED BY <1>1, SeqEqual DEF Texts

\* A byte is appended: to those read, or to those written.
LEMMA FirstOfNext ==
  ASSUME NEW a \in Texts, NEW b \in Texts, NEW n \in Nat, FirstOf(a, b, n), n < Len(b)
  PROVE  /\ FirstOf(Append(a, b[n + 1]), b, n + 1)
         /\ FirstOf(WriteAt(a, n + 1, b[n + 1]), b, n + 1)
<1>1. Len(a) = n /\ Len(b) \in Nat /\ \A i \in 1 .. n : a[i] = b[i]
  BY DEF FirstOf, Texts
<1>2. FirstOf(Append(a, b[n + 1]), b, n + 1)
  BY <1>1 DEF FirstOf, Texts
<1> DEFINE c == WriteAt(a, n + 1, b[n + 1])
<1>3. c = [k \in 1 .. (n + 1) |-> IF k = n + 1 THEN b[n + 1] ELSE a[k]]
  <2>1. DOMAIN a = 1 .. n /\ n + 1 > Len(a)
    BY <1>1 DEF Texts
  <2> QED BY <1>1, <2>1 DEF WriteAt
<1>4. DOMAIN c = 1 .. (n + 1) /\ \A i \in 1 .. (n + 1) : c[i] = b[i]
  BY <1>1, <1>3
<1>5. c \in Texts
  <2>1. b[n + 1] \in Bytes \cup {Hole}
    BY <1>1 DEF Texts
  <2> QED BY <1>1, <2>1, WriteAtType DEF WrittenOver
<1>6. Len(c) = n + 1
  BY <1>4, <1>5 DEF Texts
<1> QED BY <1>1, <1>2, <1>4, <1>6 DEF FirstOf

OneListOf(w, r) ==
  \E q \in r.rev .. head :
    \/ r.found \in Resolutions(Published[q], w)
    \/ r.result = "packageNotFound" /\ Resolutions(Published[q], w) = {}

\* What ConclusionsFromOneList says of a record.
Concludes(w, r) ==
  r.pc \in {"open", "write", "report"} \/ r.result \in {"ok", "packageNotFound"} =>
    OneListOf(w, r) \/ CacheKey(r.key) \in unsafe

\* The property, record by record.
LEMMA ConclusionsByRecord ==
  ConclusionsFromOneList <=> \A w \in Workloads : Concludes(w, job[w])
BY DEF ConclusionsFromOneList, Concludes, OneList, OneListOf, Key

\* Step replaces one record, and knows the files that became unsafe.
LEMMA StepFrame ==
  ASSUME TypeOK, NEW w \in Workloads, NEW r, Step(w, r)
  PROVE  /\ job'[w] = r /\ \A v \in Workloads \ {w} : job'[v] = job[v]
         /\ unsafe \subseteq unsafe' /\ ContentionIsKnown'
         /\ At(w, "save") /\ r.pc = "idle" => Key(w) \in unsafe'
<1>1. job'[w] = r /\ \A v \in Workloads \ {w} : job'[v] = job[v]
  BY DEF TypeOK, Step
<1>2. Contended' \subseteq unsafe' /\ unsafe \subseteq unsafe'
  BY DEF Step
<1>3. ContentionIsKnown'
  BY <1>2 DEF ContentionIsKnown, Contended, At, Key
<1> QED BY <1>1, <1>2, <1>3 DEF Step

\* A step that touches no cache file.
LEMMA ListQuiet ==
  ASSUME TypeOK, ListsAreWhole, NEW w \in Workloads, NEW r, Step(w, r), UNCHANGED <<head, file>>,
         WholeJob(r), Concludes(w, r), At(w, "save") => r.pc = "idle"
  PROVE  ListsAreWhole'
<1>1. /\ job'[w] = r /\ \A v \in Workloads \ {w} : job'[v] = job[v]
      /\ unsafe \subseteq unsafe' /\ ContentionIsKnown'
      /\ At(w, "save") /\ r.pc = "idle" => Key(w) \in unsafe'
  BY StepFrame
<1>2. \A v \in Workloads : WholeJob(job'[v]) /\ Concludes(v, job'[v])
  BY <1>1, ConclusionsByRecord DEF ListsAreWhole
<1>3. \A v \in Workloads : WholeJob(job[v])'
  BY <1>1, <1>2 DEF WholeJob, WholeSince
<1>4. ConclusionsFromOneList'
  BY <1>1, <1>2 DEF ConclusionsFromOneList, Concludes, OneList, OneListOf, Key
<1>5. FilesAreWhole'
  <2> SUFFICES ASSUME NEW k \in Revisions \ unsafe', file[k] # NoFile
               PROVE  WholeSince(k, file[k]) \/ \E v \in Workloads : (At(v, "save") /\ Key(v) = k)'
    BY DEF FilesAreWhole, WholeSince
  <2>1. CASE WholeSince(k, file[k])
    BY <2>1
  <2>2. CASE \E v \in Workloads : At(v, "save") /\ Key(v) = k
    <3> PICK v \in Workloads : At(v, "save") /\ Key(v) = k
      BY <2>2
    <3>1. v # w
      BY <1>1
    <3> QED BY <1>1, <3>1 DEF At, Key
  <2> QED BY <1>1, <2>1, <2>2 DEF ListsAreWhole, FilesAreWhole
<1> QED BY <1>1, <1>3, <1>4, <1>5 DEF ListsAreWhole

\* A command that stops without a conclusion.
LEMMA ListStop ==
  ASSUME TypeOK, ListsAreWhole, NEW w \in Workloads, NEW why, Stop(w, why), UNCHANGED <<head, file>>,
         why \notin {"ok", "packageNotFound"}
  PROVE  ListsAreWhole'
<1> DEFINE r == [job[w] EXCEPT !.pc = "idle", !.result = why]
<1>1. r.pc = "idle" /\ r.result = why
  BY DEF TypeOK, JobOK, Job
<1>2. Step(w, r)
  BY DEF Stop
<1> HIDE DEF r
<1>3. WholeJob(r) /\ Concludes(w, r)
  BY <1>1 DEF WholeJob, Concludes
<1> QED BY <1>1, <1>2, <1>3, ListQuiet

\* A new list of the channel takes nothing from the old ones.
LEMMA ListAdvance ==
  ASSUME TypeOK, JobsKeepUp, ListsAreWhole, Advance
  PROVE  ListsAreWhole'
<1>1. /\ UNCHANGED <<file, job, unsafe>> /\ head \in Nat /\ head' = head + 1
  BY TextAssumption DEF Advance, TypeOK, Revisions
<1>2. \A a, b : b \in a .. head => b \in a .. head'
  BY <1>1
<1>3. \A k, list : WholeSince(k, list) => WholeSince(k, list)'
  BY <1>2 DEF WholeSince
<1>4. \A w \in Workloads : WholeJob(job[w])'
  BY <1>1, <1>3 DEF ListsAreWhole, WholeJob
<1>5. FilesAreWhole' /\ ContentionIsKnown'
  BY <1>1, <1>3 DEF ListsAreWhole, FilesAreWhole, ContentionIsKnown, At, Key
<1>6. ConclusionsFromOneList'
  BY <1>1, <1>2 DEF ListsAreWhole, ConclusionsFromOneList, OneList, Key
<1> QED BY <1>4, <1>5, <1>6 DEF ListsAreWhole

\* A command writes its cache file: nobody else may be at it unnoticed.
LEMMA ListSaving ==
  ASSUME TypeOK, ListsAreWhole, NEW w \in Workloads, NEW r \in Job(w), Step(w, Saving(r)), UNCHANGED head,
         job[w].pc \in {"create", "save"}, job[w].key \in Revisions,
         r.key = job[w].key, r.text = job[w].text, r.result = job[w].result,
         NEW written \in Texts, file' = [file EXCEPT ![Key(w)] = written],
         job[w].pc = "create" => r.pos = 1,
         Key(w) \notin unsafe => FirstOf(written, r.text, r.pos - 1)
  PROVE  ListsAreWhole'
<1> DEFINE s == Saving(r)
           k == Key(w)
<1>1. /\ job'[w] = s /\ \A v \in Workloads \ {w} : job'[v] = job[v]
      /\ unsafe \subseteq unsafe' /\ ContentionIsKnown'
  BY StepFrame
<1>2. /\ s.text = r.text /\ s.key = r.key /\ s.pc \in {"save", "find"}
      /\ s.pos = r.pos /\ s.result = r.result
      /\ s.pc = "find" <=> r.pos > Len(r.text)
  <2> DEFINE pc == IF Saved(r) THEN "find" ELSE "save"
  <2>1. s = [r EXCEPT !.pc = pc] /\ pc \in {"save", "find"} /\ (pc = "find" <=> r.pos > Len(r.text))
    BY DEF Saving, Saved
  <2> HIDE DEF pc
  <2> QED BY <2>1 DEF Job
<1>3. /\ k \in Revisions /\ k = job[w].key /\ CacheKey(s.key) = k /\ DOMAIN file = Revisions
      /\ r.text \in Texts /\ Len(r.text) \in Nat /\ r.pos \in Nat \ {0}
      /\ WholeJob(job[w])
  BY <1>2 DEF Key, CacheKey, TypeOK, Job, Texts, ListsAreWhole
<1>4. /\ file'[k] = written /\ written # NoFile
      /\ \A x \in Revisions \ {k} : file'[x] = file[x]
  BY <1>3, FileIsFile
<1> HIDE DEF s
<1>5. k \notin unsafe => WholeSince(k, r.text)
  BY <1>3 DEF WholeJob, Key
<1>6. k \notin unsafe /\ s.pc = "find" => written = r.text /\ job[w].pc = "save"
  <2> SUFFICES ASSUME k \notin unsafe, s.pc = "find" PROVE written = r.text /\ job[w].pc = "save"
    OBVIOUS
  <2>1. FirstOf(written, r.text, r.pos - 1) /\ r.pos - 1 \in Nat /\ r.pos - 1 >= Len(r.text)
    BY <1>2, <1>3
  <2>2. written = r.text
    BY <1>3, <2>1, FirstOfAll
  <2>3. r.text # << >>
    <3>1. Revisions = 1 .. Len(Published) /\ Len(Published) \in Nat
      BY TextAssumption DEF Revisions
    <3>2. PICK q \in k .. head : r.text = Published[q]
      BY <1>5 DEF WholeSince
    <3>3. q \in DOMAIN Published
      BY <1>3, <3>1 DEF TypeOK, Revisions
    <3> QED BY <3>2, <3>3, ListAssumption
  <2>4. r.pos # 1
    BY <1>3, <2>1, <2>3 DEF Texts
  <2> QED BY <2>2, <2>4
<1>7. ASSUME NEW v \in Workloads \ {w}, job[v].pc \in {"save", "read"}, Key(v) = k PROVE k \in unsafe'
  <2>1. CASE s.pc = "save"
    <3>1. (At(w, "save") /\ job[v].pc \in {"save", "read"} /\ Key(v) = Key(w))'
      BY <1>1, <1>2, <1>3, <1>7, <2>1 DEF At, Key
    <3>2. Key(w)' \in unsafe'
      BY <1>1, <3>1 DEF ContentionIsKnown
    <3> QED BY <1>1, <1>3, <3>2 DEF Key
  <2>2. CASE s.pc = "find" /\ k \notin unsafe
    <3>1. At(w, "save")
      BY <1>6, <2>2 DEF At
    <3> QED BY <1>1, <1>7, <3>1 DEF ListsAreWhole, ContentionIsKnown
  <2> QED BY <1>1, <1>2, <2>1, <2>2
<1>8. \A v \in Workloads : WholeJob(job[v])'
  <2> SUFFICES ASSUME NEW v \in Workloads PROVE WholeJob(job[v])'
    OBVIOUS
  <2>1. CASE v # w
    <3>1. WholeJob(job[v]) /\ job'[v] = job[v]
      BY <1>1, <2>1 DEF ListsAreWhole
    <3>2. job[v].pc \in {"save", "read"} /\ CacheKey(job[v].key) \notin unsafe' =>
            file'[CacheKey(job[v].key)] = file[CacheKey(job[v].key)]
      <4>1. job[v].pc \in {"save", "read"} => CacheKey(job[v].key) \in Revisions
        BY DEF TypeOK, JobOK, CacheKey, Pcs
      <4> QED BY <1>4, <1>7, <2>1, <4>1 DEF Key
    <3> QED BY <1>1, <3>1, <3>2 DEF WholeJob, WholeSince
  <2>2. CASE v = w
    <3>1. r.result = "none"
      BY <1>3 DEF WholeJob
    <3>2. k \notin unsafe' => WholeSince(k, s.text) /\ FirstOf(written, s.text, s.pos - 1)
      BY <1>1, <1>2, <1>5
    <3> QED BY <1>1, <1>2, <1>3, <1>4, <2>2, <3>1, <3>2 DEF WholeJob, WholeSince, CacheKey
  <2> QED BY <2>1, <2>2
<1>9. ConclusionsFromOneList'
  <2>1. \A v \in Workloads : Concludes(v, job'[v])
    <3>1. Concludes(w, s)
      BY <1>2, <1>3 DEF Concludes, WholeJob
    <3> QED BY <1>1, <3>1, ConclusionsByRecord DEF ListsAreWhole
  <2> QED BY <1>1, <2>1 DEF ConclusionsFromOneList, Concludes, OneList, OneListOf, Key
<1>10. FilesAreWhole'
  <2> SUFFICES ASSUME NEW x \in Revisions \ unsafe', file'[x] # NoFile
               PROVE  WholeSince(x, file'[x]) \/ \E v \in Workloads : (At(v, "save") /\ Key(v) = x)'
    BY DEF FilesAreWhole, WholeSince
  <2>1. CASE x = k
    <3>1. CASE s.pc = "save"
      BY <1>1, <1>3, <2>1, <3>1 DEF At, Key
    <3>2. CASE s.pc = "find"
      BY <1>1, <1>4, <1>5, <1>6, <2>1, <3>2
    <3> QED BY <1>2, <3>1, <3>2
  <2>2. CASE x # k
    <3>1. file'[x] = file[x] /\ x \notin unsafe
      BY <1>1, <1>4, <2>2
    <3>2. CASE WholeSince(x, file[x])
      BY <3>1, <3>2
    <3>3. CASE \E v \in Workloads : At(v, "save") /\ Key(v) = x
      <4> PICK v \in Workloads : At(v, "save") /\ Key(v) = x
        BY <3>3
      <4>1. v # w
        BY <2>2
      <4> QED BY <1>1, <4>1 DEF At, Key
    <3> QED BY <3>1, <3>2, <3>3 DEF ListsAreWhole, FilesAreWhole
  <2> QED BY <2>1, <2>2
<1> QED BY <1>1, <1>8, <1>9, <1>10 DEF ListsAreWhole

\* No action of a command breaks a list unnoticed, or concludes from a broken one.
LEMMA ListWork ==
  ASSUME Core, ListsAreWhole, NEW w \in Workloads, Start(w) \/ Work(w) \/ Crash(w)
  PROVE  ListsAreWhole'
<1> DEFINE j == job[w]
<1>1. TypeOK /\ JobOK(w, j) /\ j \in Job(w) /\ JobKeepsUp(j)
  BY DEF Core, TypeOK, JobOK, JobsKeepUp
<1>2. WholeJob(j) /\ Concludes(w, j)
  BY ConclusionsByRecord DEF ListsAreWhole
<1>3. ASSUME NEW pc \in {"read", "download", "find", "write", "report"}, Goto(w, pc), UNCHANGED <<head, file>>,
             WholeJob([j EXCEPT !.pc = pc]), Concludes(w, [j EXCEPT !.pc = pc]), j.pc # "save"
      PROVE  ListsAreWhole'
  BY <1>1, <1>3, ListQuiet DEF Goto, At
<1>4. CASE Start(w)
  <2>1. \E r : /\ Step(w, r) /\ r \in {[NoJob EXCEPT !.pc = "rev", !.old = manifest[w]],
                                      [NoJob EXCEPT !.old = manifest[w], !.result = "specFailed"]}
    BY <1>4 DEF Start
  <2>2. ASSUME NEW r, r \in {[NoJob EXCEPT !.pc = "rev", !.old = manifest[w]],
                             [NoJob EXCEPT !.old = manifest[w], !.result = "specFailed"]}
        PROVE  WholeJob(r) /\ Concludes(w, r)
    <3>1. \/ r.pc = "rev" /\ r.result = "none" /\ r.text = << >> /\ r.pos = 1
          \/ r.pc = "idle" /\ r.result = "specFailed"
      BY <2>2 DEF NoJob
    <3> QED BY <3>1 DEF WholeJob, Concludes
  <2>3. UNCHANGED <<head, file>> /\ ~At(w, "save")
    BY <1>4 DEF Start, At
  <2> QED BY <1>1, <2>1, <2>2, <2>3, ListQuiet
<1>5. CASE FetchRevision(w)
  <2>1. UNCHANGED <<head, file>> /\ j.pc \in {"rev", "key"}
    BY <1>5 DEF FetchRevision, FailsWith, At
  <2>2. ASSUME NEW r, r \in {[j EXCEPT !.pc = "key", !.rev = head], [j EXCEPT !.pc = "lookup", !.key = head]}
        PROVE  WholeJob(r) /\ Concludes(w, r)
    <3>1. r.pc \in {"key", "lookup"} /\ r.result = j.result /\ r.text = j.text /\ r.pos = j.pos
      BY <1>1, <2>2 DEF Job
    <3> QED BY <1>2, <2>1, <3>1 DEF WholeJob, Concludes
  <2>3. \/ Stop(w, "channelFailed")
        \/ \E r : Step(w, r) /\ r \in {[j EXCEPT !.pc = "key", !.rev = head],
                                       [j EXCEPT !.pc = "lookup", !.key = head]}
    BY <1>5 DEF FetchRevision, Answers, FailsWith
  <2>4. j.pc # "save"
    BY <2>1
  <2> HIDE DEF j
  <2>5. CASE \E r : Step(w, r) /\ r \in {[j EXCEPT !.pc = "key", !.rev = head],
                                         [j EXCEPT !.pc = "lookup", !.key = head]}
    BY <1>1, <2>1, <2>2, <2>4, <2>5, ListQuiet DEF At, j
  <2> QED BY <1>1, <2>1, <2>3, <2>5, ListStop DEF ListsAreWhole
<1>6. CASE Lookup(w)
  <2>1. UNCHANGED <<head, file>> /\ j.pc = "lookup"
    BY <1>6 DEF Lookup, At
  <2>2. j.key \in Revisions /\ Key(w) = j.key /\ j.text = << >> /\ j.pos = 1 /\ j.result = "none"
    BY <1>1, <1>2, <2>1 DEF WholeJob, JobOK, JobKeepsUp, Pcs, Key, CacheKey
  <2>3. ASSUME NEW pc \in {"read", "download"}, pc = "read" => file[Key(w)] # NoFile
        PROVE  WholeJob([j EXCEPT !.pc = pc]) /\ Concludes(w, [j EXCEPT !.pc = pc])
    <3> DEFINE r == [j EXCEPT !.pc = pc]
    <3>1. /\ r.pc = pc /\ r.text = << >> /\ r.pos = 1 /\ r.result = "none" /\ r.key = j.key
      BY <1>1, <2>2 DEF Job
    <3>2. pc = "read" => Len(file[Key(w)]) \in Nat
      BY <1>1, <2>2, <2>3 DEF TypeOK, Texts
    <3> HIDE DEF r
    <3>3. WholeJob(r) /\ Concludes(w, r)
      BY <2>2, <3>1, <3>2 DEF WholeJob, Concludes, FirstOf, Key
    <3> QED BY <3>3 DEF r
  <2> QED BY <1>3, <1>6, <2>1, <2>3 DEF Lookup
<1>7. CASE Download(w)
  <2>1. UNCHANGED <<head, file>> /\ j.pc = "download"
    BY <1>7 DEF Download, FailsWith, At
  <2> DEFINE list == Published[head]
             one  == 1
             r    == [j EXCEPT !.pc = "create", !.text = list, !.pos = one]
  <2>2. CASE Step(w, r)
    <3>1. one = 1
      OBVIOUS
    <3>2. WholeSince(j.key, list)
      <4>1. j.key \in Revisions /\ j.key <= head /\ head \in Revisions
        BY <1>1, <2>1 DEF JobOK, JobKeepsUp, Keyed, Pcs, TypeOK
      <4>2. head \in j.key .. head
        BY <4>1, TextAssumption DEF Revisions
      <4> QED BY <4>2 DEF WholeSince
    <3> HIDE DEF one, list
    <3>3. /\ r.pc = "create" /\ r.text = list /\ r.pos = one /\ r.key = j.key /\ r.result = j.result
      BY <1>1 DEF Job
    <3> HIDE DEF r
    <3>4. WholeJob(r) /\ Concludes(w, r)
      BY <1>2, <2>1, <3>1, <3>2, <3>3 DEF WholeJob, Concludes
    <3> QED BY <1>1, <2>1, <2>2, <3>4, ListQuiet DEF At
  <2>3. CASE \E why \in {"channelFailed", "decompressFailed"} : Stop(w, why)
    BY <1>1, <2>1, <2>3, ListStop
  <2> QED BY <1>7, <2>2, <2>3 DEF Download, FailsWith
<1>8. CASE ReadByte(w)
  <2>1. /\ UNCHANGED <<head, file>> /\ j.pc = "read" /\ j.key \in Revisions /\ Key(w) = j.key
        /\ file[Key(w)] \in Texts /\ file[Key(w)] # NoFile /\ Len(file[Key(w)]) \in Nat
        /\ j.text \in Texts /\ j.pos \in Nat \ {0} /\ j.result = "none"
    BY <1>1, <1>2, <1>8 DEF ReadByte, At, Key, CacheKey, JobOK, Pcs, TypeOK, Texts, Job, WholeJob
  <2> DEFINE n    == j.pos - 1
             list == Append(j.text, file[Key(w)][j.pos])
             next == j.pos + 1
             r    == [j EXCEPT !.text = list, !.pos = next]
             none == << >>
             one  == 1
             down == [j EXCEPT !.pc = "download", !.text = none, !.pos = one]
             find == [j EXCEPT !.pc = "find"]
  <2>2. n \in Nat /\ n + 1 = j.pos /\ next - 1 = n + 1
    BY <2>1
  <2>3. Key(w) \notin unsafe => FirstOf(j.text, file[Key(w)], n)
    BY <1>2, <2>1 DEF WholeJob, CacheKey
  <2>4. CASE j.pos <= Len(file[Key(w)]) /\ Step(w, r)
    <3>1. Key(w) \notin unsafe => FirstOf(list, file[Key(w)], next - 1)
      BY <2>1, <2>2, <2>3, <2>4, FirstOfNext
    <3> HIDE DEF list, next
    <3>2. /\ r.pc = "read" /\ r.text = list /\ r.pos = next /\ r.key = j.key /\ r.result = j.result
      BY <1>1, <2>1 DEF Job
    <3> HIDE DEF r
    <3>3. WholeJob(r) /\ Concludes(w, r)
      BY <2>1, <3>1, <3>2 DEF WholeJob, Concludes, CacheKey
    <3> QED BY <1>1, <2>1, <2>4, <3>3, ListQuiet DEF At
  <2>5. CASE j.pos > Len(file[Key(w)]) /\ Step(w, find)
    <3>1. /\ find.pc = "find" /\ find.text = j.text /\ find.key = j.key /\ find.result = j.result
      BY <1>1 DEF Job
    <3>2. Key(w) \notin unsafe => WholeSince(Key(w), j.text)
      <4> SUFFICES ASSUME Key(w) \notin unsafe PROVE WholeSince(Key(w), j.text)
        OBVIOUS
      <4>1. j.text = file[Key(w)]
        <5> DEFINE read == j.text
                   all  == file[Key(w)]
        <5>1. read \in Texts /\ all \in Texts
          BY <2>1
        <5>2. n \in Nat /\ FirstOf(read, all, n)
          BY <2>2, <2>3
        <5>3. n >= Len(all)
          BY <2>1, <2>2, <2>5
        <5> HIDE DEF read, all, n
        <5>4. read = all
          BY <5>1, <5>2, <5>3, FirstOfAll
        <5> QED BY <5>4 DEF read, all
      <4>2. ~ \E v \in Workloads : At(v, "save") /\ Key(v) = Key(w)
        BY <2>1 DEF ListsAreWhole, ContentionIsKnown, At
      <4>3. WholeSince(Key(w), file[Key(w)])
        BY <2>1, <4>2 DEF ListsAreWhole, FilesAreWhole
      <4> QED BY <4>1, <4>3
    <3> HIDE DEF find
    <3>3. WholeJob(find) /\ Concludes(w, find)
      BY <2>1, <3>1, <3>2 DEF WholeJob, Concludes, CacheKey
    <3> QED BY <1>1, <2>1, <2>5, <3>3, ListQuiet DEF At
  <2>6. CASE Step(w, down)
    <3> HIDE DEF none, one
    <3>1. down.pc = "download" /\ down.result = j.result
      BY <1>1 DEF Job
    <3> HIDE DEF down
    <3>2. WholeJob(down) /\ Concludes(w, down)
      BY <2>1, <3>1 DEF WholeJob, Concludes
    <3> QED BY <1>1, <2>1, <2>6, <3>2, ListQuiet DEF At
  <2> QED BY <1>8, <2>4, <2>5, <2>6 DEF ReadByte, Goto
<1>9. CASE Create(w)
  <2>1. /\ UNCHANGED head /\ j.pc = "create" /\ j.key \in Revisions /\ j.pos = 1
        /\ << >> \in Texts /\ j.text \in Texts
    BY <1>1, <1>2, <1>9 DEF Create, FailsWith, At, JobOK, Pcs, WholeJob, Texts, Job
  <2>2. CASE file' = [file EXCEPT ![Key(w)] = << >>] /\ Step(w, Saving(j))
    <3>1. FirstOf(<< >>, j.text, j.pos - 1)
      BY <2>1 DEF FirstOf, Texts
    <3> QED BY <1>1, <2>1, <2>2, <3>1, ListSaving DEF ListsAreWhole
  <2>3. CASE FailsWith(w, "cacheFailed")
    BY <1>1, <2>1, <2>3, ListStop DEF FailsWith
  <2> QED BY <1>9, <2>2, <2>3 DEF Create
<1>10. CASE SaveByte(w)
  <2>1. /\ UNCHANGED head /\ j.pc = "save" /\ j.key \in Revisions /\ Key(w) = j.key
        /\ j.pos \in DOMAIN j.text /\ j.text \in Texts /\ j.pos \in Nat \ {0}
        /\ file[Key(w)] \in Texts
    BY <1>1, <1>10 DEF SaveByte, FailsWith, At, JobOK, Pcs, Key, CacheKey, Job, TypeOK
  <2> DEFINE n     == j.pos - 1
             next  == j.pos + 1
             r     == [j EXCEPT !.pos = next]
             written == WriteAt(file[Key(w)], j.pos, j.text[j.pos])
  <2>2. CASE file' = [file EXCEPT ![Key(w)] = written] /\ Step(w, Saving(r))
    <3>0. /\ Len(j.text) \in Nat /\ j.pos \in 1 .. Len(j.text)
          /\ j.text[j.pos] \in Bytes \cup {Hole}
      BY <2>1 DEF Texts
    <3>1. /\ n \in Nat /\ n + 1 = j.pos /\ n < Len(j.text) /\ next - 1 = n + 1
          /\ next \in Nat \ {0} /\ j.text[j.pos] \in Bytes \cup {Hole}
      BY <3>0
    <3>2. Key(w) \notin unsafe => FirstOf(file[Key(w)], j.text, n)
      BY <1>2, <2>1 DEF WholeJob, CacheKey
    <3>3. Key(w) \notin unsafe => FirstOf(written, j.text, next - 1)
      BY <2>1, <3>1, <3>2, FirstOfNext
    <3>4. written \in Texts
      BY <2>1, <3>1, WriteAtType DEF WrittenOver
    <3> HIDE DEF next, written
    <3>5. /\ r \in Job(w) /\ r.key = j.key /\ r.text = j.text /\ r.result = j.result /\ r.pos = next
      BY <1>1, <3>1 DEF Job
    <3> HIDE DEF r
    <3> QED BY <1>1, <2>1, <2>2, <3>3, <3>4, <3>5, ListSaving
  <2>3. CASE FailsWith(w, "cacheFailed")
    BY <1>1, <2>1, <2>3, ListStop DEF FailsWith
  <2> QED BY <1>10, <2>2, <2>3 DEF SaveByte
<1>11. CASE Find(w)
  <2>1. /\ UNCHANGED <<head, file>> /\ j.pc = "find" /\ j.result = "none"
        /\ j.rev \in Revisions /\ j.key \in Revisions /\ j.rev <= j.key /\ j.key <= head
    BY <1>1, <1>2, <1>11 DEF Find, At, JobOK, JobKeepsUp, Keyed, Pcs, WholeJob
  <2>2. CacheKey(j.key) \notin unsafe => \E q \in j.rev .. head : j.text = Published[q]
    <3> SUFFICES ASSUME CacheKey(j.key) \notin unsafe PROVE \E q \in j.rev .. head : j.text = Published[q]
      OBVIOUS
    <3>1. PICK q \in j.key .. head : j.text = Published[q]
      BY <1>2, <2>1 DEF WholeJob, WholeSince
    <3>2. q \in j.rev .. head
      BY <2>1, TextAssumption DEF Revisions
    <3> QED BY <3>1, <3>2
  <2>3. ASSUME NEW found \in Resolutions(j.text, w), Step(w, [j EXCEPT !.pc = "open", !.found = found])
        PROVE  ListsAreWhole'
    <3> DEFINE r == [j EXCEPT !.pc = "open", !.found = found]
    <3>1. /\ r.pc = "open" /\ r.found = found /\ r.key = j.key /\ r.rev = j.rev /\ r.result = j.result
      BY <1>1 DEF Job
    <3> HIDE DEF r
    <3>2. WholeJob(r) /\ Concludes(w, r)
      BY <2>1, <2>2, <3>1 DEF WholeJob, Concludes, OneListOf
    <3> QED BY <1>1, <2>1, <2>3, <3>2, ListQuiet DEF At, r
  <2>4. ASSUME NEW name \in NamesOf(w), Best(j.text, name) = {}, Stop(w, "packageNotFound")
        PROVE  ListsAreWhole'
    <3> DEFINE r == [j EXCEPT !.pc = "idle", !.result = "packageNotFound"]
    <3>1. r.pc = "idle" /\ r.result = "packageNotFound" /\ r.key = j.key /\ r.rev = j.rev
      BY <1>1 DEF Job
    <3>2. Resolutions(j.text, w) = {}
      BY <2>4 DEF Resolutions
    <3>3. Step(w, r)
      BY <2>4 DEF Stop
    <3> HIDE DEF r
    <3>4. WholeJob(r) /\ Concludes(w, r)
      BY <2>2, <3>1, <3>2 DEF WholeJob, Concludes, OneListOf
    <3> QED BY <1>1, <2>1, <3>3, <3>4, ListQuiet DEF At
  <2> QED BY <1>11, <2>3, <2>4 DEF Find
<1>12. CASE OpenManifest(w) \/ WriteManifest(w) \/ Report(w)
  <2>1. UNCHANGED <<head, file>> /\ j.pc \in {"open", "write", "report"} /\ j.result = "none"
    BY <1>2, <1>12 DEF OpenManifest, WriteManifest, Report, FailsWith, At, WholeJob
  <2>2. ASSUME NEW pc \in {"write", "report", "idle"}, NEW why \in {"none", "ok"},
               pc = "idle" \/ why = "none",
               Step(w, [j EXCEPT !.pc = pc, !.result = why])
        PROVE  ListsAreWhole'
    <3> DEFINE r == [j EXCEPT !.pc = pc, !.result = why]
    <3>1. /\ r.pc = pc /\ r.result = why /\ r.key = j.key /\ r.rev = j.rev /\ r.found = j.found
      BY <1>1 DEF Job
    <3> HIDE DEF r
    <3>2. WholeJob(r) /\ Concludes(w, r)
      BY <1>2, <2>1, <2>2, <3>1 DEF WholeJob, Concludes, OneListOf
    <3> QED BY <1>1, <2>1, <2>2, <3>2, ListQuiet DEF At, r
  <2>3. ASSUME NEW pc \in {"write", "report"}, Goto(w, pc) PROVE ListsAreWhole'
    <3>1. [j EXCEPT !.pc = pc] = [j EXCEPT !.pc = pc, !.result = "none"]
      BY <1>1, <2>1 DEF Job
    <3> QED BY <2>2, <2>3, <3>1 DEF Goto
  <2>4. CASE Stop(w, "ok")
    BY <2>2, <2>4 DEF Stop
  <2>5. ASSUME NEW why \in {"manifestFailed", "panicked"}, Stop(w, why) PROVE ListsAreWhole'
    BY <1>1, <2>1, <2>5, ListStop
  <2> QED BY <1>12, <2>3, <2>4, <2>5 DEF OpenManifest, WriteManifest, Report, FailsWith
<1>13. CASE Crash(w)
  BY <1>1, <1>13, ListStop DEF Crash
<1> QED BY <1>4, <1>5, <1>6, <1>7, <1>8, <1>9, <1>10, <1>11, <1>12, <1>13 DEF Work

\* At first there are no lists and no conclusions.
LEMMA ListInit == Init => ListsAreWhole
<1> SUFFICES ASSUME Init PROVE ListsAreWhole
  OBVIOUS
<1>1. \A w \in Workloads : job[w].pc = "idle" /\ job[w].result = "none"
  BY DEF Init, NoJob
<1>2. \A k \in Revisions : file[k] = NoFile
  BY DEF Init
<1> QED BY <1>1, <1>2 DEF ListsAreWhole, ContentionIsKnown, FilesAreWhole, WholeJob,
                          ConclusionsFromOneList, At

\* The lists stay whole, beside the core.
LEMMA ListNext == Core /\ ListsAreWhole /\ [Next]_vars => ListsAreWhole'
<1> SUFFICES ASSUME Core, ListsAreWhole, [Next]_vars PROVE ListsAreWhole'
  OBVIOUS
<1>1. CASE UNCHANGED vars
  BY <1>1 DEF vars, ListsAreWhole, ContentionIsKnown, FilesAreWhole, WholeJob, WholeSince,
              ConclusionsFromOneList, OneList, At, Key
<1>2. CASE Advance
  BY <1>2, ListAdvance DEF Core
<1> QED BY <1>1, <1>2, ListWork DEF Next

\* In every state the files and lists that no command has spoilt are whole.
THEOREM Invariance == Spec => []IInv
<1>1. Core /\ ListsAreWhole => IInv
  BY DEF IInv
<1> QED BY <1>1, CoreInvariance, ListInit, ListNext, PTL DEF Spec

\* What a command concludes, paths or that there is no such package, it
\* concludes from one whole list of the channel, unless its cache file was left
\* unfinished or written under its eyes.
THEOREM Conclusions == Spec => []ConclusionsFromOneList
<1>1. IInv => ConclusionsFromOneList
  BY DEF IInv, ListsAreWhole
<1> QED BY <1>1, Invariance, PTL
=============================================================================
