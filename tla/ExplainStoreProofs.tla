------------------------- MODULE ExplainStoreProofs -------------------------
(***************************************************************************)
(* Proofs about ExplainStore, for any runs and any number of writers and   *)
(* lookups at a time, whatever fails or is killed.                         *)
(***************************************************************************)
EXTENDS ExplainStore, TLAPS

LEMMA RunType ==
  /\ AnyRun \in Runs /\ AnyCoin \in Coins
  /\ \A j \in Runs : /\ j.id \in RunIds /\ IsRunId(j.id)
                     /\ j.extra \in ManifestTexts
                     /\ j.extra # Absent
                     /\ j.id.ranking \in Seq(Coins)
                     /\ Recorded(j.id) \in Seq(Coins)
<1>1. AnyRun \in Runs /\ AnyCoin \in Coins
  BY RunsAssumption, CoinsAssumption DEF AnyRun, AnyCoin
<1>2. ASSUME NEW j \in Runs
      PROVE  j.id \in RunIds /\ j.extra \in ManifestTexts /\ j.extra # Absent
  BY AbsentAssumption DEF Runs, ManifestTexts
<1>3. ASSUME NEW j \in Runs
      PROVE  IsRunId(j.id) /\ j.id.ranking \in Seq(Coins) /\ Recorded(j.id) \in Seq(Coins)
  BY <1>2, RunIdsAssumption DEF IsRunId, Recorded
<1> QED
  BY <1>1, <1>2, <1>3

LEMMA TextType ==
  ASSUME NEW j \in Runs, NEW i \in Nat
  PROVE  CandidateText(j, i) \in CandidateTexts /\ CandidateText(j, i) # Absent
BY RunType, AbsentAssumption DEF CandidateText, CandidateTexts, Runs

(* The file a writer is at exists in the ranking, or is the manifest.      *)
LEMMA FileType ==
  ASSUME TypeOK, NEW p \in Writers
  PROVE  /\ ~AtManifest(p) => /\ Recorded(job[p].id) = job[p].id.ranking
                              /\ at[p] \in DOMAIN job[p].id.ranking
                              /\ CoinAt(p) \in Coins
                              /\ FileText(p) \in CandidateTexts
         /\ AtManifest(p) => FileText(p) \in ManifestTexts
         /\ FileText(p) # Absent
<1>1. job[p] \in Runs /\ at[p] \in Nat \ {0}
  BY DEF TypeOK
<1>2. ASSUME ~AtManifest(p)
      PROVE  Recorded(job[p].id) = job[p].id.ranking /\ at[p] \in DOMAIN job[p].id.ranking
  BY <1>1, <1>2, RunType DEF AtManifest, Recorded
<1> QED
  BY <1>1, <1>2, RunType, TextType DEF CoinAt, FileText

LocalsOK ==
  /\ pc \in [Writers \union Readers -> WriterPcs \union ReaderPcs]
  /\ \A p \in Writers : pc[p] \in WriterPcs
  /\ \A p \in Readers : pc[p] \in ReaderPcs
  /\ job \in [Writers -> Runs]
  /\ at \in [Writers -> Nat \ {0}]
  /\ seen \in [Writers -> RunIds \union {NoRun, Unreadable}]
  /\ exit \in [Writers -> Exits]

(* What a writer's step leaves: its own types, and the lookups alone.      *)
WriterTypes == LocalsOK' /\ \A q \in Readers : pc'[q] = pc[q]

LEMMA EndType ==
  ASSUME TypeOK, NEW p \in Writers, NEW code \in Exits, End(p, code)
  PROVE  WriterTypes
  BY RunType, ProcsAssumption DEF TypeOK, WriterTypes, LocalsOK, End, WriterPcs

LEMMA GotoType ==
  ASSUME TypeOK, NEW p \in Writers, NEW next \in WriterPcs, Goto(p, next)
  PROVE  WriterTypes
BY ProcsAssumption DEF TypeOK, WriterTypes, LocalsOK, Goto, writers

LEMMA NextFileType ==
  ASSUME TypeOK, NEW p \in Writers, NextFile(p)
  PROVE  WriterTypes
<1>1. CASE /\ pc' = [pc EXCEPT ![p] = "check"] /\ at' = [at EXCEPT ![p] = @ + 1]
           /\ UNCHANGED <<job, seen, exit>>
  <2>1. at[p] + 1 \in Nat \ {0}
    BY DEF TypeOK
  <2>2. at' \in [Writers -> Nat \ {0}]
    BY <1>1, <2>1 DEF TypeOK
  <2> QED
    BY <1>1, <2>2, ProcsAssumption DEF TypeOK, WriterTypes, LocalsOK, WriterPcs
<1> QED
  BY <1>1, EndType, GotoType DEF NextFile, Exits, WriterPcs

LEMMA PutFileType ==
  ASSUME TypeOK, NEW p \in Writers, PutFile(p)
  PROVE  /\ candidates' \in [RunIds -> [Coins -> CandidateTexts \union {Absent}]]
         /\ manifests' \in [RunIds -> ManifestTexts \union {Absent}]
<1>1. job[p].id \in RunIds
  BY RunType DEF TypeOK
<1>2. CASE AtManifest(p)
  BY <1>1, <1>2, FileType DEF TypeOK, PutFile
<1>3. CASE ~AtManifest(p)
  <2> DEFINE r == job[p].id
  <2>1. FileText(p) \in CandidateTexts
    BY <1>3, FileType
  <2>2. candidates[r] \in [Coins -> CandidateTexts \union {Absent}]
    BY <1>1 DEF TypeOK
  <2>3. [candidates[r] EXCEPT ![CoinAt(p)] = FileText(p)] \in [Coins -> CandidateTexts \union {Absent}]
    BY <2>1, <2>2
  <2>4. candidates' = [candidates EXCEPT ![r] = [candidates[r] EXCEPT ![CoinAt(p)] = FileText(p)]]
    BY <1>3 DEF PutFile
  <2> QED
    BY <1>1, <1>3, <2>3, <2>4 DEF TypeOK, PutFile
<1> QED
  BY <1>2, <1>3

LEMMA AnswerType ==
  ASSUME TypeOK, NEW p \in Readers, NEW status \in Answers, Answer(p, status), UNCHANGED <<store, writers>>
  PROVE  TypeOK'
BY RunType, ProcsAssumption DEF TypeOK, Answer, ReaderPcs, store, writers

(* Every step keeps each file's text of its own kind, and a writer within  *)
(* the files of its run.                                                   *)
THEOREM TypeInvariant == Spec => []TypeOK
<1>1. Init => TypeOK
  BY RunType DEF Init, TypeOK, WriterPcs, ReaderPcs, Exits, Answers
<1>2. TypeOK /\ [Next]_vars => TypeOK'
  <2> SUFFICES ASSUME TypeOK, [Next]_vars PROVE TypeOK'
    OBVIOUS
  <2>1. CASE UNCHANGED vars
    BY <2>1 DEF vars, TypeOK
  <2>2. ASSUME WriterTypes, UNCHANGED <<store, readers>> PROVE TypeOK'
    BY <2>2 DEF WriterTypes, LocalsOK, TypeOK, store, readers
  <2>3. ASSUME NEW p \in Writers, Record(p) \/ Import(p) PROVE TypeOK'
    <3>1. WriterTypes
      <4>1. job' \in [Writers -> Runs] /\ UNCHANGED <<at, seen>>
        BY <2>3 DEF Record, Import, TypeOK
      <4>2. exit' \in [Writers -> Exits]
        BY <2>3 DEF Record, Import, TypeOK, Exits
      <4>3. pc' = [pc EXCEPT ![p] = "check"] \/ pc' = [pc EXCEPT ![p] = "decide"]
        BY <2>3 DEF Record, Import
      <4> QED
        BY <4>1, <4>2, <4>3, ProcsAssumption DEF TypeOK, WriterTypes, LocalsOK, WriterPcs
    <3> QED
      BY <2>2, <2>3, <3>1 DEF Record, Import, store, readers
  <2>4. ASSUME NEW p \in Writers, Decide(p) PROVE TypeOK'
    <3>1. WriterTypes
      BY <2>4, ProcsAssumption DEF Decide, TypeOK, WriterTypes, LocalsOK, WriterPcs
    <3> QED
      BY <2>2, <2>4, <3>1 DEF Decide
  <2>5. ASSUME NEW p \in Writers, CheckFile(p) PROVE TypeOK'
    <3>1. WriterTypes
      BY <2>5, EndType, GotoType, NextFileType DEF CheckFile, WriterPcs, Exits
    <3> QED
      BY <2>2, <2>5, <3>1 DEF CheckFile
  <2>6. ASSUME NEW p \in Writers, WriteFile(p) PROVE TypeOK'
    <3>1. WriterTypes /\ UNCHANGED <<latest, readers>>
      BY <2>6, EndType, NextFileType DEF WriteFile, Exits
    <3>2. /\ candidates' \in [RunIds -> [Coins -> CandidateTexts \union {Absent}]]
          /\ manifests' \in [RunIds -> ManifestTexts \union {Absent}]
      BY <2>6, PutFileType DEF WriteFile, TypeOK
    <3> QED
      BY <3>1, <3>2 DEF WriterTypes, LocalsOK, TypeOK, readers
  <2>7. ASSUME NEW p \in Writers, Point(p) PROVE TypeOK'
    <3>1. WriterTypes /\ UNCHANGED <<candidates, manifests, readers>>
      BY <2>7, EndType DEF Point, Exits
    <3>2. latest' \in RunIds \union {NoRun}
      BY <2>7, RunType DEF Point, TypeOK
    <3> QED
      BY <3>1, <3>2 DEF WriterTypes, LocalsOK, TypeOK, readers
  <2>8. ASSUME NEW p \in Writers, Kill(p) PROVE TypeOK'
    BY <2>2, <2>8, EndType DEF Kill, Exits
  <2>9. ASSUME NEW p \in Readers, ReadPointer(p) PROVE TypeOK'
    <3>1. CASE \E status \in Answers : Answer(p, status)
      BY <2>9, <3>1, AnswerType DEF ReadPointer
    <3>2. CASE /\ latest # NoRun
               /\ pc' = [pc EXCEPT ![p] = "manifest"]
               /\ run' = [run EXCEPT ![p] = latest]
               /\ answer' = [answer EXCEPT ![p] = "NONE"]
               /\ UNCHANGED coin
      <4>1. UNCHANGED <<candidates, manifests, latest, job, at, seen, exit, coin>>
        BY <2>9, <3>2 DEF ReadPointer, store, writers
      <4> QED
        BY <3>2, <4>1, ProcsAssumption DEF TypeOK, ReaderPcs, Answers
    <3> QED
      BY <2>9, <3>1, <3>2 DEF ReadPointer, Answers
  <2>10. ASSUME NEW p \in Readers, ReadManifest(p) PROVE TypeOK'
    <3>1. CASE \E status \in Answers : Answer(p, status)
      BY <2>10, <3>1, AnswerType DEF ReadManifest
    <3>2. CASE /\ \E c \in Range(run[p].ranking) : coin' = [coin EXCEPT ![p] = c]
               /\ pc' = [pc EXCEPT ![p] = "candidate"]
               /\ UNCHANGED <<run, answer>>
      <4>1. Range(run[p].ranking) \subseteq Coins
        <5>1. run[p] \in RunIds
          BY <2>10 DEF ReadManifest, TypeOK
        <5> QED
          BY <5>1, RunIdsAssumption DEF Range, IsRunId
      <4>2. UNCHANGED <<candidates, manifests, latest, job, at, seen, exit, run, answer>> /\ run[p] # NoRun
        BY <2>10, <3>2 DEF ReadManifest, TypeOK, store, writers
      <4> QED
        BY <3>2, <4>1, <4>2, ProcsAssumption DEF TypeOK, ReaderPcs
    <3> QED
      BY <2>10, <3>1, <3>2 DEF ReadManifest, Answers
  <2>11. ASSUME NEW p \in Readers, ReadCandidate(p) PROVE TypeOK'
    BY <2>11, AnswerType DEF ReadCandidate, Answers
  <2> QED
    BY <2>1, <2>3, <2>4, <2>5, <2>6, <2>7, <2>8, <2>9, <2>10, <2>11 DEF Next, Write, Lookup
<1> QED
  BY <1>1, <1>2, PTL DEF Spec
----------------------------------------------------------------------------
(* Where a step of its own leaves a writer, and that it leaves the others  *)
(* where they are.                                                         *)
LEMMA WriterMoves ==
  ASSUME TypeOK, NEW p \in Writers, Write(p)
  PROVE  /\ \/ pc'[p] \in {"idle", "decide"}
            \/ pc'[p] = "check" /\ job'[p].id.kind # "legacy"
            \/ pc'[p] = "check" /\ job' = job /\ latest' = latest /\ seen'[p] \in {latest, Unreadable}
            \/ /\ pc[p] \in {"check", "write"} /\ job' = job /\ seen' = seen /\ latest' = latest
               /\ pc'[p] \in {"check", "write"} \/ (pc'[p] = "point" /\ MovesPointer(p))
         /\ \A q \in Writers \ {p} : pc'[q] = pc[q] /\ job'[q] = job[q] /\ seen'[q] = seen[q]
<1>1. ASSUME NEW code, End(p, code)
      PROVE  /\ pc'[p] = "idle"
             /\ \A q \in Writers \ {p} : pc'[q] = pc[q] /\ job'[q] = job[q] /\ seen'[q] = seen[q]
  BY <1>1 DEF End, TypeOK
<1>2. ASSUME pc[p] \in {"check", "write"}, NextFile(p)
      PROVE  /\ \/ pc'[p] = "idle"
                \/ job' = job /\ seen' = seen /\ (pc'[p] = "check" \/ (pc'[p] = "point" /\ MovesPointer(p)))
             /\ \A q \in Writers \ {p} : pc'[q] = pc[q] /\ job'[q] = job[q] /\ seen'[q] = seen[q]
  <2>1. CASE End(p, "ok")
    BY <1>1, <2>1
  <2>2. CASE Goto(p, "point") /\ MovesPointer(p)
    BY <2>2 DEF Goto, writers, TypeOK
  <2>3. CASE pc' = [pc EXCEPT ![p] = "check"] /\ UNCHANGED <<job, seen, exit>>
    BY <2>3 DEF TypeOK
  <2> QED
    BY <1>2, <2>1, <2>2, <2>3 DEF NextFile
<1>3. CASE Record(p) \/ Import(p)
  <2>1. PICK j \in Runs : job' = [job EXCEPT ![p] = j] /\ (Record(p) => j.id.kind # "legacy")
    BY <1>3 DEF Record, Import
  <2>2. job'[p] = j /\ \A q \in Writers \ {p} : job'[q] = job[q] /\ seen'[q] = seen[q]
    BY <1>3, <2>1 DEF Record, Import, TypeOK
  <2>3. (Record(p) /\ pc'[p] = "check") \/ (Import(p) /\ pc'[p] = "decide")
    BY <1>3 DEF Record, Import, TypeOK
  <2>4. \A q \in Writers \ {p} : pc'[q] = pc[q]
    BY <1>3 DEF Record, Import, TypeOK
  <2> QED
    BY <2>1, <2>2, <2>3, <2>4
<1>4. CASE Decide(p)
  BY <1>4 DEF Decide, store, TypeOK
<1>5. CASE CheckFile(p)
  <2>1. CASE Goto(p, "write")
    BY <1>5, <2>1 DEF CheckFile, Goto, writers, store, TypeOK
  <2> QED
    BY <1>1, <1>2, <1>5, <2>1 DEF CheckFile, store
<1>6. CASE WriteFile(p)
  BY <1>1, <1>2, <1>6 DEF WriteFile
<1>7. CASE Point(p) \/ Kill(p)
  BY <1>1, <1>7 DEF Point, Kill
<1> QED
  BY <1>3, <1>4, <1>5, <1>6, <1>7 DEF Write

(* A lookup leaves the store and the writers alone.                        *)
LEMMA LookupLeaves ==
  ASSUME TypeOK, NEW p \in Readers, Lookup(p)
  PROVE  UNCHANGED <<store, writers>> /\ \A q \in Writers : pc'[q] = pc[q]
<1>1. UNCHANGED <<store, writers>>
  BY DEF Lookup, ReadPointer, ReadManifest, ReadCandidate
<1>2. \E next \in ReaderPcs : pc' = [pc EXCEPT ![p] = next]
  <2>1. CASE ReadPointer(p)
    BY <2>1 DEF ReadPointer, Answer, ReaderPcs
  <2>2. CASE ReadManifest(p)
    BY <2>2 DEF ReadManifest, Answer, ReaderPcs
  <2>3. CASE ReadCandidate(p)
    BY <2>3 DEF ReadCandidate, Answer, ReaderPcs
  <2> QED
    BY <2>1, <2>2, <2>3 DEF Lookup
<1> QED
  BY <1>1, <1>2, ProcsAssumption DEF TypeOK

(* A writer leaves the places of the others.                               *)
LEMMA WriterPlaces ==
  ASSUME TypeOK, NEW p \in Writers, Write(p)
  PROVE  \A q \in Writers \ {p} : at'[q] = at[q]
<1>1. ASSUME NEW code, End(p, code)
      PROVE  \A q \in Writers \ {p} : at'[q] = at[q]
  BY <1>1 DEF End, TypeOK
<1>2. ASSUME NextFile(p)
      PROVE  \A q \in Writers \ {p} : at'[q] = at[q]
  BY <1>1, <1>2 DEF NextFile, Goto, writers, TypeOK
<1>3. CASE Record(p) \/ Import(p) \/ Decide(p)
  BY <1>3 DEF Record, Import, Decide
<1>4. CASE CheckFile(p)
  BY <1>1, <1>2, <1>4 DEF CheckFile, Goto, writers
<1>5. CASE WriteFile(p)
  BY <1>1, <1>2, <1>5 DEF WriteFile
<1>6. CASE Point(p) \/ Kill(p)
  BY <1>1, <1>6 DEF Point, Kill
<1> QED
  BY <1>3, <1>4, <1>5, <1>6 DEF Write

----------------------------------------------------------------------------
(* No file of a published or imported run is removed, and no candidate of  *)
(* one is replaced by different content.                                   *)
Kept ==
  \A r \in RunIds : r.kind # "rejected" =>
    /\ manifests[r] # Absent => manifests'[r] # Absent
    /\ \A c \in Coins : candidates[r][c] # Absent => candidates'[r][c] = candidates[r][c]

LEMMA CompleteKept ==
  ASSUME Kept, NEW r \in RunIds, r.kind # "rejected", Complete(r)
  PROVE  Complete(r)'
<1>1. manifests'[r] # Absent
  BY DEF Kept, Complete
<1>2. ASSUME NEW i \in DOMAIN Recorded(r)
      PROVE  candidates'[r][Recorded(r)[i]] = [rank |-> i, extra |-> NoExtra]
  <2>1. Recorded(r) \in Seq(Coins)
    BY RunIdsAssumption DEF IsRunId, Recorded
  <2>2. Recorded(r)[i] \in Coins /\ i \in Nat
    BY <1>2, <2>1
  <2>3. candidates[r][Recorded(r)[i]] = [rank |-> i, extra |-> NoExtra]
    BY <1>2 DEF Complete
  <2>4. [rank |-> i, extra |-> NoExtra] # Absent
    BY <2>2, AbsentAssumption
  <2> QED
    BY <2>2, <2>3, <2>4 DEF Kept
<1> QED
  BY <1>1, <1>2 DEF Complete

(* The files that a writer has behind it stay there.                       *)
Behind(p) ==
  \A i \in 1..(at[p] - 1) :
    /\ i \in DOMAIN Recorded(job[p].id)
    /\ candidates[job[p].id][Recorded(job[p].id)[i]] = CandidateText(job[p], i)

LEMMA BehindKept ==
  ASSUME TypeOK, Kept, NEW p \in Writers, job[p].id.kind # "rejected", Behind(p)
  PROVE  \A i \in 1..(at[p] - 1) :
           /\ i \in DOMAIN Recorded(job[p].id)
           /\ candidates'[job[p].id][Recorded(job[p].id)[i]] = CandidateText(job[p], i)
<1> DEFINE r == job[p].id
<1> SUFFICES ASSUME NEW i \in 1..(at[p] - 1)
             PROVE  i \in DOMAIN Recorded(r) /\ candidates'[r][Recorded(r)[i]] = CandidateText(job[p], i)
  OBVIOUS
<1>1. job[p] \in Runs /\ r \in RunIds /\ Recorded(r) \in Seq(Coins) /\ i \in Nat
  BY RunType DEF TypeOK
<1>2. i \in DOMAIN Recorded(r) /\ candidates[r][Recorded(r)[i]] = CandidateText(job[p], i)
  BY DEF Behind
<1>3. Recorded(r)[i] \in Coins
  BY <1>1, <1>2
<1>4. CandidateText(job[p], i) # Absent
  BY <1>1, TextType
<1> QED
  BY <1>1, <1>2, <1>3, <1>4 DEF Kept

(* A run with all its candidates behind and its manifest is complete.      *)
LEMMA CompleteAfter ==
  ASSUME TypeOK, Kept, NEW p \in Writers, Behind(p), AtManifest(p),
         NEW r \in RunIds, r = job[p].id, r.kind # "rejected", manifests'[r] # Absent
  PROVE  Complete(r)'
<1>1. job[p] \in Runs /\ Recorded(r) \in Seq(Coins) /\ at[p] \in Nat \ {0}
  BY RunType DEF TypeOK
<1>2. ASSUME NEW i \in DOMAIN Recorded(r)
      PROVE  candidates'[r][Recorded(r)[i]] = [rank |-> i, extra |-> NoExtra]
  <2>1. i \in 1..(at[p] - 1)
    BY <1>1, <1>2 DEF AtManifest
  <2> QED
    BY <2>1, BehindKept DEF CandidateText
<1> QED
  BY <1>2 DEF Complete

(* The writer's part of the invariant when it goes on to the next file.    *)
LEMMA NextFileKeeps ==
  ASSUME TypeOK, Kept, NEW p \in Writers, NextFile(p), WriterInvOf(p), pc[p] \in {"check", "write"},
         AtManifest(p) => manifests'[job[p].id] # Absent,
         ~AtManifest(p) /\ job[p].id.kind # "rejected" => candidates'[job[p].id][CoinAt(p)] = FileText(p)
  PROVE  WriterInvOf(p)'
<1> DEFINE r == job[p].id
<1>1. at[p] \in Nat \ {0} /\ job[p] \in Runs
  BY DEF TypeOK
<1>2. r.kind # "rejected" => Behind(p)
  BY DEF Behind, WriterInvOf, Writing
<1>3. r.kind # "rejected" => \A i \in 1..(at[p] - 1) :
           /\ i \in DOMAIN Recorded(r)
           /\ candidates'[r][Recorded(r)[i]] = CandidateText(job[p], i)
  BY <1>2, BehindKept
<1>4. CASE /\ ~AtManifest(p) /\ pc' = [pc EXCEPT ![p] = "check"] /\ at' = [at EXCEPT ![p] = @ + 1]
           /\ UNCHANGED <<job, seen, exit>>
  <2>1. pc'[p] = "check" /\ at'[p] = at[p] + 1 /\ job'[p] = job[p]
    BY <1>4 DEF TypeOK
  <2>2. r.kind # "rejected" =>
          at[p] \in DOMAIN Recorded(r) /\ candidates'[r][Recorded(r)[at[p]]] = CandidateText(job[p], at[p])
    BY <1>4, FileType DEF CoinAt, FileText
  <2>3. r.kind # "rejected" => \A i \in 1..at[p] :
          /\ i \in DOMAIN Recorded(r)
          /\ candidates'[r][Recorded(r)[i]] = CandidateText(job[p], i)
    <3> SUFFICES ASSUME r.kind # "rejected", NEW i \in 1..at[p]
                 PROVE  /\ i \in DOMAIN Recorded(r)
                        /\ candidates'[r][Recorded(r)[i]] = CandidateText(job[p], i)
      OBVIOUS
    <3>1. i = at[p] \/ i \in 1..(at[p] - 1)
      BY <1>1
    <3> QED
      BY <3>1, <2>2, <1>3
  <2>4. at'[p] - 1 = at[p]
    BY <2>1, <1>1
  <2> QED
    BY <2>1, <2>3, <2>4 DEF WriterInvOf, Writing, CandidateText
<1>5. CASE AtManifest(p) /\ MovesPointer(p) /\ Goto(p, "point")
  <2>1. pc'[p] = "point" /\ UNCHANGED <<job, at, seen, exit>>
    BY <1>5 DEF Goto, TypeOK, writers
  <2>2. Complete(r)'
    <3>1. PICK id \in RunIds : id = r
      BY <1>1, RunType
    <3>2. Complete(id)'
      BY <1>5, <1>1, <1>2, <3>1, CompleteAfter DEF MovesPointer
    <3> QED
      BY <2>1, <3>1, <3>2
  <2>3. MovesPointer(p)'
    BY <1>5, <2>1 DEF MovesPointer, ShouldAdvance
  <2> QED
    BY <1>3, <2>1, <2>2, <2>3 DEF WriterInvOf, Writing, Complete
<1>6. CASE End(p, "ok")
  BY <1>6 DEF End, TypeOK, WriterInvOf, Writing
<1> QED
  BY <1>4, <1>5, <1>6 DEF NextFile
----------------------------------------------------------------------------
LEMMA EndKeeps ==
  ASSUME TypeOK, NEW p \in Writers, NEW code \in Exits, End(p, code)
  PROVE  WriterInvOf(p)'
BY DEF End, TypeOK, WriterInvOf, Writing

(* Another process's step keeps the writer's part of the invariant.        *)
LEMMA OtherKeeps ==
  ASSUME TypeOK, Kept, NEW q \in Writers, WriterInvOf(q),
         pc'[q] = pc[q], job'[q] = job[q], at'[q] = at[q], seen'[q] = seen[q]
  PROVE  WriterInvOf(q)'
<1> DEFINE r == job[q].id
<1>1. pc[q] \in Writing /\ r.kind # "rejected" => \A i \in 1..(at[q] - 1) :
           /\ i \in DOMAIN Recorded(r)
           /\ candidates'[r][Recorded(r)[i]] = CandidateText(job[q], i)
  BY BehindKept DEF Behind, WriterInvOf
<1>2. pc[q] = "point" => MovesPointer(q) /\ Complete(r)'
  <2> SUFFICES ASSUME pc[q] = "point"
               PROVE  MovesPointer(q) /\ Complete(r)'
    OBVIOUS
  <2>1. MovesPointer(q) /\ Complete(r)
    BY DEF WriterInvOf
  <2>2. PICK id \in RunIds : id = r
    BY RunType DEF TypeOK
  <2>3. Complete(id)'
    BY <2>1, <2>2, CompleteKept DEF MovesPointer
  <2> QED
    BY <2>1, <2>2, <2>3 DEF Complete
<1>3. MovesPointer(q)' = MovesPointer(q) /\ AtManifest(q)' = AtManifest(q)
  BY DEF MovesPointer, AtManifest
<1>4. pc[q] = "write" /\ r.kind # "rejected" /\ ~AtManifest(q) => FirstListed(r, at[q])
  BY DEF WriterInvOf
<1>5. pc[q] \in {"idle", "decide"} => at[q] = 1
  BY DEF WriterInvOf
<1>6. pc'[q] \in Writing /\ job'[q].id.kind # "rejected" =>
       \A i \in 1..(at'[q] - 1) :
         /\ i \in DOMAIN Recorded(job'[q].id)
         /\ candidates'[job'[q].id][Recorded(job'[q].id)[i]] = CandidateText(job'[q], i)
  BY <1>1
<1>7. pc'[q] = "point" => Complete(job[q].id)'
  BY <1>2 DEF Complete
<1> QED
  BY <1>2, <1>3, <1>4, <1>5, <1>6, <1>7 DEF WriterInvOf, FirstListed

(* A write puts the text that any writer of the run puts there.            *)
LEMMA PutFileKeeps ==
  ASSUME TypeOK, RunTexts, NEW p \in Writers, PutFile(p), pc[p] = "write", WriterInvOf(p)
  PROVE  /\ Kept
         /\ RunTexts'
         /\ AtManifest(p) => manifests'[job[p].id] # Absent
         /\ ~AtManifest(p) => candidates'[job[p].id][CoinAt(p)] = FileText(p)
<1>1. PICK r \in RunIds : r = job[p].id
  BY RunType DEF TypeOK
<1>2. FileText(p) # Absent
  BY FileType
<1>3. CASE AtManifest(p)
  <2>1. manifests' = [manifests EXCEPT ![r] = FileText(p)] /\ UNCHANGED candidates
    BY <1>1, <1>3 DEF PutFile
  <2>2. RunTexts'
    BY <2>1 DEF RunTexts
  <2> QED
    BY <1>1, <1>2, <1>3, <2>1, <2>2 DEF Kept, TypeOK
<1>4. CASE ~AtManifest(p)
  <2> DEFINE c == CoinAt(p)
             i == at[p]
  <2>1. candidates' = [candidates EXCEPT ![r][c] = FileText(p)] /\ UNCHANGED manifests
    BY <1>1, <1>4 DEF PutFile
  <2>2. c \in Coins /\ i \in DOMAIN r.ranking /\ r.ranking[i] = c
    BY <1>1, <1>4, FileType DEF CoinAt
  <2>3. candidates'[r][c] = FileText(p)
    BY <2>1, <2>2 DEF TypeOK
  <2>4. \A s \in RunIds, d \in Coins : s # r \/ d # c => candidates'[s][d] = candidates[s][d]
    BY <2>1 DEF TypeOK
  <2>5. r.kind # "rejected" => FirstListed(r, i) /\ FileText(p) = [rank |-> i, extra |-> NoExtra]
    BY <1>1, <1>4 DEF WriterInvOf, FileText, CandidateText
  <2>6. r.kind # "rejected" => candidates[r][c] \in {Absent, FileText(p)}
    <3> SUFFICES ASSUME r.kind # "rejected", candidates[r][c] # Absent
                 PROVE  candidates[r][c] = FileText(p)
      OBVIOUS
    <3>1. PICK j \in DOMAIN r.ranking :
            r.ranking[j] = c /\ FirstListed(r, j) /\ candidates[r][c] = [rank |-> j, extra |-> NoExtra]
      BY <2>2 DEF RunTexts
    <3>2. i \in Nat \ {0} /\ j \in Nat \ {0}
      BY <2>2, RunIdsAssumption DEF IsRunId
    <3>3. j = i
      BY <2>2, <2>5, <3>1, <3>2 DEF FirstListed
    <3> QED
      BY <2>5, <3>1, <3>3
  <2>7. Kept
    BY <2>1, <2>3, <2>4, <2>6 DEF Kept
  <2>8. RunTexts'
    <3> SUFFICES ASSUME NEW s \in RunIds, s.kind # "rejected", NEW d \in Coins, candidates'[s][d] # Absent
                 PROVE  \E j \in DOMAIN s.ranking :
                          s.ranking[j] = d /\ FirstListed(s, j) /\ candidates'[s][d] = [rank |-> j, extra |-> NoExtra]
      BY DEF RunTexts
    <3>1. CASE s = r /\ d = c
      BY <2>2, <2>3, <2>5, <3>1
    <3>2. CASE s # r \/ d # c
      BY <2>4, <3>2 DEF RunTexts
    <3> QED
      BY <3>1, <3>2
  <2> QED
    BY <1>1, <1>4, <2>3, <2>7, <2>8
<1> QED
  BY <1>3, <1>4

(* What a writer does leaves the lookups' part of the invariant alone.     *)
LEMMA ReadersKeep ==
  ASSUME TypeOK, StoreInv, Kept, UNCHANGED readers, \A q \in Readers : pc'[q] = pc[q]
  PROVE  LookupsAreAnswered' /\ \A q \in Readers : ReaderInvOf(q)'
<1>1. UNCHANGED <<coin, run, answer>>
  BY DEF readers
<1>2. ASSUME NEW q \in Readers
      PROVE  ReaderInvOf(q)'
  <2>1. ReaderInvOf(q) /\ pc'[q] = pc[q]
    BY DEF StoreInv
  <2>2. ASSUME pc[q] # "idle"
        PROVE  Complete(run[q])'
    <3>1. PICK r \in RunIds : r = run[q]
      BY <2>2 DEF TypeOK
    <3>2. r.kind # "rejected" /\ Complete(r)
      BY <2>1, <2>2, <3>1 DEF ReaderInvOf
    <3>3. Complete(r)'
      BY <3>2, CompleteKept
    <3> QED
      BY <1>1, <3>1, <3>3
  <2> QED
    BY <1>1, <2>1, <2>2 DEF ReaderInvOf
<1> QED
  BY <1>1, <1>2 DEF StoreInv, LookupsAreAnswered

LEMMA LatestKeeps ==
  ASSUME TypeOK, StoreInv, Kept, UNCHANGED latest
  PROVE  LatestIsComplete'
<1> SUFFICES ASSUME latest # NoRun PROVE latest.kind # "rejected" /\ Complete(latest)'
  BY DEF LatestIsComplete
<1>1. PICK r \in RunIds : r = latest
  BY DEF TypeOK
<1>2. r.kind # "rejected" /\ Complete(r)
  BY <1>1 DEF StoreInv, LatestIsComplete
<1>3. Complete(r)'
  BY <1>2, CompleteKept
<1> QED
  BY <1>1, <1>2, <1>3

(* A step that leaves the store and the writers alone keeps their part.    *)
LEMMA WritersKeep ==
  ASSUME TypeOK, StoreInv, UNCHANGED <<store, writers>>, \A p \in Writers : pc'[p] = pc[p]
  PROVE  LatestIsComplete' /\ RunTexts' /\ \A p \in Writers : WriterInvOf(p)'
<1>1. UNCHANGED <<candidates, manifests, latest, job, at, seen, exit>>
  BY DEF store, writers
<1>2. Kept
  BY <1>1 DEF Kept
<1>3. ASSUME NEW p \in Writers
      PROVE  WriterInvOf(p)'
  BY <1>1, <1>2, OtherKeeps DEF StoreInv
<1>4. RunTexts'
  BY <1>1 DEF StoreInv, RunTexts
<1> QED
  BY <1>1, <1>2, <1>3, <1>4, LatestKeeps

(* What is left to show of a writer's step: its own part, and the pointer. *)
LEMMA WriterStep ==
  ASSUME TypeOK, StoreInv, NEW p \in Writers, Write(p), WriterInvOf(p)', Kept, RunTexts', LatestIsComplete',
         UNCHANGED readers, \A q \in Readers : pc'[q] = pc[q]
  PROVE  StoreInv'
<1>1. ASSUME NEW q \in Writers, q # p
      PROVE  WriterInvOf(q)'
  BY <1>1, OtherKeeps, WriterMoves, WriterPlaces DEF StoreInv
<1>2. LookupsAreAnswered' /\ \A q \in Readers : ReaderInvOf(q)'
  BY ReadersKeep
<1> QED
  BY <1>1, <1>2 DEF StoreInv

(* The same of a step that touches neither the files nor the pointer.      *)
LEMMA QuietStep ==
  ASSUME TypeOK, StoreInv, NEW p \in Writers, Write(p), WriterInvOf(p)', UNCHANGED <<candidates, manifests, latest>>,
         UNCHANGED readers, \A q \in Readers : pc'[q] = pc[q]
  PROVE  StoreInv'
<1>1. Kept /\ RunTexts'
  BY DEF Kept, RunTexts, StoreInv
<1> QED
  BY <1>1, LatestKeeps, WriterStep

LEMMA RecordKeeps ==
  ASSUME TypeOK, StoreInv, NEW p \in Writers, Record(p) \/ Import(p)
  PROVE  StoreInv'
<1>1. UNCHANGED <<candidates, manifests, latest, readers>> /\ UNCHANGED <<at, seen>>
  BY DEF Record, Import, store
<1>2. at[p] = 1 /\ pc'[p] \in {"check", "decide"}
  BY DEF Record, Import, StoreInv, WriterInvOf, TypeOK
<1>3. WriterInvOf(p)'
  BY <1>1, <1>2 DEF WriterInvOf, Writing
<1>4. \A q \in Readers : pc'[q] = pc[q]
  BY ProcsAssumption DEF Record, Import, TypeOK
<1> QED
  BY <1>1, <1>3, <1>4, QuietStep DEF Write

LEMMA DecideKeeps ==
  ASSUME TypeOK, StoreInv, NEW p \in Writers, Decide(p)
  PROVE  StoreInv'
<1>1. UNCHANGED <<candidates, manifests, latest, readers>> /\ UNCHANGED <<job, at>>
  BY DEF Decide, store
<1>2. at[p] = 1 /\ pc'[p] = "check"
  BY DEF Decide, StoreInv, WriterInvOf, TypeOK
<1>3. WriterInvOf(p)'
  BY <1>1, <1>2 DEF WriterInvOf, Writing
<1>4. \A q \in Readers : pc'[q] = pc[q]
  BY ProcsAssumption DEF Decide, TypeOK
<1> QED
  BY <1>1, <1>3, <1>4, QuietStep DEF Write

LEMMA CheckFileKeeps ==
  ASSUME TypeOK, StoreInv, NEW p \in Writers, CheckFile(p)
  PROVE  StoreInv'
<1>1. UNCHANGED <<candidates, manifests, latest, readers>> /\ pc[p] = "check" /\ WriterInvOf(p)
  BY DEF CheckFile, store, StoreInv
<1>2. Kept
  BY <1>1 DEF Kept
<1>3. WriterInvOf(p)' /\ \A q \in Readers : pc'[q] = pc[q]
  <2>1. CASE FileNow(p) = Absent /\ Goto(p, "write")
    <3>1. UNCHANGED <<job, at, seen, exit>> /\ pc'[p] = "write"
      BY <2>1 DEF Goto, writers, TypeOK
    <3>2. ASSUME job[p].id.kind # "rejected", ~AtManifest(p)
          PROVE  FirstListed(job[p].id, at[p])
      <4> SUFFICES ASSUME NEW j \in 1..(at[p] - 1)
                   PROVE  job[p].id.ranking[j] # CoinAt(p)
        BY DEF FirstListed, CoinAt
      <4>1. Recorded(job[p].id) = job[p].id.ranking
        BY <3>2, FileType
      <4>2. candidates[job[p].id][job[p].id.ranking[j]] = CandidateText(job[p], j)
        BY <1>1, <3>2, <4>1 DEF WriterInvOf, Writing
      <4>3. j \in Nat /\ job[p] \in Runs
        BY DEF TypeOK
      <4>4. CandidateText(job[p], j) # Absent
        BY <4>3, TextType
      <4> QED
        BY <2>1, <3>2, <4>2, <4>4 DEF FileNow
    <3>3. AtManifest(p)' = AtManifest(p) /\ (FirstListed(job[p].id, at[p]))' = FirstListed(job[p].id, at[p])
      BY <3>1 DEF AtManifest, FirstListed
    <3>4. WriterInvOf(p)'
      BY <1>1, <3>1, <3>2, <3>3 DEF WriterInvOf, Writing
    <3> QED
      BY <2>1, <3>4, GotoType DEF WriterTypes, WriterPcs
  <2>2. CASE FileNow(p) = FileText(p) /\ NextFile(p)
    <3>1. AtManifest(p) => manifests'[job[p].id] # Absent
      BY <1>1, <2>2, FileType DEF FileNow
    <3>2. ~AtManifest(p) => candidates'[job[p].id][CoinAt(p)] = FileText(p)
      BY <1>1, <2>2 DEF FileNow
    <3>3. WriterInvOf(p)'
      BY <1>1, <1>2, <2>2, <3>1, <3>2, NextFileKeeps
    <3> QED
      BY <2>2, <3>3, NextFileType DEF WriterTypes
  <2>3. CASE End(p, "refused") \/ End(p, "failed")
    BY <2>3, EndKeeps, EndType DEF WriterTypes, Exits
  <2> QED
    BY <2>1, <2>2, <2>3 DEF CheckFile
<1> QED
  BY <1>1, <1>3, QuietStep DEF Write

LEMMA WriteFileKeeps ==
  ASSUME TypeOK, StoreInv, NEW p \in Writers, WriteFile(p)
  PROVE  StoreInv' /\ Kept
<1>1. UNCHANGED <<latest, readers>> /\ pc[p] = "write" /\ WriterInvOf(p) /\ RunTexts
  BY DEF WriteFile, StoreInv
<1>2. Kept /\ RunTexts'
  <2>1. CASE PutFile(p)
    BY <1>1, <2>1, PutFileKeeps
  <2>2. CASE UNCHANGED <<candidates, manifests>>
    BY <1>1, <2>2 DEF Kept, RunTexts
  <2> QED
    BY <2>1, <2>2 DEF WriteFile
<1>3. WriterInvOf(p)' /\ \A q \in Readers : pc'[q] = pc[q]
  <2>1. CASE PutFile(p) /\ NextFile(p)
    BY <1>1, <1>2, <2>1, PutFileKeeps, NextFileKeeps, NextFileType DEF WriterTypes
  <2>2. CASE End(p, "failed")
    BY <2>2, EndKeeps, EndType DEF WriterTypes, Exits
  <2> QED
    BY <2>1, <2>2 DEF WriteFile
<1> QED
  BY <1>1, <1>2, <1>3, LatestKeeps, WriterStep DEF Write

(* The pointer moves to a run that is whole and was published.             *)
LEMMA PointKeeps ==
  ASSUME TypeOK, StoreInv, NEW p \in Writers, Point(p)
  PROVE  StoreInv'
<1>1. UNCHANGED <<candidates, manifests, readers>> /\ WriterInvOf(p)
  BY DEF Point, StoreInv
<1>2. Kept /\ RunTexts'
  BY <1>1 DEF Kept, RunTexts, StoreInv
<1>3. MovesPointer(p) /\ Complete(job[p].id) /\ latest' \in {latest, job[p].id}
  BY <1>1 DEF Point, WriterInvOf
<1>4. LatestIsComplete'
  <2>1. CASE latest' = latest
    BY <1>2, <2>1, LatestKeeps
  <2>2. CASE latest' = job[p].id
    <3>1. PICK r \in RunIds : r = job[p].id
      BY RunType DEF TypeOK
    <3>2. Complete(r)' /\ r.kind # "rejected"
      BY <1>2, <1>3, <3>1, CompleteKept DEF MovesPointer
    <3> QED
      BY <2>2, <3>1, <3>2 DEF LatestIsComplete
  <2> QED
    BY <1>3, <2>1, <2>2
<1>5. WriterInvOf(p)' /\ \A q \in Readers : pc'[q] = pc[q]
  BY EndKeeps, EndType DEF Point, WriterTypes, Exits
<1> QED
  BY <1>1, <1>2, <1>4, <1>5, WriterStep DEF Write

LEMMA KillKeeps ==
  ASSUME TypeOK, StoreInv, NEW p \in Writers, Kill(p)
  PROVE  StoreInv'
<1>1. UNCHANGED <<candidates, manifests, latest, readers>>
  BY DEF Kill, store
<1>2. WriterInvOf(p)' /\ \A q \in Readers : pc'[q] = pc[q]
  BY EndKeeps, EndType DEF Kill, WriterTypes, Exits
<1> QED
  BY <1>1, <1>2, QuietStep DEF Write

(* A lookup follows a pointer to a whole run, and finds what it names.     *)
LEMMA LookupKeeps ==
  ASSUME TypeOK, StoreInv, NEW p \in Readers, Lookup(p)
  PROVE  StoreInv'
<1>1. UNCHANGED <<candidates, manifests, latest>> /\ UNCHANGED <<store, writers>>
  BY DEF Lookup, ReadPointer, ReadManifest, ReadCandidate, store
<1>2. ReaderInvOf(p)
  BY DEF StoreInv
<1>3. ASSUME NEW status \in Answers \ {"ARTIFACT_INVALID", "NOT_RECORDED"}, Answer(p, status)
      PROVE  /\ LookupsAreAnswered' /\ pc' = [pc EXCEPT ![p] = "idle"]
             /\ \A q \in Readers : ReaderInvOf(q)'
  <2>1. \A q \in Readers : answer'[q] \notin {"ARTIFACT_INVALID", "NOT_RECORDED"}
    BY <1>3 DEF Answer, StoreInv, LookupsAreAnswered, TypeOK
  <2>2. ASSUME NEW q \in Readers PROVE ReaderInvOf(q)'
    <3>1. CASE q = p
      BY <1>3, <3>1 DEF Answer, ReaderInvOf, TypeOK
    <3>2. CASE q # p
      <4>1. pc'[q] = pc[q] /\ run'[q] = run[q] /\ coin'[q] = coin[q]
        BY <1>3, <3>2 DEF Answer, TypeOK
      <4> QED
        BY <1>1, <4>1 DEF StoreInv, ReaderInvOf, Complete
    <3> QED
      BY <3>1, <3>2
  <2> QED
    BY <1>3, <2>1, <2>2 DEF LookupsAreAnswered, Answer
<1>4. /\ LookupsAreAnswered' /\ \E next \in ReaderPcs : pc' = [pc EXCEPT ![p] = next]
      /\ \A q \in Readers : ReaderInvOf(q)'
  <2>1. CASE ReadPointer(p)
    <3>1. CASE /\ latest # NoRun
               /\ pc' = [pc EXCEPT ![p] = "manifest"]
               /\ run' = [run EXCEPT ![p] = latest]
               /\ answer' = [answer EXCEPT ![p] = "NONE"]
               /\ UNCHANGED coin
      <4>1. latest.kind # "rejected" /\ Complete(latest)
        BY <3>1 DEF StoreInv, LatestIsComplete
      <4>2. ASSUME NEW q \in Readers PROVE ReaderInvOf(q)'
        <5>1. CASE q = p
          <6>1. run'[q] = latest /\ pc'[q] = "manifest"
            BY <3>1, <5>1 DEF TypeOK
          <6> QED
            BY <1>1, <4>1, <6>1 DEF ReaderInvOf, Complete
        <5>2. CASE q # p
          <6>1. pc'[q] = pc[q] /\ run'[q] = run[q] /\ coin'[q] = coin[q]
            BY <3>1, <5>2 DEF TypeOK
          <6> QED
            BY <1>1, <6>1 DEF StoreInv, ReaderInvOf, Complete
        <5> QED
          BY <5>1, <5>2
      <4>3. LookupsAreAnswered'
        BY <3>1 DEF StoreInv, LookupsAreAnswered, TypeOK
      <4> QED
        BY <3>1, <4>2, <4>3 DEF ReaderPcs
    <3>2. CASE Answer(p, "NO_SUCCESSFUL_RUN") \/ Answer(p, "READ_ERROR")
      BY <1>3, <3>2 DEF Answers, ReaderPcs
    <3> QED
      BY <2>1, <3>1, <3>2 DEF ReadPointer
  <2>2. CASE ReadManifest(p)
    <3>1. manifests[run[p]] # Absent
      BY <1>2, <2>2 DEF ReadManifest, ReaderInvOf, Complete
    <3>2. CASE /\ run[p].date # Undated
               /\ \E c \in Range(run[p].ranking) : coin' = [coin EXCEPT ![p] = c]
               /\ pc' = [pc EXCEPT ![p] = "candidate"]
               /\ UNCHANGED <<run, answer>>
      <4>1. ASSUME NEW q \in Readers PROVE ReaderInvOf(q)'
        <5>1. CASE q = p
          <6>1. run'[q] = run[p] /\ pc'[q] = "candidate" /\ coin'[q] \in Range(run[p].ranking)
            BY <3>2, <5>1 DEF TypeOK
          <6>2. run[p].kind # "rejected" /\ Complete(run[p])
            BY <1>2, <2>2 DEF ReadManifest, ReaderInvOf
          <6> QED
            BY <1>1, <3>2, <6>1, <6>2 DEF ReaderInvOf, Complete
        <5>2. CASE q # p
          <6>1. pc'[q] = pc[q] /\ run'[q] = run[q] /\ coin'[q] = coin[q]
            BY <3>2, <5>2 DEF TypeOK
          <6> QED
            BY <1>1, <6>1 DEF StoreInv, ReaderInvOf, Complete
        <5> QED
          BY <5>1, <5>2
      <4> QED
        BY <3>2, <4>1 DEF StoreInv, LookupsAreAnswered, ReaderPcs
    <3>3. CASE \E status \in {"LEGACY_RUN_INCOMPLETE", "NOT_IN_UNIVERSE", "READ_ERROR"} : Answer(p, status)
      BY <1>3, <3>3 DEF Answers, ReaderPcs
    <3> QED
      BY <2>2, <3>1, <3>2, <3>3 DEF ReadManifest
  <2>3. CASE ReadCandidate(p)
    <3>1. candidates[run[p]][coin[p]] # Absent
      <4>1. Complete(run[p]) /\ run[p].date # Undated /\ coin[p] \in Range(run[p].ranking) /\ run[p] \in RunIds
        BY <1>2, <2>3 DEF ReadCandidate, ReaderInvOf, TypeOK
      <4>2. PICK i \in DOMAIN run[p].ranking : run[p].ranking[i] = coin[p]
        BY <4>1 DEF Range
      <4>3. candidates[run[p]][coin[p]] = [rank |-> i, extra |-> NoExtra] /\ i \in Nat
        BY <4>1, <4>2, RunIdsAssumption DEF Complete, Recorded, IsRunId
      <4> QED
        BY <4>3, AbsentAssumption
    <3> QED
      BY <1>3, <2>3, <3>1 DEF ReadCandidate, Answers, ReaderPcs
  <2> QED
    BY <2>1, <2>2, <2>3 DEF Lookup
<1>5. \A q \in Writers : pc'[q] = pc[q]
  BY <1>4, ProcsAssumption DEF TypeOK
<1> QED
  BY <1>1, <1>4, <1>5, WritersKeep DEF StoreInv

LEMMA StoreStep ==
  ASSUME TypeOK, StoreInv, Next
  PROVE  StoreInv'
<1>1. CASE \E p \in Writers : Write(p)
  BY <1>1, RecordKeeps, DecideKeeps, CheckFileKeeps, WriteFileKeeps, PointKeeps, KillKeeps DEF Write
<1>2. CASE \E p \in Readers : Lookup(p)
  BY <1>2, LookupKeeps
<1> QED
  BY <1>1, <1>2 DEF Next

LEMMA StoreInvariant == Spec => []StoreInv
<1>1. Init => StoreInv
  <2> SUFFICES ASSUME Init PROVE StoreInv
    OBVIOUS
  <2>1. LatestIsComplete /\ LookupsAreAnswered
    BY DEF Init, LatestIsComplete, LookupsAreAnswered
  <2>2. \A p \in Writers : WriterInvOf(p)
    BY DEF Init, WriterInvOf, Writing
  <2>3. \A p \in Readers : ReaderInvOf(p)
    BY DEF Init, ReaderInvOf
  <2>4. RunTexts
    BY DEF Init, RunTexts
  <2> QED
    BY <2>1, <2>2, <2>3, <2>4 DEF StoreInv
<1>2. TypeOK /\ StoreInv /\ [Next]_vars => StoreInv'
  <2>1. CASE UNCHANGED vars
    BY <2>1 DEF vars, StoreInv, LatestIsComplete, LookupsAreAnswered, RunTexts, WriterInvOf, ReaderInvOf,
      Complete, AtManifest, MovesPointer
  <2> QED
    BY <2>1, StoreStep
<1> QED
  BY <1>1, <1>2, TypeInvariant, PTL DEF Spec
----------------------------------------------------------------------------
(* latest.json names a published run, all of whose files are there.        *)
THEOREM LatestIsAlwaysComplete == Spec => []LatestIsComplete
<1>1. StoreInv => LatestIsComplete
  BY DEF StoreInv
<1> QED
  BY <1>1, StoreInvariant, PTL

(* No lookup finds a file of the run it was sent to missing.               *)
THEOREM LookupsAreAlwaysAnswered == Spec => []LookupsAreAnswered
<1>1. StoreInv => LookupsAreAnswered
  BY DEF StoreInv
<1> QED
  BY <1>1, StoreInvariant, PTL
----------------------------------------------------------------------------
LEMMA PutFileOwn ==
  ASSUME TypeOK, OwnTexts, NEW p \in Writers, PutFile(p)
  PROVE  OwnTexts'
<1> SUFFICES ASSUME NEW r \in RunIds, r.kind = "approved", ListsOnce(r)
             PROVE  /\ manifests'[r] \in {Absent, NoExtra}
                    /\ \A i \in DOMAIN r.ranking :
                         candidates'[r][r.ranking[i]] \in {Absent, [rank |-> i, extra |-> NoExtra]}
  BY DEF OwnTexts
<1>1. /\ manifests[r] \in {Absent, NoExtra}
      /\ \A i \in DOMAIN r.ranking : candidates[r][r.ranking[i]] \in {Absent, [rank |-> i, extra |-> NoExtra]}
  BY DEF OwnTexts
<1>2. job[p] \in Runs /\ (job[p].id = r => job[p].extra = NoExtra)
  BY DEF TypeOK, Runs
<1>3. CASE AtManifest(p)
  <2>1. manifests' = [manifests EXCEPT ![job[p].id] = job[p].extra] /\ UNCHANGED candidates
    BY <1>3 DEF PutFile, FileText
  <2> QED
    BY <1>1, <1>2, <2>1 DEF TypeOK
<1>4. CASE ~AtManifest(p)
  <2>1. candidates' = [candidates EXCEPT ![job[p].id][CoinAt(p)] = CandidateText(job[p], at[p])] /\ UNCHANGED manifests
    BY <1>4 DEF PutFile, FileText
  <2>2. at[p] \in DOMAIN job[p].id.ranking /\ CoinAt(p) = job[p].id.ranking[at[p]]
    BY <1>4, FileType DEF CoinAt
  <2>3. job[p].id = r => CandidateText(job[p], at[p]) = [rank |-> at[p], extra |-> NoExtra]
    BY DEF CandidateText
  <2>4. ASSUME NEW i \in DOMAIN r.ranking
        PROVE  candidates'[r][r.ranking[i]] \in {Absent, [rank |-> i, extra |-> NoExtra]}
    <3>1. r.ranking[i] \in Coins
      BY RunIdsAssumption DEF IsRunId
    <3>2. CASE job[p].id = r /\ CoinAt(p) = r.ranking[i]
      <4>1. i = at[p]
        BY <2>2, <3>2 DEF ListsOnce
      <4> QED
        BY <2>1, <2>3, <3>1, <3>2, <4>1 DEF TypeOK
    <3>3. CASE ~(job[p].id = r /\ CoinAt(p) = r.ranking[i])
      <4>1. candidates'[r][r.ranking[i]] = candidates[r][r.ranking[i]]
        BY <2>1, <3>1, <3>3 DEF TypeOK
      <4> QED
        BY <1>1, <4>1
    <3> QED
      BY <3>2, <3>3
  <2> QED
    BY <1>1, <2>1, <2>4
<1> QED
  BY <1>3, <1>4

LEMMA OwnTextsInvariant == Spec => []OwnTexts
<1>1. Init => OwnTexts
  <2> SUFFICES ASSUME Init PROVE OwnTexts
    OBVIOUS
  <2>1. ASSUME NEW r \in RunIds, NEW i \in DOMAIN r.ranking
        PROVE  r.ranking[i] \in Coins
    BY RunIdsAssumption DEF IsRunId
  <2> QED
    BY <2>1 DEF Init, OwnTexts
<1>2. TypeOK /\ OwnTexts /\ [Next]_vars => OwnTexts'
  <2> SUFFICES ASSUME TypeOK, OwnTexts, [Next]_vars PROVE OwnTexts'
    OBVIOUS
  <2>1. CASE UNCHANGED <<candidates, manifests>>
    BY <2>1 DEF OwnTexts
  <2>2. CASE \E p \in Writers : WriteFile(p)
    BY <2>1, <2>2, PutFileOwn DEF WriteFile
  <2> QED
    BY <2>1, <2>2 DEF vars, Next, Write, Lookup, Record, Import, Decide, CheckFile, Point, Kill, ReadPointer,
      ReadManifest, ReadCandidate, store
<1> QED
  BY <1>1, <1>2, TypeInvariant, PTL DEF Spec

(* Recording a published run is refused only when it lists a pair twice,   *)
(* however many writers there are and whatever they left behind.           *)
THEOREM PublishedRunsAreRecorded == Spec => PublishedIsNeverRefused
<1>1. ASSUME TypeOK, OwnTexts, Next,
             NEW p \in Writers, pc[p] # "idle", pc'[p] = "idle", exit'[p] = "refused", job[p].id.kind = "approved"
      PROVE  ~ListsOnce(job[p].id)
  <2>1. ASSUME NEW q \in Writers, NEW code \in Exits, End(q, code)
        PROVE  q = p /\ code = "refused"
    BY <1>1, <2>1 DEF End, TypeOK
  <2>2. CheckFile(p) /\ FileNow(p) \notin {Absent, FileText(p)}
    <3>1. PICK q \in Writers : Write(q)
      <4>1. ASSUME NEW q \in Readers, Lookup(q)
            PROVE  pc'[p] = pc[p]
        <5>1. \/ pc' = [pc EXCEPT ![q] = "idle"]
              \/ pc' = [pc EXCEPT ![q] = "manifest"]
              \/ pc' = [pc EXCEPT ![q] = "candidate"]
          <6>1. ReadPointer(q) \/ ReadCandidate(q) => pc' = [pc EXCEPT ![q] = "idle"] \/ pc' = [pc EXCEPT ![q] = "manifest"]
            BY DEF ReadPointer, ReadCandidate, Answer
          <6>2. ReadManifest(q) => pc' = [pc EXCEPT ![q] = "idle"] \/ pc' = [pc EXCEPT ![q] = "candidate"]
            BY DEF ReadManifest, Answer
          <6> QED
            BY <4>1, <6>1, <6>2 DEF Lookup
        <5> QED
          BY <1>1, <5>1, ProcsAssumption DEF TypeOK
      <4> QED
        BY <1>1, <4>1 DEF Next
    <3>2. ~NextFile(q)
      <4>1. NextFile(q) => pc'[p] # "idle" \/ End(q, "ok")
        BY <1>1 DEF NextFile, Goto, TypeOK
      <4> QED
        BY <1>1, <2>1, <4>1 DEF Exits
    <3>3. ~(Record(q) \/ Import(q) \/ Decide(q))
      BY <1>1 DEF Record, Import, Decide, TypeOK
    <3>4. ~(WriteFile(q) \/ Point(q) \/ Kill(q))
      BY <2>1, <3>2 DEF WriteFile, Point, Kill, Exits
    <3>5. CheckFile(q)
      BY <3>1, <3>3, <3>4 DEF Write
    <3>6. ~Goto(q, "write")
      BY <1>1 DEF Goto, TypeOK
    <3>7. FileNow(q) \notin {Absent, FileText(q)} /\ End(q, "refused")
      BY <2>1, <3>2, <3>5, <3>6 DEF CheckFile, Exits
    <3> QED
      BY <2>1, <3>5, <3>7 DEF Exits
  <2>3. job[p] \in Runs /\ job[p].id \in RunIds /\ job[p].extra = NoExtra
    BY <1>1, RunType DEF TypeOK, Runs
  <2>4. SUFFICES ASSUME ListsOnce(job[p].id)
                 PROVE  FileNow(p) \in {Absent, FileText(p)}
    BY <2>2
  <2>5. CASE AtManifest(p)
    BY <1>1, <2>3, <2>4, <2>5 DEF OwnTexts, FileNow, FileText
  <2>6. CASE ~AtManifest(p)
    <3>1. at[p] \in DOMAIN job[p].id.ranking
      BY <1>1, <2>6, FileType
    <3>2. candidates[job[p].id][CoinAt(p)] \in {Absent, [rank |-> at[p], extra |-> NoExtra]}
      BY <1>1, <2>3, <2>4, <3>1 DEF OwnTexts, CoinAt
    <3> QED
      BY <1>1, <2>6, <3>2 DEF FileNow, FileText, CandidateText
  <2> QED
    BY <2>5, <2>6
<1>2. TypeOK /\ OwnTexts /\ [Next]_vars =>
        [\A p \in Writers : pc[p] # "idle" /\ pc'[p] = "idle" /\ exit'[p] = "refused"
           => job[p].id.kind # "approved" \/ ~ListsOnce(job[p].id)]_vars
  BY <1>1
<1> QED
  BY <1>2, TypeInvariant, OwnTextsInvariant, PTL DEF Spec, PublishedIsNeverRefused
(* A writer comes to a write from the look that found no file.             *)
LEMMA WriterLooks ==
  ASSUME TypeOK, NEW p \in Writers, Write(p), pc'[p] = "write"
  PROVE  FileNow(p) = Absent /\ UNCHANGED <<candidates, manifests, job, at>>
<1>1. ASSUME NEW code
      PROVE  ~End(p, code)
  BY DEF End, TypeOK
<1>2. ~NextFile(p)
  BY <1>1 DEF NextFile, Goto, TypeOK
<1>3. CheckFile(p) /\ Goto(p, "write")
  BY <1>1, <1>2 DEF Write, Record, Import, Decide, CheckFile, WriteFile, Point, Kill, TypeOK
<1>4. FileNow(p) = Absent
  BY <1>2, <1>1, <1>3 DEF CheckFile, Goto
<1> QED
  BY <1>3, <1>4 DEF CheckFile, Goto, store, writers

LEMMA FilesChange ==
  ASSUME TypeOK, Next
  PROVE  \/ UNCHANGED <<candidates, manifests>>
         \/ \E p \in Writers : Write(p) /\ pc[p] = "write" /\ PutFile(p)
BY DEF Next, Write, Lookup, Record, Import, Decide, CheckFile, WriteFile, Point, Kill, ReadPointer, ReadManifest,
  ReadCandidate, store

LEMMA ManifestReplaced ==
  ASSUME TypeOK, Next, NEW r \in RunIds, manifests'[r] # manifests[r]
  PROVE  \E p \in Writers : Write(p) /\ pc[p] = "write" /\ job[p].id = r /\ AtManifest(p)
<1>1. PICK p \in Writers : Write(p) /\ pc[p] = "write" /\ PutFile(p)
  BY FilesChange
<1>2. job[p].id \in RunIds
  BY RunType DEF TypeOK
<1>3. AtManifest(p) /\ manifests' = [manifests EXCEPT ![job[p].id] = FileText(p)]
  BY <1>1 DEF PutFile
<1>4. job[p].id = r
  BY <1>2, <1>3 DEF TypeOK
<1> QED
  BY <1>1, <1>3, <1>4

LEMMA CandidateReplaced ==
  ASSUME TypeOK, Next, NEW r \in RunIds, NEW c \in Coins, candidates'[r][c] # candidates[r][c]
  PROVE  \E p \in Writers : Write(p) /\ pc[p] = "write" /\ job[p].id = r /\ ~AtManifest(p) /\ CoinAt(p) = c
<1>1. PICK p \in Writers : Write(p) /\ pc[p] = "write" /\ PutFile(p)
  BY FilesChange
<1>2. job[p].id \in RunIds
  BY RunType DEF TypeOK
<1>3. ~AtManifest(p) /\ candidates' = [candidates EXCEPT ![job[p].id][CoinAt(p)] = FileText(p)]
  BY <1>1 DEF PutFile
<1>4. job[p].id = r /\ CoinAt(p) = c
  BY <1>2, <1>3 DEF TypeOK
<1> QED
  BY <1>1, <1>3, <1>4

(* However many writers there are, a recorded file is replaced only by one *)
(* that found it missing, and it was put there by another one of the same  *)
(* run between that look and the write.                                    *)
THEOREM RecordsStayImmutable == Spec => RecordsAreImmutable
<1>1. ASSUME TypeOK, Next, NEW r \in RunIds, manifests[r] \notin {Absent, manifests'[r]}
      PROVE  \E p \in Writers : Superseded(p) /\ job[p].id = r /\ AtManifest(p)
  <2>1. PICK p \in Writers : Write(p) /\ pc[p] = "write" /\ job[p].id = r /\ AtManifest(p)
    BY <1>1, ManifestReplaced
  <2> QED
    BY <1>1, <2>1 DEF Superseded, FileNow
<1>2. ASSUME TypeOK, Next, NEW r \in RunIds, NEW c \in Coins, candidates[r][c] \notin {Absent, candidates'[r][c]}
      PROVE  \E p \in Writers : Superseded(p) /\ job[p].id = r /\ ~AtManifest(p) /\ CoinAt(p) = c
  <2>1. PICK p \in Writers : Write(p) /\ pc[p] = "write" /\ job[p].id = r /\ ~AtManifest(p) /\ CoinAt(p) = c
    BY <1>2, CandidateReplaced
  <2> QED
    BY <1>2, <2>1 DEF Superseded, FileNow
<1>3. ASSUME TypeOK, Next, NEW q \in Writers, Superseded(q)', ~Superseded(q)
      PROVE  \E p \in Writers \ {q} : pc[p] = "write" /\ job[p].id = job[q].id
  <2>1. pc'[q] = "write" /\ FileNow(q)' # Absent
    BY <1>3 DEF Superseded
  <2>2. ~Write(q)
    <3>1. ASSUME Write(q) PROVE FALSE
      <4>1. FileNow(q) = Absent /\ UNCHANGED <<candidates, manifests, job, at>>
        BY <1>3, <2>1, <3>1, WriterLooks
      <4> QED
        BY <2>1, <4>1 DEF FileNow, AtManifest, CoinAt
    <3> QED
      BY <3>1
  <2>3. pc'[q] = pc[q] /\ job'[q] = job[q] /\ at'[q] = at[q]
    <3>1. CASE \E p \in Writers : Write(p)
      BY <1>3, <2>2, <3>1, WriterMoves, WriterPlaces
    <3>2. CASE \E p \in Readers : Lookup(p)
      BY <1>3, <3>2, LookupLeaves DEF writers
    <3> QED
      BY <1>3, <3>1, <3>2 DEF Next
  <2>4. FileNow(q) = Absent
    BY <1>3, <2>1, <2>3 DEF Superseded
  <2>5. job[q].id \in RunIds
    BY <1>3, RunType DEF TypeOK
  <2>6. PICK r \in RunIds : r = job[q].id
    BY <2>5
  <2>7. CASE AtManifest(q)
    <3>1. manifests'[r] # manifests[r]
      BY <2>1, <2>3, <2>4, <2>6, <2>7 DEF FileNow, AtManifest
    <3>2. PICK p \in Writers : Write(p) /\ pc[p] = "write" /\ job[p].id = r
      BY <1>3, <3>1, ManifestReplaced
    <3> QED
      BY <2>2, <2>6, <3>2
  <2>8. CASE ~AtManifest(q)
    <3>1. PICK c \in Coins : c = CoinAt(q)
      BY <1>3, <2>8, FileType
    <3>2. candidates'[r][c] # candidates[r][c]
      BY <2>1, <2>3, <2>4, <2>6, <2>8, <3>1 DEF FileNow, AtManifest, CoinAt
    <3>3. PICK p \in Writers : Write(p) /\ pc[p] = "write" /\ job[p].id = r
      BY <1>3, <3>2, CandidateReplaced
    <3> QED
      BY <2>2, <2>6, <3>3
  <2> QED
    BY <2>7, <2>8
<1>4. TypeOK /\ [Next]_vars =>
        [/\ \A r \in RunIds :
              /\ manifests[r] \notin {Absent, manifests'[r]}
                    => \E p \in Writers : Superseded(p) /\ job[p].id = r /\ AtManifest(p)
              /\ \A c \in Coins : candidates[r][c] \notin {Absent, candidates'[r][c]}
                    => \E p \in Writers : Superseded(p) /\ job[p].id = r /\ ~AtManifest(p) /\ CoinAt(p) = c
         /\ \A p \in Writers : Superseded(p)' =>
              Superseded(p) \/ \E q \in Writers \ {p} : pc[q] = "write" /\ job[q].id = job[p].id]_vars
  BY <1>1, <1>2, <1>3
<1> QED
  BY <1>4, TypeInvariant, PTL DEF Spec, RecordsAreImmutable

(* One writer at a time replaces no file, whatever it finds.               *)
FilesStay ==
  \A r \in RunIds :
    /\ manifests[r] # Absent => manifests'[r] = manifests[r]
    /\ \A c \in Coins : candidates[r][c] # Absent => candidates'[r][c] = candidates[r][c]

THEOREM OneWriterReplacesNothing ==
  ASSUME SoleWriter
  PROVE  Spec => [][FilesStay]_vars
<1> DEFINE NoneSuperseded == \A p \in Writers : ~Superseded(p)
           Replaces ==
             /\ \A r \in RunIds :
                  /\ manifests[r] \notin {Absent, manifests'[r]}
                        => \E p \in Writers : Superseded(p) /\ job[p].id = r /\ AtManifest(p)
                  /\ \A c \in Coins : candidates[r][c] \notin {Absent, candidates'[r][c]}
                        => \E p \in Writers : Superseded(p) /\ job[p].id = r /\ ~AtManifest(p) /\ CoinAt(p) = c
             /\ \A p \in Writers : Superseded(p)' =>
                  Superseded(p) \/ \E q \in Writers \ {p} : pc[q] = "write" /\ job[q].id = job[p].id
<1>1. Init => NoneSuperseded
  BY DEF Init, Superseded
<1>2. NoneSuperseded /\ [Replaces]_vars => NoneSuperseded' /\ [FilesStay]_vars
  <2> SUFFICES ASSUME NoneSuperseded, [Replaces]_vars
               PROVE  NoneSuperseded' /\ [FilesStay]_vars
    OBVIOUS
  <2>1. CASE UNCHANGED vars
    BY <2>1 DEF vars, Superseded, FileNow, AtManifest, CoinAt
  <2>2. CASE Replaces
    <3>1. \A p \in Writers : Writers \ {p} = {}
      BY DEF SoleWriter
    <3>2. NoneSuperseded'
      BY <2>2, <3>1
    <3>3. FilesStay
      BY <2>2 DEF FilesStay
    <3> QED
      BY <3>2, <3>3
  <2> QED
    BY <2>1, <2>2
<1>3. Spec => [][Replaces]_vars
  BY RecordsStayImmutable DEF RecordsAreImmutable
<1>4. Spec => Init
  BY DEF Spec
<1> QED
  BY <1>1, <1>2, <1>3, <1>4, PTL

(* Only a run that moves the pointer gets as far as latest.json.           *)
PointInv == \A p \in Writers : pc[p] = "point" => MovesPointer(p)

LEMMA PointInvariant == Spec => []PointInv
<1>1. Init => PointInv
  BY DEF Init, PointInv
<1>2. TypeOK /\ PointInv /\ [Next]_vars => PointInv'
  <2> SUFFICES ASSUME TypeOK, PointInv, [Next]_vars, NEW q \in Writers, pc'[q] = "point"
               PROVE  MovesPointer(q)'
    BY DEF PointInv
  <2>1. CASE pc[q] = "point" /\ job'[q] = job[q] /\ seen'[q] = seen[q]
    BY <2>1 DEF PointInv, MovesPointer
  <2>2. ASSUME NEW p \in Writers, Write(p) PROVE MovesPointer(q)'
    <3>1. CASE p = q
      <4>1. job' = job /\ seen' = seen /\ MovesPointer(q)
        BY <2>2, <3>1, WriterMoves
      <4> QED
        BY <4>1 DEF MovesPointer
    <3>2. CASE p # q
      BY <2>1, <2>2, <3>2, WriterMoves
    <3> QED
      BY <3>1, <3>2
  <2>3. CASE UNCHANGED vars
    BY <2>1, <2>3 DEF vars
  <2>4. ASSUME NEW p \in Readers, Lookup(p) PROVE MovesPointer(q)'
    BY <2>1, <2>4, LookupLeaves DEF writers
  <2> QED
    BY <2>2, <2>3, <2>4 DEF Next
<1> QED
  BY <1>1, <1>2, TypeInvariant, PTL DEF Spec

(* However many builds and imports are under way, an import takes the      *)
(* pointer from an original run, or from an import of a later date text,   *)
(* only if another run took the pointer after it had decided, or if it     *)
(* could not read the pointer.                                             *)
THEOREM OriginalsOutrankImports == Spec => OriginalOutranksImport
<1>1. ASSUME TypeOK, PointInv, Next, latest' # latest, latest'.kind = "legacy", ~MayFollow(latest', latest)
      PROVE  \E p \in Writers : Overtaken(p) /\ job[p].id = latest'
  <2>1. PICK p \in Writers : Point(p)
    BY <1>1 DEF Next, Write, Lookup, Record, Import, Decide, CheckFile, WriteFile, Kill, ReadPointer, ReadManifest,
      ReadCandidate, store
  <2>2. latest' = job[p].id /\ pc[p] = "point"
    BY <1>1, <2>1 DEF Point
  <2> QED
    BY <1>1, <2>2 DEF PointInv, Overtaken
<1>2. ASSUME TypeOK, Next, NEW q \in Writers, Overtaken(q)', latest' = latest, seen'[q] # Unreadable
      PROVE  Overtaken(q)
  <2>1. /\ pc'[q] \in {"check", "write", "point"} /\ job'[q].id.kind = "legacy"
        /\ MovesPointer(q)' /\ ~MayFollow(job'[q].id, latest)
    BY <1>2 DEF Overtaken, MayFollow
  <2>2. CASE pc[q] \in {"check", "write", "point"} /\ job'[q] = job[q] /\ seen'[q] = seen[q]
    BY <2>1, <2>2 DEF Overtaken, MovesPointer
  <2>3. ASSUME NEW p \in Writers, Write(p) PROVE Overtaken(q)
    <3>1. CASE p = q
      <4>1. CASE seen'[q] = latest
        <5>1. ShouldAdvance(job'[q].id, latest)
          BY <2>1, <4>1 DEF MovesPointer
        <5> QED
          BY <1>2, <2>1, <5>1, NoRunAssumption DEF ShouldAdvance, MayFollow, TypeOK
      <4> QED
        BY <1>2, <2>1, <2>2, <2>3, <3>1, <4>1, WriterMoves
    <3>2. CASE p # q
      BY <1>2, <2>1, <2>2, <2>3, <3>2, WriterMoves
    <3> QED
      BY <3>1, <3>2
  <2>4. ASSUME NEW p \in Readers, Lookup(p) PROVE Overtaken(q)
    BY <1>2, <2>1, <2>2, <2>4, LookupLeaves DEF writers
  <2> QED
    BY <1>2, <2>3, <2>4 DEF Next
<1>3. TypeOK /\ PointInv /\ [Next]_vars =>
        [/\ latest' # latest /\ latest'.kind = "legacy"
              => MayFollow(latest', latest) \/ \E p \in Writers : Overtaken(p) /\ job[p].id = latest'
         /\ \A p \in Writers : Overtaken(p)' => Overtaken(p) \/ latest' # latest \/ seen'[p] = Unreadable]_vars
  BY <1>1, <1>2
<1> QED
  BY <1>3, TypeInvariant, PointInvariant, PTL DEF Spec, OriginalOutranksImport
----------------------------------------------------------------------------
(***************************************************************************)
(* ExplainStore implements AtomicStore.  A write that makes a run whole    *)
(* records it, the moving of the pointer makes it current, and the three   *)
(* reads of a lookup are its beginning and its end.                        *)
(***************************************************************************)
(* The pointer is misread only where a read can fail.                      *)
MisreadInv == \A p \in Writers : seen[p] = Unreadable => "read" \in Faults

LEMMA MisreadInvariant == Spec => []MisreadInv
<1>1. Init => MisreadInv
  BY NoRunAssumption DEF Init, MisreadInv
<1>2. TypeOK /\ MisreadInv /\ [Next]_vars => MisreadInv'
  <2> SUFFICES ASSUME TypeOK, MisreadInv, [Next]_vars, NEW q \in Writers, seen'[q] = Unreadable
               PROVE  "read" \in Faults
    BY DEF MisreadInv
  <2>1. seen'[q] = seen[q] \/ seen'[q] = NoRun \/ seen'[q] = latest \/ "read" \in Faults
    <3>1. CASE UNCHANGED vars
      BY <3>1 DEF vars
    <3>2. CASE \E p \in Readers : Lookup(p)
      BY <3>2 DEF Lookup, ReadPointer, ReadManifest, ReadCandidate, writers
    <3>3. ASSUME NEW p \in Writers, Write(p)
          PROVE  seen'[q] = seen[q] \/ seen'[q] = NoRun \/ seen'[q] = latest \/ "read" \in Faults
      <4>1. CASE Record(p) \/ Import(p)
        BY <4>1 DEF Record, Import
      <4>2. CASE Decide(p)
        BY <4>2 DEF Decide, TypeOK
      <4>3. CASE CheckFile(p)
        BY <4>3 DEF CheckFile, Goto, writers, NextFile, End, TypeOK
      <4>4. CASE WriteFile(p)
        BY <4>4 DEF WriteFile, Goto, writers, NextFile, End, TypeOK
      <4>5. CASE Point(p) \/ Kill(p)
        BY <4>5 DEF Point, Kill, End, TypeOK
      <4> QED
        BY <3>3, <4>1, <4>2, <4>3, <4>4, <4>5 DEF Write
    <3> QED
      BY <3>1, <3>2, <3>3 DEF Next
  <2>2. seen[q] = Unreadable => "read" \in Faults
    BY DEF MisreadInv
  <2> QED
    BY <2>1, <2>2, NoRunAssumption DEF TypeOK
<1> QED
  BY <1>1, <1>2, TypeInvariant, PTL DEF Spec

(* One writer alone acts on the pointer that it read.                      *)
LEMMA SeenInvariant == Spec => []SeenInv
<1>1. Init => SeenInv
  BY DEF Init, SeenInv, Writing
<1>2. TypeOK /\ SeenInv /\ [Next]_vars => SeenInv'
  <2> SUFFICES ASSUME TypeOK, SeenInv, [Next]_vars, SoleWriter, NEW q \in Writers,
                      pc'[q] \in Writing, job'[q].id.kind = "legacy"
               PROVE  seen'[q] \in {latest', Unreadable}
    BY DEF SeenInv, SoleWriter
  <2>1. pc[q] \in Writing /\ job[q].id.kind = "legacy" => seen[q] \in {latest, Unreadable}
    BY DEF SeenInv
  <2>2. CASE UNCHANGED vars
    BY <2>1, <2>2 DEF vars
  <2>3. ASSUME NEW p \in Writers, Write(p)
        PROVE  seen'[q] \in {latest', Unreadable}
    <3>1. p = q
      BY DEF SoleWriter
    <3> QED
      BY <2>1, <2>3, <3>1, WriterMoves DEF Writing
  <2>4. ASSUME NEW p \in Readers, Lookup(p)
        PROVE  seen'[q] \in {latest', Unreadable}
    BY <2>1, <2>4, LookupLeaves DEF store, writers
  <2> QED
    BY <2>2, <2>3, <2>4 DEF Next
<1> QED
  BY <1>1, <1>2, TypeInvariant, PTL DEF Spec

(* A lookup that is not under way holds on to no run.                      *)
RestInv == \A p \in Readers : pc[p] = "idle" => run[p] = NoRun

LEMMA RestInvariant == Spec => []RestInv
<1>1. Init => RestInv
  BY DEF Init, RestInv
<1>2. TypeOK /\ TypeOK' /\ RestInv /\ [Next]_vars => RestInv'
  <2> SUFFICES ASSUME TypeOK, TypeOK', RestInv, [Next]_vars, NEW q \in Readers, pc'[q] = "idle"
               PROVE  run'[q] = NoRun
    BY DEF RestInv
  <2>1. pc[q] = "idle" => run[q] = NoRun
    BY DEF RestInv
  <2>2. CASE UNCHANGED vars
    BY <2>1, <2>2 DEF vars
  <2>3. ASSUME NEW p \in Readers, Lookup(p)
        PROVE  run'[q] = NoRun
    <3>1. ASSUME NEW status, Answer(p, status)
          PROVE  run'[q] = NoRun
      BY <2>1, <3>1 DEF Answer, TypeOK
    <3>2. CASE ReadPointer(p)
      <4>1. CASE pc' = [pc EXCEPT ![p] = "manifest"] /\ run' = [run EXCEPT ![p] = latest]
        BY <2>1, <4>1 DEF TypeOK
      <4> QED
        BY <3>1, <3>2, <4>1 DEF ReadPointer
    <3>3. CASE ReadManifest(p)
      <4>1. CASE pc' = [pc EXCEPT ![p] = "candidate"] /\ UNCHANGED run
        BY <2>1, <4>1 DEF TypeOK
      <4> QED
        BY <3>1, <3>3, <4>1 DEF ReadManifest
    <3>4. CASE ReadCandidate(p)
      BY <3>1, <3>4 DEF ReadCandidate
    <3> QED
      BY <2>3, <3>2, <3>3, <3>4 DEF Lookup
  <2>4. ASSUME NEW p \in Writers, Write(p)
        PROVE  run'[q] = NoRun
    <3>1. UNCHANGED readers
      BY <2>4 DEF Write, Record, Import, Decide, CheckFile, WriteFile, Point, Kill
    <3>2. \E next \in WriterPcs : pc' = [pc EXCEPT ![p] = next]
      <4>1. CASE Record(p) \/ Import(p) \/ Decide(p)
        BY <4>1 DEF Record, Import, Decide, WriterPcs
      <4>2. CASE CheckFile(p) \/ WriteFile(p)
        BY <4>2 DEF CheckFile, WriteFile, Goto, NextFile, End, WriterPcs
      <4>3. CASE Point(p) \/ Kill(p)
        BY <4>3 DEF Point, Kill, End, WriterPcs
      <4> QED
        BY <2>4, <4>1, <4>2, <4>3 DEF Write
    <3>3. pc'[q] = pc[q]
      BY <3>2, ProcsAssumption DEF TypeOK
    <3> QED
      BY <2>1, <3>1, <3>3 DEF readers
  <2> QED
    BY <2>2, <2>3, <2>4 DEF Next
<1> QED
  BY <1>1, <1>2, TypeInvariant, PTL DEF Spec

(* Where no file changes no run becomes whole.                             *)
LEMMA SameRuns ==
  ASSUME UNCHANGED <<candidates, manifests>>
  PROVE  UNCHANGED WholeRuns
BY DEF WholeRuns, Complete

(* A file completes the run it belongs to or none.                         *)
LEMMA WriteRecords ==
  ASSUME TypeOK, Kept, NEW p \in Writers, WriteFile(p)
  PROVE  \/ UNCHANGED WholeRuns
         \/ \E r \in RunIds \ WholeRuns : r.kind # "rejected" /\ WholeRuns' = WholeRuns \union {r}
<1>1. PICK r \in RunIds : r = job[p].id
  BY RunType DEF TypeOK
<1>2. \A s \in RunIds \ {r} : manifests'[s] = manifests[s] /\ candidates'[s] = candidates[s]
  BY <1>1, FileType DEF WriteFile, PutFile, TypeOK
<1>3. \A s \in RunIds \ {r} : Complete(s)' <=> Complete(s)
  BY <1>2 DEF Complete
<1>4. r.kind # "rejected" /\ Complete(r) => Complete(r)'
  BY CompleteKept
<1>5. CASE r.kind = "rejected" \/ (Complete(r)' <=> Complete(r))
  BY <1>3, <1>5 DEF WholeRuns
<1>6. CASE r.kind # "rejected" /\ ~Complete(r) /\ Complete(r)'
  <2>1. \A s \in RunIds : s \in WholeRuns' <=> s \in WholeRuns \/ s = r
    BY <1>3, <1>6 DEF WholeRuns
  <2>2. WholeRuns' = WholeRuns \union {r} /\ r \notin WholeRuns
    BY <1>6, <2>1 DEF WholeRuns
  <2> QED
    BY <1>6, <2>2
<1> QED
  BY <1>4, <1>5, <1>6

Stays == UNCHANGED <<WholeRuns, latest, run, answer>>

LEMMA WriterMaps ==
  ASSUME TypeOK, StoreInv, MisreadInv, SeenInv, NEW p \in Writers, Write(p)
  PROVE  \/ Stays
         \/ \E r \in RunIds \ WholeRuns : Atomic!RecordRun(r)
         \/ \E r \in RunIds \ {latest} : Atomic!MakeCurrent(r)
<1>1. CASE Record(p) \/ Import(p) \/ Decide(p) \/ CheckFile(p) \/ Kill(p)
  BY <1>1, SameRuns DEF Stays, Record, Import, Decide, CheckFile, Kill, store, readers
<1>2. CASE WriteFile(p)
  <2>1. UNCHANGED <<latest, run, answer>>
    BY <1>2 DEF WriteFile, readers
  <2>2. Kept
    BY <1>2, WriteFileKeeps
  <2> QED
    BY <1>2, <2>1, <2>2, WriteRecords DEF Stays, Atomic!RecordRun
<1>3. CASE Point(p)
  <2> DEFINE r == job[p].id
  <2>1. UNCHANGED <<WholeRuns, run, answer>> /\ pc[p] = "point" /\ latest' \in {latest, r}
    BY <1>3, SameRuns DEF Point, readers
  <2>2. r \in RunIds /\ Complete(r) /\ MovesPointer(p)
    BY <2>1, RunType DEF StoreInv, WriterInvOf, TypeOK
  <2>3. r.kind = "legacy" => seen[p] \in {latest, Unreadable} \/ ~SoleWriter
    BY <2>1 DEF SeenInv, Writing
  <2>4. r \in WholeRuns
    BY <2>2 DEF WholeRuns, MovesPointer
  <2>5. \/ r.kind = "approved"
        \/ r.kind = "legacy" /\ (ShouldAdvance(r, latest) \/ "read" \in Faults \/ ~SoleWriter)
    BY <2>2, <2>3 DEF MovesPointer, MisreadInv
  <2>6. <<r, latest>> \in MaySucceed
    BY <2>2, <2>5 DEF MaySucceed, TypeOK
  <2> QED
    BY <2>1, <2>2, <2>4, <2>6 DEF Stays, Atomic!MakeCurrent
<1> QED
  BY <1>1, <1>2, <1>3 DEF Write

LEMMA LookupMaps ==
  ASSUME TypeOK, StoreInv, StoreInv', RestInv, NEW p \in Readers, Lookup(p)
  PROVE  Stays \/ Atomic!Begin(p) \/ Atomic!Finish(p) \/ Atomic!Fail(p)
<1>1. UNCHANGED <<WholeRuns, latest>>
  BY SameRuns DEF Lookup, ReadPointer, ReadManifest, ReadCandidate, store
<1>2. ReaderInvOf(p) /\ answer'[p] \notin {"ARTIFACT_INVALID", "NOT_RECORDED"}
  BY DEF StoreInv, LookupsAreAnswered
<1>3. ASSUME NEW status \in Answers, Answer(p, status)
      PROVE  Atomic!Reply(p, NoRun, status) /\ answer'[p] = status
  BY <1>1, <1>3 DEF Answer, Atomic!Reply, TypeOK
<1>4. ASSUME Answer(p, "READ_ERROR"), "read" \in Faults, run[p] # NoRun \/ latest # NoRun
      PROVE  Atomic!Fail(p)
  BY <1>3, <1>4 DEF Atomic!Fail, Answers
<1>5. CASE ReadPointer(p)
  <2>1. CASE latest = NoRun /\ Answer(p, "NO_SUCCESSFUL_RUN")
    <3>1. run[p] = NoRun
      BY <1>5 DEF ReadPointer, RestInv
    <3> QED
      BY <2>1, <3>1, <1>3 DEF Atomic!Begin, Answers
  <2>2. CASE latest # NoRun /\ run' = [run EXCEPT ![p] = latest] /\ answer' = [answer EXCEPT ![p] = "NONE"]
    BY <1>1, <1>5, <2>2 DEF ReadPointer, RestInv, Atomic!Begin, Atomic!Reply
  <2> QED
    BY <1>4, <1>5, <2>1, <2>2 DEF ReadPointer
<1>6. ASSUME pc[p] # "idle", NEW c \in Coins, Answer(p, Atomic!Verdict(run[p], c))
      PROVE  Atomic!Finish(p)
  <2>1. Atomic!Verdict(run[p], c) \in Answers /\ run[p] # NoRun
    BY <1>6 DEF Atomic!Verdict, Answers, TypeOK
  <2> QED
    BY <1>3, <1>6, <2>1 DEF Atomic!Finish
<1>7. pc[p] # "idle" => run[p] \in RunIds /\ run[p] # NoRun /\ Complete(run[p])
  BY <1>2 DEF ReaderInvOf, TypeOK
<1>8. CASE ReadManifest(p)
  <2>1. pc[p] = "manifest" /\ run[p] \in RunIds /\ manifests[run[p]] # Absent
    BY <1>7, <1>8 DEF ReadManifest, Complete
  <2>2. CASE run[p].date = Undated /\ Answer(p, "LEGACY_RUN_INCOMPLETE")
    BY <1>6, <2>1, <2>2, CoinsAssumption DEF Atomic!Verdict
  <2>3. CASE /\ run[p].date # Undated
             /\ \E c \in Coins : c \notin Range(run[p].ranking)
             /\ Answer(p, "NOT_IN_UNIVERSE")
    BY <1>6, <2>1, <2>3 DEF Atomic!Verdict, Range, Atomic!Range
  <2>4. CASE UNCHANGED <<run, answer>>
    BY <1>1, <2>4 DEF Stays
  <2>5. CASE "read" \in Faults /\ Answer(p, "READ_ERROR")
    BY <1>4, <1>7, <2>1, <2>5
  <2> QED
    BY <1>8, <2>1, <2>2, <2>3, <2>4, <2>5 DEF ReadManifest
<1>9. CASE ReadCandidate(p)
  <2>1. pc[p] = "candidate" /\ run[p].date # Undated /\ coin[p] \in Range(run[p].ranking) /\ coin[p] \in Coins
    BY <1>2, <1>9 DEF ReadCandidate, ReaderInvOf, TypeOK
  <2>2. CASE Answer(p, "NOT_RECORDED")
    BY <1>2, <1>3, <2>2 DEF Answers
  <2>3. CASE Answer(p, "OK")
    BY <1>6, <2>1, <2>3 DEF Atomic!Verdict, Range, Atomic!Range
  <2>4. CASE "read" \in Faults /\ Answer(p, "READ_ERROR")
    BY <1>4, <1>7, <2>1, <2>4
  <2> QED
    BY <1>9, <2>2, <2>3, <2>4 DEF ReadCandidate
<1> QED
  BY <1>5, <1>8, <1>9 DEF Lookup

(* REFINEMENT: every behaviour of the store and its lookups, with any      *)
(* number of writers, is one of a store that records a run in one step.    *)
THEOREM StoreIsAtomic == Spec => ImplementsAtomicStore
<1>1. Init => Atomic!AInit
  <2> SUFFICES ASSUME Init PROVE WholeRuns = {}
    BY DEF Init, Atomic!AInit
  <2> QED
    BY DEF Init, WholeRuns, Complete
<1>2. TypeOK /\ StoreInv /\ StoreInv' /\ MisreadInv /\ SeenInv /\ RestInv /\ [Next]_vars
        => [Atomic!ANext]_<<WholeRuns, latest, run, answer>>
  <2> SUFFICES ASSUME TypeOK, StoreInv, StoreInv', MisreadInv, SeenInv, RestInv, [Next]_vars
               PROVE  Stays \/ Atomic!ANext
    BY DEF Stays
  <2>1. CASE UNCHANGED vars
    BY <2>1, SameRuns DEF vars, Stays
  <2>2. ASSUME NEW p \in Writers, Write(p)
        PROVE  Stays \/ Atomic!ANext
    BY <2>2, WriterMaps DEF Atomic!ANext
  <2>3. ASSUME NEW p \in Readers, Lookup(p)
        PROVE  Stays \/ Atomic!ANext
    BY <2>3, LookupMaps DEF Atomic!ANext
  <2> QED
    BY <2>1, <2>2, <2>3 DEF Next
<1>3. Atomic!avars = <<WholeRuns, latest, run, answer>>
  BY DEF Atomic!avars
<1> QED
  BY <1>1, <1>2, <1>3, TypeInvariant, StoreInvariant, MisreadInvariant, SeenInvariant, RestInvariant, PTL
  DEF Spec, ImplementsAtomicStore, Atomic!ASpec, Atomic!avars
=============================================================================
