------------------------- MODULE ObservationProofs --------------------------
(***************************************************************************)
(* Proofs about the parts that look at what others do: the health that is  *)
(* read from the receipts, the noise budget, and what the service graph    *)
(* tool concludes from manifests.                                          *)
(***************************************************************************)
EXTENDS ReceiptLog, ServiceGraph, FiniteSetTheorems, TLAPS

-----------------------------------------------------------------------------
(* The receipts and the health. *)

\* A file that is written is there with its content, and no other changes.
LEMMA FileWritten ==
  ASSUME NEW name, NEW content, files' = With(name, content)
  PROVE  /\ DOMAIN files' = DOMAIN files \union {name}
         /\ files'[name] = content
         /\ \A n \in DOMAIN files \ {name} : n \in DOMAIN files' /\ files'[n] = files[n]
BY DEF With

\* A receipt is never a torn file.
LEMMA ReceiptIsWhole == \A r \in Receipts : r # Torn
<1> SUFFICES ASSUME NEW r \in Receipts  PROVE r.outcome # Torn.outcome
  OBVIOUS
<1>1. Torn.outcome = "torn"
  BY DEF Torn
<1>2. r.outcome \in Outcomes
  BY DEF Receipts
<1> QED BY <1>1, <1>2 DEF Outcomes, Failures

\* A receipt has one of the known outcomes.
LEMMA OutcomeType ==
  ASSUME NEW gate \in Gates, NEW dryRun \in BOOLEAN, NEW ok \in BOOLEAN
  PROVE  Outcome(gate, dryRun, ok) \in Outcomes
<1>1. CASE gate = "allowed"
  BY <1>1 DEF Outcome, Outcomes, Failures
<1>2. CASE gate # "allowed"
  BY <1>2 DEF Outcome, Outcomes, Failures, Gates
<1> QED BY <1>1, <1>2

\* The file of a cycle that is over is its receipt, and the names of the files
\* are as they are written.
LEMMA FilesOfCycles ==
  ASSUME TypeOK, FilesInv
  PROVE  /\ \A c \in Cycles : pc[c] = "done" => files[Name(receipt[c])] = receipt[c]
         /\ \A n \in DOMAIN files : n[1] \in Nat /\ n[2] \in Cycles /\ n = <<n[1], n[2]>>
<1>1. ASSUME NEW n \in DOMAIN files
      PROVE  \E c \in Cycles :
               /\ pc[c] \in {"open", "done", "dead"} /\ n = Name(receipt[c])
               /\ n = <<n[1], n[2]>> /\ n[1] = receipt[c].second /\ n[2] = c
               /\ n[1] \in Nat
               /\ files[n] = IF pc[c] = "done" THEN receipt[c] ELSE Torn
  <2>1. PICK c \in Cycles :
          /\ pc[c] \in {"open", "done", "dead"} /\ n = Name(receipt[c])
          /\ files[n] = IF pc[c] = "done" THEN receipt[c] ELSE Torn
    BY <1>1 DEF FilesInv
  <2>2. receipt[c] \in Receipts /\ receipt[c].id = c
    BY <2>1 DEF FilesInv
  <2> QED BY <2>1, <2>2 DEF Name, Receipts
<1>2. ASSUME NEW c \in Cycles, pc[c] = "done"
      PROVE  files[Name(receipt[c])] = receipt[c]
  <2> DEFINE n == Name(receipt[c])
  <2>1. n \in DOMAIN files /\ n[2] = c
    BY <1>2 DEF FilesInv, Name
  <2>2. PICK d \in Cycles :
          n[2] = d /\ files[n] = IF pc[d] = "done" THEN receipt[d] ELSE Torn
    BY <1>1, <2>1
  <2> QED BY <1>2, <2>1, <2>2
<1> QED BY <1>1, <1>2

\* No step changes a whole file.
LEMMA WholeFilesKept ==
  ASSUME TypeOK, FilesInv, [Next]_vars, NEW n \in DOMAIN files, files[n] # Torn
  PROVE  n \in DOMAIN files' /\ files'[n] = files[n]
<1> USE DEF cycleVars, checkVars
<1>1. ASSUME NEW c \in Cycles, OpenReceipt(c) \/ WriteReceipt(c)
      PROVE  n \in DOMAIN files' /\ files'[n] = files[n]
  <2>1. PICK d \in Cycles : pc[d] = "done" /\ n = Name(receipt[d])
    BY DEF FilesInv
  <2>2. receipt[c].id = c /\ receipt[d].id = d /\ pc[c] # "done"
    BY <1>1, <2>1 DEF FilesInv, OpenReceipt, WriteReceipt
  <2>3. n # Name(receipt[c])
    BY <2>1, <2>2 DEF Name
  <2>4. PICK content : files' = With(Name(receipt[c]), content)
    BY <1>1 DEF OpenReceipt, WriteReceipt
  <2> QED BY <2>3, <2>4, FileWritten
<1>2. CASE UNCHANGED files
  BY <1>2
<1>3. ASSUME NEW k \in Checks, Check(k)  PROVE UNCHANGED files
  BY <1>3 DEF Check, ListReceipts, ReadReceipt
<1>4. ASSUME NEW c \in Cycles, Build(c) \/ Crash(c)  PROVE UNCHANGED files
  BY <1>4 DEF Build, Crash
<1>5. ASSUME Tick  PROVE UNCHANGED files
  BY <1>5 DEF Tick
<1> QED BY <1>1, <1>2, <1>3, <1>4, <1>5 DEF Next, Cycle, vars

\* While a cycle that is over is alone, its file is the last one.
LEMMA AloneIsLast ==
  ASSUME TypeOK, FilesInv, AloneInv, alone # None, pc[alone] = "done"
  PROVE  Listed(1) = {Name(receipt[alone])}
<1> DEFINE last1 == Name(receipt[alone])
           second == receipt[alone].second
<1>1. alone \in Cycles
  BY DEF TypeOK
<1>2. last1 \in DOMAIN files /\ last1[1] = second /\ second \in Nat
  BY <1>1 DEF FilesInv, Name, Receipts
<1>3. \A n \in DOMAIN files : n = last1 \/ n[1] < second
  BY DEF AloneInv
<1>4. \A n \in DOMAIN files : n[1] \in Nat
  BY FilesOfCycles
<1> HIDE DEF last1, second
<1>5. IsFiniteSet(DOMAIN files)
  BY DEF TypeOK
<1>6. Cardinality({m \in DOMAIN files : Later(m, last1)}) = 0
  <2>1. \A m \in DOMAIN files : ~Later(m, last1)
    <3> SUFFICES ASSUME NEW m \in DOMAIN files, Later(m, last1)  PROVE FALSE
      OBVIOUS
    <3>1. CASE m = last1
      <4>1. last1[2] \in Nat
        BY <1>2, FilesOfCycles, CyclesAssumption
      <4> QED BY <1>2, <3>1, <4>1 DEF Later
    <3>2. CASE m[1] < second
      BY <1>2, <1>4, <3>2 DEF Later
    <3> QED BY <1>3, <3>1, <3>2
  <2>2. {m \in DOMAIN files : Later(m, last1)} = {}
    BY <2>1
  <2> QED BY <2>2, FS_EmptySet
<1>7. ASSUME NEW n \in DOMAIN files, n # last1
      PROVE  ~(Cardinality({m \in DOMAIN files : Later(m, n)}) < 1)
  <2> DEFINE S == {m \in DOMAIN files : Later(m, n)}
  <2>1. last1 \in S
    BY <1>2, <1>3, <1>4, <1>7 DEF Later
  <2>2. IsFiniteSet(S)
    BY <1>5, FS_Subset
  <2> HIDE DEF S
  <2>3. Cardinality(S) \in Nat /\ Cardinality(S) # 0
    BY <2>1, <2>2, FS_CardinalityType, FS_EmptySet
  <2>4. ~(Cardinality(S) < 1)
    BY <2>3
  <2> QED BY <2>4 DEF S
<1>8. Listed(1) = {last1}
  BY <1>2, <1>6, <1>7 DEF Listed
<1> QED BY <1>8 DEF last1

\* Initially there is no file, no receipt and no check.
LEMMA LogInit == Init => LogInv
<1> SUFFICES ASSUME Init  PROVE LogInv
  OBVIOUS
<1>1. DOMAIN files = {}
  BY DEF Init
<1>2. TypeOK
  BY <1>1, FS_EmptySet DEF Init, TypeOK
<1>3. FilesInv
  BY <1>1 DEF Init, FilesInv
<1>4. AloneInv
  BY DEF Init, AloneInv
<1>5. ChecksInv /\ FailureShows
  BY DEF Init, ChecksInv, FailureShows
<1> QED BY <1>2, <1>3, <1>4, <1>5 DEF LogInv

\* A check is undisturbed by a step that keeps the whole files.
LEMMA ChecksKept ==
  ASSUME LogInv, [Next]_vars, UNCHANGED checkVars
  PROVE  ChecksInv' /\ FailureShows'
<1>1. UNCHANGED <<cpc, last, report, failing>>
  BY DEF checkVars
<1>2. TypeOK /\ FilesInv /\ ChecksInv /\ FailureShows
  BY DEF LogInv
<1>3. \A n \in DOMAIN files : files[n] # Torn => n \in DOMAIN files' /\ files'[n] = files[n]
  BY <1>2, WholeFilesKept
<1>4. FailureShows'
  BY <1>1, <1>2 DEF FailureShows
<1> QED BY <1>1, <1>2, <1>3, <1>4 DEF ChecksInv

\* execute and _build_receipt.
LEMMA BuildKept ==
  ASSUME TypeOK, FilesInv, AloneInv, NEW c \in Cycles, Build(c)
  PROVE  TypeOK' /\ FilesInv' /\ AloneInv'
<1> USE DEF checkVars
<1>1. PICK outcome \in Outcomes :
        receipt' = [receipt EXCEPT ![c] = [second |-> clock, id |-> c, outcome |-> outcome]]
  BY OutcomeType DEF Build
<1> DEFINE r == [second |-> clock, id |-> c, outcome |-> outcome]
<1>2. /\ r \in Receipts /\ r.id = c /\ r.second = clock
      /\ receipt' = [receipt EXCEPT ![c] = r]
  BY <1>1 DEF Receipts, TypeOK
<1> HIDE DEF r
<1>3. /\ pc[c] = "start" /\ pc' = [pc EXCEPT ![c] = "built"]
      /\ UNCHANGED <<clock, files, cpc, last, report, failing>>
      /\ alone' \in {c, None}
      /\ alone' = c => /\ \A d \in Cycles : pc[d] \notin {"built", "open"}
                       /\ \A n \in DOMAIN files : n[1] < clock
  BY CyclesAssumption DEF Build, Goto, None
<1>4. /\ pc'[c] = "built" /\ receipt'[c] = r
      /\ \A d \in Cycles \ {c} : pc'[d] = pc[d] /\ receipt'[d] = receipt[d]
  BY <1>2, <1>3 DEF TypeOK
<1>5. TypeOK'
  BY <1>2, <1>3 DEF TypeOK
<1>6. FilesInv'
  <2>1. \A d \in Cycles : pc'[d] # "start" =>
          receipt'[d] \in Receipts /\ receipt'[d].id = d /\ receipt'[d].second <= clock'
    <3> SUFFICES ASSUME NEW d \in Cycles, pc'[d] # "start"
                 PROVE  receipt'[d] \in Receipts /\ receipt'[d].id = d /\ receipt'[d].second <= clock'
      OBVIOUS
    <3>1. CASE d = c
      BY <1>2, <1>3, <1>4, <3>1 DEF TypeOK
    <3>2. CASE d # c
      BY <1>3, <1>4, <3>2 DEF FilesInv
    <3> QED BY <3>1, <3>2
  <2>2. \A n \in DOMAIN files' : \E d \in Cycles :
          /\ pc'[d] \in {"open", "done", "dead"} /\ n = Name(receipt'[d])
          /\ files'[n] = IF pc'[d] = "done" THEN receipt'[d] ELSE Torn
    <3> SUFFICES ASSUME NEW n \in DOMAIN files
                 PROVE  \E d \in Cycles :
                          /\ pc'[d] \in {"open", "done", "dead"} /\ n = Name(receipt'[d])
                          /\ files[n] = IF pc'[d] = "done" THEN receipt'[d] ELSE Torn
      BY <1>3
    <3>1. PICK d \in Cycles :
            /\ pc[d] \in {"open", "done", "dead"} /\ n = Name(receipt[d])
            /\ files[n] = IF pc[d] = "done" THEN receipt[d] ELSE Torn
      BY DEF FilesInv
    <3>2. d # c
      BY <1>3, <3>1
    <3>3. pc'[d] = pc[d] /\ receipt'[d] = receipt[d]
      BY <1>4, <3>2
    <3> QED BY <3>1, <3>3
  <2>3. \A d \in Cycles : pc'[d] = "done" => Name(receipt'[d]) \in DOMAIN files'
    BY <1>3, <1>4 DEF FilesInv
  <2> QED BY <2>1, <2>2, <2>3 DEF FilesInv, Name
<1>7. AloneInv'
  <2> SUFFICES ASSUME alone' # None  PROVE AloneInv'
    BY DEF AloneInv
  <2>1. /\ alone' = c
        /\ \A d \in Cycles : pc[d] \notin {"built", "open"}
        /\ \A n \in DOMAIN files : n[1] < clock
    BY <1>3
  <2>2. \A n \in DOMAIN files' : n[1] < receipt'[c].second
    BY <1>2, <1>3, <1>4, <2>1
  <2> QED BY <1>4, <2>1, <2>2 DEF AloneInv
<1> QED BY <1>5, <1>6, <1>7

\* The two steps of write_receipt.
LEMMA WriteKept ==
  ASSUME TypeOK, FilesInv, AloneInv, NEW c \in Cycles, OpenReceipt(c) \/ WriteReceipt(c)
  PROVE  TypeOK' /\ FilesInv' /\ AloneInv'
<1> USE DEF checkVars
<1> DEFINE name == Name(receipt[c])
<1>1. PICK l \in {"open", "done"} :
        /\ pc' = [pc EXCEPT ![c] = l]
        /\ files' = With(name, IF l = "done" THEN receipt[c] ELSE Torn)
  BY DEF OpenReceipt, WriteReceipt, Goto
<1>2. /\ pc[c] \in {"built", "open"}
      /\ UNCHANGED <<clock, receipt, alone, cpc, last, report, failing>>
  BY DEF OpenReceipt, WriteReceipt
<1>3. /\ DOMAIN files' = DOMAIN files \union {name}
      /\ files'[name] = IF l = "done" THEN receipt[c] ELSE Torn
      /\ \A n \in DOMAIN files \ {name} : files'[n] = files[n]
  <2> HIDE DEF name
  <2> QED BY <1>1, FileWritten
<1>4. pc'[c] = l /\ \A d \in Cycles \ {c} : pc'[d] = pc[d]
  BY <1>1 DEF TypeOK
<1>5. TypeOK'
  <2>1. IsFiniteSet(DOMAIN files')
    <3> HIDE DEF name
    <3>1. IsFiniteSet(DOMAIN files)
      BY DEF TypeOK
    <3> QED BY <1>3, <3>1, FS_AddElement
  <2> QED BY <1>1, <1>2, <2>1 DEF TypeOK
<1>6. FilesInv'
  <2>1. \A d \in Cycles : pc'[d] # "start" =>
          receipt'[d] \in Receipts /\ receipt'[d].id = d /\ receipt'[d].second <= clock'
    BY <1>2, <1>4 DEF FilesInv
  <2>2. ASSUME NEW n \in DOMAIN files'
        PROVE  \E d \in Cycles :
                 /\ pc'[d] \in {"open", "done", "dead"} /\ n = Name(receipt[d])
                 /\ files'[n] = IF pc'[d] = "done" THEN receipt[d] ELSE Torn
    <3>1. CASE n = name
      BY <1>3, <1>4, <3>1
    <3>2. CASE n # name
      <4>1. PICK d \in Cycles :
              /\ pc[d] \in {"open", "done", "dead"} /\ n = Name(receipt[d])
              /\ files[n] = IF pc[d] = "done" THEN receipt[d] ELSE Torn
        BY <1>3, <2>2, <3>2 DEF FilesInv
      <4>2. d # c
        BY <3>2, <4>1
      <4>3. pc'[d] = pc[d] /\ files'[n] = files[n]
        BY <1>3, <1>4, <2>2, <3>2, <4>2
      <4> QED BY <4>1, <4>3
    <3> QED BY <3>1, <3>2
  <2>3. \A d \in Cycles : pc'[d] = "done" => Name(receipt[d]) \in DOMAIN files'
    BY <1>3, <1>4 DEF FilesInv
  <2> HIDE DEF name
  <2> QED BY <1>2, <2>1, <2>2, <2>3 DEF FilesInv
<1>7. AloneInv'
  <2> SUFFICES ASSUME alone # None  PROVE AloneInv'
    BY <1>2 DEF AloneInv
  <2>1. alone = c
    BY <1>2 DEF AloneInv
  <2>2. \A n \in DOMAIN files' : n = Name(receipt[c]) \/ n[1] < receipt[c].second
    BY <1>3, <2>1 DEF AloneInv
  <2> HIDE DEF name
  <2> QED BY <1>2, <1>4, <2>1, <2>2 DEF AloneInv
<1> QED BY <1>5, <1>6, <1>7

\* The death of a cycle, and the passing of time.
LEMMA CrashKept ==
  ASSUME TypeOK, FilesInv, AloneInv, NEW c \in Cycles, Crash(c)
  PROVE  TypeOK' /\ FilesInv' /\ AloneInv'
<1> USE DEF checkVars
<1>1. /\ pc[c] \in {"built", "open"} /\ pc' = [pc EXCEPT ![c] = "dead"]
      /\ UNCHANGED <<clock, files, receipt, alone, cpc, last, report, failing>>
  BY DEF Crash, Goto
<1>2. pc'[c] = "dead" /\ \A d \in Cycles \ {c} : pc'[d] = pc[d]
  BY <1>1 DEF TypeOK
<1>3. TypeOK'
  BY <1>1 DEF TypeOK
<1>4. FilesInv'
  <2>1. \A d \in Cycles : (pc'[d] = "done" <=> pc[d] = "done")
                          /\ (pc'[d] = "start" <=> pc[d] = "start")
                          /\ (pc[d] \in {"open", "done", "dead"} => pc'[d] \in {"open", "done", "dead"})
    BY <1>1, <1>2
  <2> QED BY <1>1, <2>1 DEF FilesInv
<1>5. AloneInv'
  BY <1>1, <1>2 DEF AloneInv
<1> QED BY <1>3, <1>4, <1>5

LEMMA TickKept ==
  ASSUME TypeOK, FilesInv, AloneInv, Tick
  PROVE  TypeOK' /\ FilesInv' /\ AloneInv'
<1>1. clock' = clock + 1 /\ clock \in Nat
      /\ UNCHANGED <<files, pc, receipt, crashes, alone, cpc, last, report, failing>>
  BY DEF Tick, checkVars, TypeOK
<1>2. TypeOK'
  BY <1>1 DEF TypeOK
<1>3. FilesInv'
  <2>1. \A c \in Cycles : pc[c] # "start" => receipt[c].second <= clock'
    BY <1>1 DEF FilesInv, Receipts
  <2> QED BY <1>1, <2>1 DEF FilesInv
<1>4. AloneInv'
  BY <1>1 DEF AloneInv
<1> QED BY <1>2, <1>3, <1>4

\* Neither command calls an outcome good that is a failure.
LEMMA FailuresAreBad ==
  \A command \in DOMAIN GoodOutcomes :
    Failures \intersect (GoodOutcomes[command] \union {"none"}) = {}
BY DEF GoodOutcomes, Failures

\* The last step of a check: what it reports of a failure is not healthy.
LEMMA ReportKept ==
  ASSUME TypeOK, ChecksInv, NEW k \in Checks, NEW outcome, Report(k, outcome)
  PROVE  /\ cpc' = [cpc EXCEPT ![k] = "done"]
         /\ DOMAIN report' = Checks
         /\ \A j \in Checks \ {k} : report'[j] = report[j]
         /\ outcome \in Failures => ~report'[k].healthy
<1>1. PICK command \in DOMAIN GoodOutcomes, rest \in BOOLEAN :
        report' = [report EXCEPT ![k] =
          [command |-> command, outcome |-> outcome, rest |-> rest,
           healthy |-> rest /\ outcome \in GoodOutcomes[command] \union {"none"}]]
  BY DEF Report
<1> DEFINE good == outcome \in GoodOutcomes[command] \union {"none"}
<1>2. outcome \in Failures => ~good
  BY FailuresAreBad
<1>3. report' = [report EXCEPT ![k] =
        [command |-> command, outcome |-> outcome, rest |-> rest, healthy |-> rest /\ good]]
  BY <1>1
<1> HIDE DEF good
<1>4. /\ DOMAIN report' = DOMAIN report
      /\ \A j \in Checks \ {k} : report'[j] = report[j]
      /\ report'[k].healthy = (rest /\ good)
  BY <1>3 DEF TypeOK
<1> QED BY <1>2, <1>4 DEF Report, CGoto, TypeOK

\* last_receipt, up to the name: if a failed cycle is alone, the name is that
\* of its file.
LEMMA ListKept ==
  ASSUME LogInv, NEW k \in Checks, ListReceipts(k)
  PROVE  TypeOK' /\ ChecksInv' /\ FailureShows'
<1> DEFINE failed == alone # None /\ pc[alone] = "done" /\ receipt[alone].outcome \in Failures
<1>0. /\ TypeOK /\ FilesInv /\ AloneInv /\ ChecksInv /\ FailureShows
      /\ cpc[k] = "start" /\ failing' = [failing EXCEPT ![k] = failed]
      /\ UNCHANGED <<clock, files, pc, receipt, crashes, alone>>
  BY DEF LogInv, ListReceipts, cycleVars
<1>1. /\ failing' \in [Checks -> BOOLEAN]
      /\ failing'[k] = failed
      /\ \A j \in Checks \ {k} : failing'[j] = failing[j]
  <2>1. failed \in BOOLEAN
    OBVIOUS
  <2> HIDE DEF failed
  <2> QED BY <1>0, <2>1 DEF TypeOK
<1>2. failed => /\ Listed(1) = {Name(receipt[alone])}
                /\ Name(receipt[alone]) \in DOMAIN files
                /\ files[Name(receipt[alone])] = receipt[alone]
                /\ receipt[alone] # Torn
  <2> SUFFICES ASSUME failed
               PROVE  /\ Listed(1) = {Name(receipt[alone])}
                      /\ Name(receipt[alone]) \in DOMAIN files
                      /\ files[Name(receipt[alone])] = receipt[alone]
                      /\ receipt[alone] # Torn
    OBVIOUS
  <2>1. alone \in Cycles /\ pc[alone] = "done"
    BY <1>0 DEF TypeOK
  <2>2. receipt[alone] \in Receipts /\ Name(receipt[alone]) \in DOMAIN files
    BY <1>0, <2>1 DEF FilesInv
  <2>3. files[Name(receipt[alone])] = receipt[alone]
    BY <1>0, <2>1, FilesOfCycles
  <2>4. Listed(1) = {Name(receipt[alone])}
    BY <1>0, <2>1, AloneIsLast
  <2> QED BY <2>2, <2>3, <2>4, ReceiptIsWhole
<1>3. CASE Listed(1) = {} /\ Report(k, "none") /\ UNCHANGED last
  <2>1. ~failed
    BY <1>2, <1>3
  <2> HIDE DEF failed
  <2>2. /\ cpc' = [cpc EXCEPT ![k] = "done"] /\ DOMAIN report' = Checks
        /\ \A j \in Checks \ {k} : report'[j] = report[j]
    BY <1>0, <1>3, ReportKept
  <2>3. TypeOK'
    BY <1>0, <1>1, <1>3, <2>2 DEF TypeOK
  <2>4. cpc'[k] = "done" /\ \A j \in Checks \ {k} : cpc'[j] = cpc[j]
    BY <1>0, <2>2 DEF TypeOK
  <2>5. ChecksInv'
    BY <1>0, <1>1, <1>3, <2>2, <2>4 DEF ChecksInv
  <2>6. FailureShows'
    BY <1>0, <1>1, <2>1, <2>2 DEF FailureShows
  <2> QED BY <2>3, <2>5, <2>6
<1>4. ASSUME NEW n \in Listed(1), last' = [last EXCEPT ![k] = n], CGoto(k, "read"),
             UNCHANGED report
      PROVE  TypeOK' /\ ChecksInv' /\ FailureShows'
  <2>1. /\ cpc' = [cpc EXCEPT ![k] = "read"] /\ DOMAIN last' = Checks
        /\ last'[k] = n /\ \A j \in Checks \ {k} : last'[j] = last[j]
    BY <1>0, <1>4 DEF CGoto, TypeOK
  <2>2. TypeOK'
    BY <1>0, <1>1, <1>4, <2>1 DEF TypeOK
  <2>3. cpc'[k] = "read" /\ \A j \in Checks \ {k} : cpc'[j] = cpc[j]
    BY <1>0, <2>1 DEF TypeOK
  <2>4. failed => n \in DOMAIN files /\ files[n] # Torn /\ files[n].outcome \in Failures
    BY <1>2, <1>4
  <2> HIDE DEF failed
  <2>5. ~report[k].healthy
    BY <1>0 DEF ChecksInv
  <2>6. ChecksInv'
    <3> SUFFICES ASSUME NEW j \in Checks
                 PROVE  /\ cpc'[j] # "done" => ~report'[j].healthy
                        /\ cpc'[j] = "start" => ~failing'[j]
                        /\ cpc'[j] = "read" /\ failing'[j] =>
                             /\ last'[j] \in DOMAIN files' /\ files'[last'[j]] # Torn
                             /\ files'[last'[j]].outcome \in Failures
      BY DEF ChecksInv
    <3>1. CASE j = k
      BY <1>0, <1>1, <1>4, <2>1, <2>3, <2>4, <2>5, <3>1
    <3>2. CASE j # k
      BY <1>0, <1>1, <1>4, <2>1, <2>3, <3>2 DEF ChecksInv
    <3> QED BY <3>1, <3>2
  <2>7. FailureShows'
    BY <1>0, <1>1, <1>4, <2>5 DEF FailureShows
  <2> QED BY <2>2, <2>6, <2>7
<1> QED BY <1>0, <1>3, <1>4 DEF ListReceipts

\* ... and the reading of the file.
LEMMA ReadKept ==
  ASSUME LogInv, NEW k \in Checks, ReadReceipt(k)
  PROVE  TypeOK' /\ ChecksInv' /\ FailureShows'
<1> DEFINE outcome == IF files[last[k]] = Torn THEN "none" ELSE files[last[k]].outcome
<1>1. /\ TypeOK /\ ChecksInv /\ FailureShows
      /\ cpc[k] = "read" /\ Report(k, outcome)
      /\ UNCHANGED <<clock, files, pc, receipt, crashes, alone, last, failing>>
  BY DEF LogInv, ReadReceipt, cycleVars
<1>2. failing[k] => outcome \in Failures
  BY <1>1 DEF ChecksInv
<1> HIDE DEF outcome
<1>3. /\ cpc' = [cpc EXCEPT ![k] = "done"] /\ DOMAIN report' = Checks
      /\ \A j \in Checks \ {k} : report'[j] = report[j]
      /\ failing[k] => ~report'[k].healthy
  BY <1>1, <1>2, ReportKept
<1>4. TypeOK'
  BY <1>1, <1>3 DEF TypeOK
<1>5. cpc'[k] = "done" /\ \A j \in Checks \ {k} : cpc'[j] = cpc[j]
  BY <1>1, <1>3 DEF TypeOK
<1>6. ChecksInv'
  BY <1>1, <1>3, <1>5 DEF ChecksInv
<1>7. FailureShows'
  BY <1>1, <1>3 DEF FailureShows
<1> QED BY <1>4, <1>6, <1>7

\* Every step preserves the invariant.
LEMMA LogStep == LogInv /\ [Next]_vars => LogInv'
<1> SUFFICES ASSUME LogInv, [Next]_vars  PROVE LogInv'
  OBVIOUS
<1>0. TypeOK /\ FilesInv /\ AloneInv
  BY DEF LogInv
<1>1. ASSUME NEW c \in Cycles, Cycle(c)  PROVE LogInv'
  <2>1. UNCHANGED checkVars
    BY <1>1 DEF Cycle, Build, OpenReceipt, WriteReceipt, Crash
  <2>2. TypeOK' /\ FilesInv' /\ AloneInv'
    BY <1>0, <1>1, BuildKept, WriteKept, CrashKept DEF Cycle
  <2> QED BY <2>1, <2>2, ChecksKept DEF LogInv
<1>2. CASE Tick
  <2>1. UNCHANGED checkVars
    BY <1>2 DEF Tick
  <2> QED BY <1>0, <1>2, <2>1, TickKept, ChecksKept DEF LogInv
<1>3. ASSUME NEW k \in Checks, Check(k)  PROVE LogInv'
  <2>1. UNCHANGED <<clock, files, pc, receipt, alone>>
    BY <1>3 DEF Check, ListReceipts, ReadReceipt, cycleVars
  <2>2. FilesInv' /\ AloneInv'
    BY <1>0, <2>1 DEF FilesInv, AloneInv
  <2> QED BY <1>3, <2>2, ListKept, ReadKept DEF Check, LogInv
<1>4. CASE UNCHANGED vars
  <2>1. UNCHANGED <<clock, files, pc, receipt, alone>> /\ UNCHANGED checkVars
    BY <1>4 DEF vars, cycleVars
  <2>2. TypeOK' /\ FilesInv' /\ AloneInv'
    BY <1>0, <2>1 DEF TypeOK, FilesInv, AloneInv, checkVars
  <2> QED BY <2>1, <2>2, ChecksKept DEF LogInv
<1> QED BY <1>1, <1>2, <1>3, <1>4 DEF Next

\* The invariant of the receipt directory and of the checks that read it.
THEOREM LogInvariant == Spec => []LogInv
BY LogInit, LogStep, PTL DEF Spec

\* `sync check-health` and `sync status` call no host healthy whose last sync
\* failed, was denied or blocked, for any number of cycles and checks, as long
\* as that sync had a second of its own and no other has begun since.
THEOREM FailuresShow == Spec => []FailureShows
<1>1. LogInv => FailureShows
  BY DEF LogInv
<1> QED BY <1>1, LogInvariant, PTL

\* write_receipt never overwrites the receipt of another cycle: the names of
\* two cycles differ, also within a second and after a crash.
THEOREM ReceiptsKept == Spec => ReceiptsAreKept
<1>1. LogInv /\ [Next]_vars =>
        [\A n \in DOMAIN files :
           files[n] # Torn => n \in DOMAIN files' /\ files'[n] = files[n]]_vars
  BY WholeFilesKept DEF LogInv
<1> QED BY <1>1, LogInvariant, PTL DEF Spec, ReceiptsAreKept

\* SyncDaemon takes the receipt store for a set to which write_receipt adds a
\* receipt in one step.  Here it is files that are named, opened and filled.
WholeReceipts == {files[n] : n \in {m \in DOMAIN files : files[m] # Torn}}

WrittenReceipts == {receipt[c] : c \in {d \in Cycles : pc[d] = "done"}}

AddReceipt ==
  \E c \in Cycles : /\ pc[c] = "open" /\ pc'[c] = "done"
                    /\ WholeReceipts' = WholeReceipts \union {receipt[c]}

ReceiptsAreASet == WholeReceipts = {} /\ [][AddReceipt]_WholeReceipts

\* The receipts that list_receipts can parse are those of the cycles that have
\* written theirs: of no other, and of each of these.
LEMMA WholeAreWritten == TypeOK /\ FilesInv => WholeReceipts = WrittenReceipts
<1> SUFFICES ASSUME TypeOK, FilesInv  PROVE WholeReceipts = WrittenReceipts
  OBVIOUS
<1>1. ASSUME NEW n \in DOMAIN files, files[n] # Torn
      PROVE  files[n] \in WrittenReceipts
  <2>1. PICK c \in Cycles : files[n] = IF pc[c] = "done" THEN receipt[c] ELSE Torn
    BY DEF FilesInv
  <2>2. QED BY <1>1, <2>1 DEF WrittenReceipts
<1>2. ASSUME NEW c \in Cycles, pc[c] = "done"
      PROVE  receipt[c] \in WholeReceipts
  <2>1. Name(receipt[c]) \in DOMAIN files /\ receipt[c] \in Receipts
    BY <1>2 DEF FilesInv
  <2>2. files[Name(receipt[c])] = receipt[c]
    BY <1>2, FilesOfCycles
  <2>3. receipt[c] # Torn
    BY <2>1, ReceiptIsWhole
  <2>4. QED BY <2>1, <2>2, <2>3 DEF WholeReceipts
<1>3. QED BY <1>1, <1>2 DEF WholeReceipts, WrittenReceipts

\* What is written is changed by the end of a write_receipt only.
LEMMA WrittenGrow ==
  ASSUME TypeOK, [Next]_vars
  PROVE  \/ WrittenReceipts' = WrittenReceipts
         \/ \E c \in Cycles : /\ pc[c] = "open" /\ pc'[c] = "done"
                             /\ WrittenReceipts' = WrittenReceipts \union {receipt[c]}
<1> USE DEF cycleVars, checkVars
<1>0. pc \in [Cycles -> {"start", "built", "open", "done", "dead"}] /\ DOMAIN receipt = Cycles
  BY DEF TypeOK
<1>1. ASSUME NEW c \in Cycles, WriteReceipt(c)
      PROVE  /\ pc[c] = "open" /\ pc'[c] = "done"
             /\ WrittenReceipts' = WrittenReceipts \union {receipt[c]}
  BY <1>0, <1>1 DEF WriteReceipt, Goto, WrittenReceipts
<1>2. ASSUME NEW c \in Cycles, pc[c] # "done", NEW l, l # "done", pc' = [pc EXCEPT ![c] = l],
             \A d \in Cycles \ {c} : receipt'[d] = receipt[d]
      PROVE  WrittenReceipts' = WrittenReceipts
  BY <1>0, <1>2 DEF WrittenReceipts
<1>3. ASSUME NEW c \in Cycles, Build(c) \/ OpenReceipt(c) \/ Crash(c)
      PROVE  WrittenReceipts' = WrittenReceipts
  <2>1. CASE Build(c)
    BY <1>0, <1>2, <2>1 DEF Build, Goto
  <2>2. CASE OpenReceipt(c)
    BY <1>0, <1>2, <2>2 DEF OpenReceipt, Goto
  <2>3. CASE Crash(c)
    BY <1>0, <1>2, <2>3 DEF Crash, Goto
  <2>4. QED BY <1>3, <2>1, <2>2, <2>3
<1>4. CASE UNCHANGED <<pc, receipt>>
  BY <1>4 DEF WrittenReceipts
<1>5. ASSUME NEW k \in Checks, Check(k)  PROVE UNCHANGED <<pc, receipt>>
  BY <1>5 DEF Check, ListReceipts, ReadReceipt
<1>6. CASE Tick \/ UNCHANGED vars
  BY <1>4, <1>6 DEF Tick, vars
<1>7. QED BY <1>1, <1>3, <1>4, <1>5, <1>6 DEF Next, Cycle

\* For any number of cycles that share seconds, overlap and die, the receipt
\* directory implements what SyncDaemon and SyncLedger take it for: a set that
\* grows by the receipt of one cycle when that cycle's write_receipt ends.
THEOREM DirectoryIsASet == Spec => ReceiptsAreASet
<1>1. Init => WholeReceipts = {}
  BY DEF Init, WholeReceipts
<1>2. LogInv /\ LogInv' /\ [Next]_vars =>
        [AddReceipt]_WholeReceipts
  <2> SUFFICES ASSUME LogInv, LogInv', [Next]_vars, WholeReceipts' # WholeReceipts
               PROVE  AddReceipt
    OBVIOUS
  <2>1. WholeReceipts = WrittenReceipts /\ WholeReceipts' = WrittenReceipts'
    <3>1. (TypeOK /\ FilesInv => WholeReceipts = WrittenReceipts)'
      BY WholeAreWritten, PTL
    <3>2. QED BY <3>1, WholeAreWritten DEF LogInv
  <2>2. QED BY <2>1, WrittenGrow DEF LogInv, AddReceipt
<1>3. QED BY <1>1, <1>2, LogInvariant, PTL DEF Spec, ReceiptsAreASet

-----------------------------------------------------------------------------
(* The noise budget. *)

CONSTANTS Keys, Critical, MaxDuplicates, MaxReceived
VARIABLES received, suppressed, critical, seen, surfaced

Noise == INSTANCE NoiseBudget

\* The count of an ordinary key is how often it has surfaced.
NoiseInv ==
  /\ Noise!TypeOK
  /\ Noise!ReportAccounts
  /\ \A k \in Keys \ Critical :
       /\ seen[k].count = surfaced.of[k]
       /\ seen[k].count <= MaxDuplicates \/ seen[k].count <= 1
  /\ \A k \in Critical \intersect Keys : seen[k].suppressed = 0

LEMMA NoiseInit == Noise!Init => NoiseInv
BY DEF Noise!Init, NoiseInv, Noise!TypeOK, Noise!ReportAccounts, Noise!Empty

LEMMA SurfaceStep ==
  ASSUME Noise!TypeOK, NEW k \in Keys, NEW entry \in [count : Nat, suppressed : Nat],
         Noise!Surface(k, entry)
  PROVE  /\ seen' \in [Keys -> [count : Nat, suppressed : Nat]]
         /\ surfaced' \in [of : [Keys -> Nat], total : Nat]
         /\ surfaced'.total = surfaced.total + 1
         /\ surfaced'.of[k] = surfaced.of[k] + 1
         /\ seen'[k] = entry
         /\ \A l \in Keys \ {k} : seen'[l] = seen[l] /\ surfaced'.of[l] = surfaced.of[l]
         /\ suppressed' = suppressed
<1> USE DEF Noise!TypeOK, Noise!Surface
<1>1. PICK f \in [Keys -> Nat], n \in Nat : surfaced = [of |-> f, total |-> n]
  OBVIOUS
<1>2. surfaced' = [of |-> [f EXCEPT ![k] = @ + 1], total |-> n + 1]
  BY <1>1
<1>3. [f EXCEPT ![k] = @ + 1] \in [Keys -> Nat]
  <2> DEFINE h == f[k] + 1
  <2>1. f \in [Keys -> Nat] /\ f[k] \in Nat
    OBVIOUS
  <2>2. h \in Nat
    BY <2>1
  <2> HIDE DEF h
  <2>3. [f EXCEPT ![k] = h] \in [Keys -> Nat]
    BY <2>1, <2>2
  <2> QED BY <2>3 DEF h
<1>4. /\ seen' \in [Keys -> [count : Nat, suppressed : Nat]]
      /\ seen'[k] = entry
      /\ suppressed' = suppressed
      /\ \A l \in Keys \ {k} : seen'[l] = seen[l]
  OBVIOUS
<1>5. surfaced' \in [of : [Keys -> Nat], total : Nat]
  BY <1>2, <1>3
<1>6. /\ surfaced'.total = surfaced.total + 1
      /\ surfaced'.of[k] = surfaced.of[k] + 1
      /\ \A l \in Keys \ {k} : surfaced'.of[l] = surfaced.of[l]
  BY <1>1, <1>2
<1> QED BY <1>4, <1>5, <1>6

LEMMA NoiseStep ==
  ASSUME MaxDuplicates \in Int, NoiseInv, [Noise!Next]_Noise!vars
  PROVE  NoiseInv'
<1> USE DEF NoiseInv
<1>1. CASE Noise!Flush
  BY <1>1 DEF Noise!Flush, Noise!TypeOK, Noise!ReportAccounts, Noise!Empty
<1>2. ASSUME NEW k \in Keys, received' = received + 1, Noise!IngestCritical(k)
      PROVE  NoiseInv'
  <2> DEFINE entry == [count |-> 1, suppressed |-> 0]
  <2>1. /\ Noise!Surface(k, entry) /\ critical' = critical + 1 /\ k \in Critical
        /\ entry \in [count : Nat, suppressed : Nat]
        /\ entry.suppressed = 0
    BY <1>2 DEF Noise!IngestCritical
  <2> HIDE DEF entry
  <2>2. /\ seen' \in [Keys -> [count : Nat, suppressed : Nat]]
        /\ surfaced' \in [of : [Keys -> Nat], total : Nat]
        /\ surfaced'.total = surfaced.total + 1
        /\ seen'[k] = entry
        /\ \A l \in Keys \ {k} : seen'[l] = seen[l] /\ surfaced'.of[l] = surfaced.of[l]
        /\ suppressed' = suppressed
    BY <2>1, SurfaceStep
  <2>3. Noise!TypeOK' /\ Noise!ReportAccounts'
    BY <1>2, <2>1, <2>2 DEF Noise!TypeOK, Noise!ReportAccounts
  <2> QED BY <2>1, <2>2, <2>3
<1>3. ASSUME NEW k \in Keys, received' = received + 1, Noise!Suppress(k)
      PROVE  NoiseInv'
  <2>1. /\ seen' = [seen EXCEPT ![k] = [seen[k] EXCEPT !.suppressed = @ + 1]]
        /\ k \notin Critical
        /\ suppressed' = suppressed + 1
        /\ UNCHANGED <<critical, surfaced>>
    BY <1>3 DEF Noise!Suppress
  <2>2. seen[k] \in [count : Nat, suppressed : Nat]
    BY DEF Noise!TypeOK
  <2> DEFINE entry == [seen[k] EXCEPT !.suppressed = @ + 1]
  <2>3. entry \in [count : Nat, suppressed : Nat] /\ entry.count = seen[k].count
    BY <2>2
  <2> HIDE DEF entry
  <2>4. seen' = [seen EXCEPT ![k] = entry]
    BY <2>1 DEF entry
  <2>5. /\ seen' \in [Keys -> [count : Nat, suppressed : Nat]]
        /\ \A l \in Keys : seen'[l].count = seen[l].count
        /\ \A l \in Critical \intersect Keys : seen'[l] = seen[l]
    BY <2>1, <2>3, <2>4 DEF Noise!TypeOK
  <2>6. Noise!TypeOK' /\ Noise!ReportAccounts'
    BY <1>3, <2>1, <2>5 DEF Noise!TypeOK, Noise!ReportAccounts
  <2> QED BY <2>1, <2>5, <2>6
<1>4. ASSUME NEW k \in Keys, received' = received + 1, Noise!Coalesce(k)
      PROVE  NoiseInv'
  <2>1. seen[k] \in [count : Nat, suppressed : Nat]
    BY DEF Noise!TypeOK
  <2> DEFINE entry == [seen[k] EXCEPT !.count = @ + 1]
  <2>2. entry \in [count : Nat, suppressed : Nat] /\ entry.count = seen[k].count + 1
    BY <2>1
  <2> HIDE DEF entry
  <2>3. /\ Noise!Surface(k, entry) /\ UNCHANGED critical /\ k \notin Critical
        /\ seen[k].count = 0 \/ seen[k].count < MaxDuplicates
    BY <1>4 DEF Noise!Coalesce, entry
  <2>4. /\ seen' \in [Keys -> [count : Nat, suppressed : Nat]]
        /\ surfaced' \in [of : [Keys -> Nat], total : Nat]
        /\ surfaced'.total = surfaced.total + 1
        /\ surfaced'.of[k] = surfaced.of[k] + 1
        /\ seen'[k] = entry
        /\ \A l \in Keys \ {k} : seen'[l] = seen[l] /\ surfaced'.of[l] = surfaced.of[l]
        /\ suppressed' = suppressed
    BY <2>2, <2>3, SurfaceStep
  <2>5. Noise!TypeOK' /\ Noise!ReportAccounts'
    BY <1>4, <2>3, <2>4 DEF Noise!TypeOK, Noise!ReportAccounts
  <2>6. seen'[k].count <= MaxDuplicates \/ seen'[k].count <= 1
    BY <2>1, <2>2, <2>3, <2>4
  <2> QED BY <2>2, <2>3, <2>4, <2>5, <2>6
<1>5. CASE UNCHANGED Noise!vars
  BY <1>5 DEF Noise!vars, Noise!TypeOK, Noise!ReportAccounts
<1> QED BY <1>1, <1>2, <1>3, <1>4, <1>5 DEF Noise!Next, Noise!Ingest

LEMMA NoiseInvHolds == ASSUME MaxDuplicates \in Int PROVE Noise!Spec => []NoiseInv
<1>1. Noise!Init => NoiseInv
  BY NoiseInit
<1>2. NoiseInv /\ [Noise!Next]_Noise!vars => NoiseInv'
  BY NoiseStep
<1> QED BY <1>1, <1>2, PTL DEF Noise!Spec

\* However many events, keys and flushes there are, the budget is kept and
\* nothing exempt is held back.
THEOREM NoiseBudgetKept == ASSUME MaxDuplicates \in Int PROVE Noise!Spec => []Noise!BudgetKept
<1>1. NoiseInv => Noise!BudgetKept
  BY DEF NoiseInv, Noise!BudgetKept
<1> QED BY <1>1, NoiseInvHolds, PTL

\* The report accounts for every event.
THEOREM NoiseReportAccounts == ASSUME MaxDuplicates \in Int PROVE Noise!Spec => []Noise!ReportAccounts
<1>1. NoiseInv => Noise!ReportAccounts
  BY DEF NoiseInv
<1> QED BY <1>1, NoiseInvHolds, PTL

-----------------------------------------------------------------------------
(* The service graph. *)

\* Together the two audits keep remote telemetry and the leak of upstream
\* identity out of the graph: every service is indexed as denying the one and
\* none as requiring it, and every app as denying the other.  Neither audit
\* does so alone: the release gates do not see what is required and denied at
\* once, and `validate` only warns of telemetry that is not denied.
THEOREM ReadyGraphDenies ==
  ASSUME NEW services \in SUBSET Service,
         Validates(services, FALSE), ReleaseReady(services, FALSE)
  PROVE  /\ \A s \in services : s.id \in DeniedBy(services, RemoteCap)
         /\ RequiredBy(services, RemoteCap) = {}
         /\ InDomain(services, App) \subseteq DeniedBy(services, LeakCap)
<1>1. \A s \in services : RemoteCap \in s.denied /\ RemoteCap \notin s.required
  <2> SUFFICES ASSUME NEW s \in services
               PROVE  RemoteCap \in s.denied /\ RemoteCap \notin s.required
    OBVIOUS
  <2>1. 7 \notin FailedGates(s)
    BY DEF ReleaseReady
  <2>2. RemoteCap \in s.denied
    BY <2>1 DEF FailedGates, Gate
  <2>3. s.required \intersect s.denied = {}
    BY DEF Validates, Audited
  <2> QED BY <2>2, <2>3
<1>2. \A s \in services : s.domain = App => LeakCap \in s.denied
  BY DEF Validates, Audited
<1>3. \A s \in services : s.id \in DeniedBy(services, RemoteCap)
  BY <1>1 DEF DeniedBy
<1>4. RequiredBy(services, RemoteCap) = {}
  BY <1>1 DEF RequiredBy
<1>5. InDomain(services, App) \subseteq DeniedBy(services, LeakCap)
  BY <1>2 DEF InDomain, DeniedBy
<1> QED BY <1>3, <1>4, <1>5

\* The graph of validated manifests with distinct ids lists no service as both
\* requiring and denying a capability.
THEOREM IndexIsConsistent ==
  ASSUME NEW services \in SUBSET Service, Validates(services, FALSE),
         \A s, t \in services : s.id = t.id => s = t,
         NEW cap
  PROVE  RequiredBy(services, cap) \intersect DeniedBy(services, cap) = {}
<1> SUFFICES ASSUME NEW id \in RequiredBy(services, cap), id \in DeniedBy(services, cap)
             PROVE  FALSE
  OBVIOUS
<1>1. PICK s \in services : s.id = id /\ cap \in s.required
  BY DEF RequiredBy
<1>2. PICK t \in services : t.id = id /\ cap \in t.denied
  BY DEF DeniedBy
<1>3. s = t
  BY <1>1, <1>2
<1> QED BY <1>1, <1>2, <1>3 DEF Validates, Audited

\* The two audits overlap but neither implies the other: a service that has
\* documented why it emits no events can be ready for release and is never
\* valid.
THEOREM ExemptionNeverValidates ==
  ASSUME NEW services \in SUBSET Service, NEW s \in services, NEW broken \in BOOLEAN,
         s.eventsExemption, ~s.emitsEvents
  PROVE  Gate(2, s) /\ ~Validates(services, broken)
<1>1. Gate(2, s)
  BY DEF Gate
<1>2. ~Audited(s)
  BY DEF Audited
<1> QED BY <1>1, <1>2 DEF Validates

=============================================================================
