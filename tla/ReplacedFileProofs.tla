------------------------ MODULE ReplacedFileProofs -------------------------
(***************************************************************************)
(* What each operation of ReplacedFile leaves in a file.                   *)
(***************************************************************************)
EXTENDS ReplacedFile, TLAPS

\* The temporary file is empty, and the writer's descriptor refers to it.
EmptyTmp(file, p) == file.fd[p] = "tmp" /\ file.tmp = Torn /\ "tmp" \notin file.tails

\* Opening the temporary file empties it and leaves the target alone.
LEMMA OpenedFile ==
  ASSUME NEW Value, NEW Writers, NEW file \in FileOf(Value, Writers), NEW p \in Writers
  PROVE  /\ Opened(file, p) \in FileOf(Value, Writers)
         /\ Opened(file, p).target = file.target
         /\ Opened(file, p).tmp = Torn
         /\ EmptyTmp(Opened(file, p), p)
BY DEF FileOf, Opened, Contents, Descriptors, EmptyTmp

\* A process that dies changes no content.
LEMMA AbandonedFile ==
  ASSUME NEW Value, NEW Writers, NEW file \in FileOf(Value, Writers), NEW p \in Writers
  PROVE  /\ Abandoned(file, p) \in FileOf(Value, Writers)
         /\ Abandoned(file, p).target = file.target
         /\ Abandoned(file, p).tmp = file.tmp
BY DEF FileOf, Abandoned, Descriptors

\* The rename makes the temporary content the one of the target.
LEMMA ReplacedFileContents ==
  ASSUME NEW Value, NEW Writers, NEW file \in FileOf(Value, Writers)
  PROVE  /\ Replaced(file) \in FileOf(Value, Writers)
         /\ Replaced(file).target = file.tmp
         /\ Replaced(file).tmp = Nothing
<1> DEFINE fd == [p \in DOMAIN file.fd |->
                    CASE file.fd[p] = "tmp" -> "target"
                      [] file.fd[p] = "target" -> "unlinked"
                      [] OTHER -> file.fd[p]]
<1>1. fd \in [Writers -> Descriptors]
  BY DEF FileOf, Descriptors
<1> DEFINE tails == IF "tmp" \in file.tails THEN {"target"} ELSE {}
<1>2. Replaced(file) = [file EXCEPT !.target = file.tmp, !.tmp = Nothing, !.tails = tails,
                                    !.fd = fd]
  BY DEF Replaced
<1>3. tails \in SUBSET {"tmp", "target"}
  OBVIOUS
<1> HIDE DEF fd, tails
<1>4. QED BY <1>1, <1>2, <1>3 DEF FileOf, Contents

\* A write leaves each content as it was, or complete, or torn.
LEMMA WrittenFile ==
  ASSUME NEW Value, NEW Writers, NEW file \in FileOf(Value, Writers), NEW p \in Writers,
         NEW value \in Value,
         NEW new \in Written(file, p, value)
  PROVE  /\ new \in FileOf(Value, Writers)
         /\ new.target \in {file.target, value, Torn}
         /\ new.tmp \in {file.tmp, value, Torn}
<1> DEFINE closed == [file.fd EXCEPT ![p] = "closed"]
<1>1. closed \in [Writers -> Descriptors]
  BY DEF FileOf, Descriptors
<1>2. /\ \A old, tail : Overwritten(old, tail, value) \subseteq {value, Torn}
      /\ \A content : \A place \in {"tmp", "target"} :
           TailsAfter(file.tails, place, content) \in SUBSET {"tmp", "target"}
  BY DEF Overwritten, TailsAfter, FileOf
<1>3. CASE file.fd[p] = "tmp"
  <2>1. PICK content \in Overwritten(file.tmp, "tmp" \in file.tails, value) :
          new = [file EXCEPT !.tmp = content, !.fd = closed,
                             !.tails = TailsAfter(@, "tmp", content)]
    BY <1>3 DEF Written
  <2> DEFINE tails == TailsAfter(file.tails, "tmp", content)
  <2>2. new = [file EXCEPT !.tmp = content, !.fd = closed, !.tails = tails]
    BY <2>1
  <2>3. content \in {value, Torn} /\ tails \in SUBSET {"tmp", "target"}
    BY <1>2
  <2> HIDE DEF closed, tails
  <2>4. QED BY <1>1, <2>2, <2>3 DEF FileOf, Contents
<1>4. CASE file.fd[p] = "target"
  <2>1. PICK content \in Overwritten(file.target, "target" \in file.tails, value) :
          new = [file EXCEPT !.target = content, !.fd = closed,
                             !.tails = TailsAfter(@, "target", content)]
    BY <1>4 DEF Written
  <2> DEFINE tails == TailsAfter(file.tails, "target", content)
  <2>2. new = [file EXCEPT !.target = content, !.fd = closed, !.tails = tails]
    BY <2>1
  <2>3. content \in {value, Torn} /\ tails \in SUBSET {"tmp", "target"}
    BY <1>2
  <2> HIDE DEF closed, tails
  <2>4. QED BY <1>1, <2>2, <2>3 DEF FileOf, Contents
<1>5. CASE file.fd[p] \notin {"tmp", "target"}
  <2>1. new = [file EXCEPT !.fd = closed]
    BY <1>5 DEF Written
  <2> HIDE DEF closed
  <2>2. QED BY <1>1, <2>1 DEF FileOf, Contents
<1>6. QED BY <1>3, <1>4, <1>5

\* A write to the empty temporary file leaves in it what is written.
LEMMA WrittenToEmpty ==
  ASSUME NEW Value, NEW Writers, NEW file \in FileOf(Value, Writers), NEW p \in Writers,
         NEW value \in Value, EmptyTmp(file, p),
         NEW new \in Written(file, p, value)
  PROVE  new.target = file.target /\ new.tmp = value
<1> DEFINE closed == [file.fd EXCEPT ![p] = "closed"]
<1>1. PICK content \in Overwritten(file.tmp, "tmp" \in file.tails, value) :
        new = [file EXCEPT !.tmp = content, !.fd = closed,
                           !.tails = TailsAfter(@, "tmp", content)]
  BY DEF Written, EmptyTmp
<1>2. content = value
  BY DEF Overwritten, EmptyTmp
<1> HIDE DEF closed
<1> QED BY <1>1, <1>2 DEF FileOf

=============================================================================
