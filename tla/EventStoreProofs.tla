-------------------------- MODULE EventStoreProofs --------------------------
(***************************************************************************)
(* Proofs about EventStore and CanonicalEvents.                            *)
(*                                                                         *)
(* The invariant of the store relates its text to what the commands have   *)
(* done: a fragment of an event is there exactly when its command has sent *)
(* it, and an event that was there when a rejecting command began is not   *)
(* one with the id of an event that this command writes.  The producers of *)
(* event files are then shown to be part of the environment that the store *)
(* allows, so that all of it holds for the composition, too.               *)
(***************************************************************************)
EXTENDS CanonicalEvents, SequenceTheorems, TLAPS

Occurs(c, p) ==
  \E i \in DOMAIN lines : \E k \in DOMAIN lines[i].text :
    lines[i].text[k] = [by |-> c, part |-> p]

\* What a command has begun to write is in the store, and nothing else is.
SentInv ==
  \A c \in Commands :
    /\ pc[c] = "start" => sent[c] = 0
    /\ pc[c] = "done" => sent[c] = 3
    /\ sent[c] >= 1 => Occurs(c, 1)
    /\ \A p \in {1, 2} : Occurs(c, p) => sent[c] >= 1

BeforeInv == \A b \in Commands : \A a \in before[b] : pc[a] \in Ended

\* A rejecting command that got past its lookup has found no event of its id,
\* and those that had ended by then write no more.
LookupInv ==
  \A a, b \in Rejecting :
    /\ pc[b] = "append" \/ sent[b] >= 1
    /\ a \in before[b]
    /\ doc[a].id = doc[b].id
    => \A i \in DOMAIN lines : lines[i].text # WholeText(a)

StoreInv == TypeOK /\ SentInv /\ BeforeInv /\ LookupInv

-----------------------------------------------------------------------------
(* What an append does to the text of the store. *)

LEMMA WholeTextType ==
  ASSUME NEW c \in Commands
  PROVE  /\ WholeText(c) \in Seq(Fragment)
         /\ Len(WholeText(c)) = 2
         /\ WholeText(c)[1] = [by |-> c, part |-> 1]
         /\ WholeText(c)[2] = [by |-> c, part |-> 2]
<1> DEFINE f == [by |-> c, part |-> 1]
           g == [by |-> c, part |-> 2]
<1>1. f \in Fragment /\ g \in Fragment
  BY DEF Fragment
<1>2. WholeText(c) = <<f, g>>
  BY DEF WholeText
<1> HIDE DEF f, g
<1>3. <<f, g>> \in Seq(Fragment) /\ Len(<<f, g>>) = 2 /\ <<f, g>>[1] = f /\ <<f, g>>[2] = g
  BY <1>1
<1> QED BY <1>2, <1>3 DEF f, g

LEMMA PiecesType ==
  ASSUME NEW c \in Commands, NEW from \in 0..2, NEW to \in (from + 1)..3
  PROVE  /\ Pieces(c, from, to) \in Seq(Fragment)
         /\ \A k \in DOMAIN Pieces(c, from, to) : Pieces(c, from, to)[k].by = c
         /\ from = 0 => /\ 1 \in DOMAIN Pieces(c, from, to)
                        /\ Pieces(c, from, to)[1] = [by |-> c, part |-> 1]
<1> DEFINE whole == WholeText(c)
           n == IF to = 3 THEN 2 ELSE to
           s == SubSeq(whole, from + 1, n)
<1>1. /\ whole \in Seq(Fragment) /\ Len(whole) = 2
      /\ whole[1] = [by |-> c, part |-> 1]
      /\ whole[2] = [by |-> c, part |-> 2]
  BY WholeTextType
<1>2. n \in 1..2 /\ from + 1 \in 1..3
  OBVIOUS
<1> HIDE DEF whole, n
<1>3. s \in Seq(Fragment)
  BY <1>1, <1>2, SubSeqProperties
<1>4. /\ Len(s) = IF from + 1 <= n THEN n - from ELSE 0
      /\ \A k \in 1..Len(s) : s[k] = whole[from + k]
  <2>1. from \in Nat /\ n \in Nat /\ Len(s) = IF from + 1 <= n THEN n - from ELSE 0
    BY <1>1, <1>2, SubSeqProperties
  <2>2. ASSUME NEW k \in 1..Len(s)  PROVE s[k] = whole[from + k]
    <3>1. from + 1 \in 1..Len(whole) + 1 /\ n \in (from + 1) - 1..Len(whole)
      BY <1>1, <1>2, <2>1, <2>2
    <3>2. s[k] = whole[(from + 1) + k - 1]
      BY <1>1, <2>2, <3>1, SubSeqProperties
    <3>3. (from + 1) + k - 1 = from + k
      BY <1>2, <2>2
    <3>4. QED BY <3>2, <3>3
  <2>3. QED BY <2>1, <2>2
<1>5. DOMAIN s = 1..Len(s)
  BY <1>3
<1>6. ASSUME NEW k \in 1..Len(s) PROVE s[k].by = c
  <2>1. from + k \in {1, 2}
    BY <1>2, <1>4
  <2>2. s[k] = whole[1] \/ s[k] = whole[2]
    BY <2>1, <1>4
  <2>3. s[k] = [by |-> c, part |-> 1] \/ s[k] = [by |-> c, part |-> 2]
    BY <2>2, <1>1
  <2> HIDE DEF s
  <2> QED BY <2>3
<1>7. from = 0 => 1 \in 1..Len(s) /\ s[1] = whole[1]
  BY <1>2, <1>4
<1> QED BY <1>1, <1>3, <1>5, <1>6, <1>7 DEF Pieces, whole, n

\* An append changes one line: it puts the pieces at the end of its text.
LEMMA AppendedLines ==
  ASSUME lines \in Seq(Line), NEW c \in Commands,
         NEW from \in 0..2, NEW to \in (from + 1)..3
  PROVE  /\ Appended(c, from, to) \in Seq(Line)
         /\ DOMAIN lines \subseteq DOMAIN Appended(c, from, to)
         /\ \E last \in DOMAIN Appended(c, from, to) :
              /\ \A i \in DOMAIN Appended(c, from, to) :
                   i # last => i \in DOMAIN lines /\ Appended(c, from, to)[i] = lines[i]
              /\ Appended(c, from, to)[last].text =
                   IF last \in DOMAIN lines THEN lines[last].text \o Pieces(c, from, to)
                                            ELSE Pieces(c, from, to)
<1> DEFINE piece == Pieces(c, from, to)
           n     == Len(lines)
           old   == [text |-> lines[n].text \o piece, ended |-> (to = 3)]
           new   == [text |-> piece, ended |-> (to = 3)]
<1>1. piece \in Seq(Fragment)
  BY PiecesType
<1> HIDE DEF piece
<1>2. n \in Nat /\ DOMAIN lines = 1..n
  OBVIOUS
<1>3. new \in Line
  BY <1>1 DEF Line
<1>4. CASE n > 0 /\ ~lines[n].ended
  <2>1. lines[n] \in Line
    BY <1>2, <1>4
  <2>2. old \in Line
    BY <1>1, <2>1 DEF Line
  <2>3. Appended(c, from, to) = [lines EXCEPT ![n] = old]
    BY <1>4 DEF Appended, piece
  <2> HIDE DEF old
  <2>4. [lines EXCEPT ![n] = old] \in Seq(Line)
    BY <1>2, <1>4, <2>2
  <2>5. /\ DOMAIN Appended(c, from, to) = 1..n
        /\ n \in 1..n
        /\ Appended(c, from, to)[n].text = lines[n].text \o piece
        /\ \A i \in 1..n : i # n => Appended(c, from, to)[i] = lines[i]
    <3>1. n \in 1..n
      BY <1>2, <1>4
    <3>2. Appended(c, from, to) = [i \in 1..n |-> IF i = n THEN old ELSE lines[i]]
      BY <1>2, <2>3
    <3> QED BY <3>1, <3>2 DEF old
  <2> QED BY <1>2, <2>3, <2>4, <2>5 DEF piece
<1>5. CASE ~(n > 0 /\ ~lines[n].ended)
  <2>1. Appended(c, from, to) = Append(lines, new)
    BY <1>5 DEF Appended, piece
  <2> HIDE DEF new
  <2>2. /\ Append(lines, new) \in Seq(Line)
        /\ Len(Append(lines, new)) = n + 1
        /\ \A i \in 1..n : Append(lines, new)[i] = lines[i]
        /\ Append(lines, new)[n + 1] = new
    BY <1>2, <1>3
  <2>3. /\ DOMAIN Append(lines, new) = 1..(n + 1)
        /\ n + 1 \in 1..(n + 1)
        /\ n + 1 \notin 1..n
        /\ \A i \in 1..(n + 1) : i # n + 1 => i \in 1..n
    BY <1>2, <2>2
  <2>4. Append(lines, new)[n + 1].text = piece
    BY <2>2 DEF new
  <2> QED BY <1>2, <2>1, <2>2, <2>3, <2>4 DEF piece
<1> QED BY <1>4, <1>5

\* The fragments of others stay what they are, and no line becomes an event of
\* another command.
LEMMA AppendedFragments ==
  ASSUME lines \in Seq(Line), NEW c \in Commands,
         NEW from \in 0..2, NEW to \in (from + 1)..3,
         lines' = Appended(c, from, to)
  PROVE  /\ \A d \in Commands, p \in {1, 2} : Occurs(d, p) => Occurs(d, p)'
         /\ \A d \in Commands \ {c}, p \in {1, 2} : Occurs(d, p)' => Occurs(d, p)
         /\ from = 0 => Occurs(c, 1)'
         /\ \A d \in Commands \ {c} :
              (\A i \in DOMAIN lines : lines[i].text # WholeText(d))
                => \A i \in DOMAIN lines' : lines'[i].text # WholeText(d)
<1> DEFINE piece == Pieces(c, from, to)
<1>1. /\ piece \in Seq(Fragment)
      /\ \A k \in DOMAIN piece : piece[k].by = c
      /\ from = 0 => 1 \in DOMAIN piece /\ piece[1] = [by |-> c, part |-> 1]
  BY PiecesType
<1> DEFINE after == Appended(c, from, to)
<1>a. \E last \in DOMAIN after :
        /\ \A i \in DOMAIN after : i # last => i \in DOMAIN lines /\ after[i] = lines[i]
        /\ after[last].text = IF last \in DOMAIN lines THEN lines[last].text \o piece ELSE piece
  BY AppendedLines
<1>b. lines' = after
  OBVIOUS
<1> HIDE DEF after, piece
<1>2. PICK last \in DOMAIN lines' :
        /\ \A i \in DOMAIN lines' : i # last => i \in DOMAIN lines /\ lines'[i] = lines[i]
        /\ lines'[last].text = IF last \in DOMAIN lines THEN lines[last].text \o piece ELSE piece
  BY <1>a, <1>b
<1>3. DOMAIN lines \subseteq DOMAIN lines'
  BY <1>b, AppendedLines DEF after
<1> DEFINE old == IF last \in DOMAIN lines THEN lines[last].text ELSE << >>
           n   == Len(old)
           m   == Len(piece)
<1>4. old \in Seq(Fragment)
  <2>1. last \in DOMAIN lines => lines[last] \in Line
    OBVIOUS
  <2>2. << >> \in Seq(Fragment)
    OBVIOUS
  <2> QED BY <2>1, <2>2 DEF Line
<1> HIDE DEF old
<1>5. lines'[last].text = old \o piece
  BY <1>1, <1>2, ConcatEmptySeq DEF old
<1>6. /\ n \in Nat /\ m \in Nat
      /\ DOMAIN old = 1..n /\ DOMAIN piece = 1..m
  BY <1>1, <1>4
<1>7. /\ DOMAIN lines'[last].text = 1..(n + m)
      /\ \A k \in 1..n : lines'[last].text[k] = old[k]
      /\ \A k \in 1..m : lines'[last].text[n + k] = piece[k]
  <2>1. /\ old \o piece \in Seq(Fragment)
        /\ Len(old \o piece) = n + m
        /\ \A k \in 1..(n + m) : (old \o piece)[k] = IF k <= n THEN old[k] ELSE piece[k - n]
    BY <1>1, <1>4, ConcatProperties
  <2>2. DOMAIN (old \o piece) = 1..(n + m)
    BY <2>1
  <2> HIDE DEF n, m
  <2>3. ASSUME NEW k \in 1..m PROVE n + k \in 1..(n + m) /\ ~(n + k <= n) /\ (n + k) - n = k
    BY <1>6
  <2>4. ASSUME NEW k \in 1..n PROVE k \in 1..(n + m) /\ k <= n
    BY <1>6
  <2> QED BY <1>5, <2>1, <2>2, <2>3, <2>4
<1> HIDE DEF n, m
<1>8. ASSUME NEW d \in Commands, NEW p \in {1, 2}, Occurs(d, p) PROVE Occurs(d, p)'
  <2>1. PICK i \in DOMAIN lines : \E k \in DOMAIN lines[i].text :
          lines[i].text[k] = [by |-> d, part |-> p]
    BY <1>8 DEF Occurs
  <2>2. PICK k \in DOMAIN lines[i].text : lines[i].text[k] = [by |-> d, part |-> p]
    BY <2>1
  <2>3. k \in DOMAIN lines'[i].text /\ lines'[i].text[k] = lines[i].text[k]
    <3>1. CASE i = last
      <4>1. old = lines[i].text
        BY <3>1 DEF old
      <4>2. k \in 1..n
        BY <1>6, <2>2, <4>1
      <4> QED BY <1>6, <1>7, <3>1, <4>1, <4>2
    <3>2. CASE i # last
      BY <1>2, <1>3, <2>2, <3>2
    <3> QED BY <3>1, <3>2
  <2> QED BY <1>3, <2>2, <2>3 DEF Occurs
<1>9. ASSUME NEW d \in Commands \ {c}, NEW p \in {1, 2}, Occurs(d, p)' PROVE Occurs(d, p)
  <2>1. PICK i \in DOMAIN lines' : \E k \in DOMAIN lines'[i].text :
          lines'[i].text[k] = [by |-> d, part |-> p]
    BY <1>9 DEF Occurs
  <2>2. PICK k \in DOMAIN lines'[i].text : lines'[i].text[k] = [by |-> d, part |-> p]
    BY <2>1
  <2>3. CASE i = last
    <3>1. k \in 1..(n + m)
      BY <1>7, <2>2, <2>3
    <3>2. CASE k \in 1..n
      <4>1. n > 0 /\ old[k] = [by |-> d, part |-> p]
        BY <1>6, <1>7, <2>2, <2>3, <3>2
      <4>2. last \in DOMAIN lines
        BY <1>6, <3>2 DEF old, n
      <4> QED BY <1>6, <3>2, <4>1, <4>2 DEF Occurs, old
    <3>3. CASE k \notin 1..n
      <4>1. PICK j \in 1..m : k = n + j
        <5>1. k - n \in 1..m /\ k = n + (k - n)
          BY <1>6, <3>1, <3>3
        <5> QED BY <5>1
      <4>2. piece[j].by = d
        BY <1>7, <2>2, <2>3, <4>1
      <4> QED BY <1>1, <1>6, <4>2
    <3> QED BY <3>2, <3>3
  <2>4. CASE i # last
    BY <1>2, <2>2, <2>4 DEF Occurs
  <2> QED BY <2>3, <2>4
<1>10. ASSUME from = 0 PROVE Occurs(c, 1)'
  <2>1. 1 \in 1..m /\ piece[1] = [by |-> c, part |-> 1]
    BY <1>1, <1>6, <1>10
  <2>2. n + 1 \in 1..(n + m) /\ lines'[last].text[n + 1] = piece[1]
    BY <1>6, <1>7, <2>1
  <2>3. n + 1 \in DOMAIN lines'[last].text
    BY <1>7, <2>2
  <2>4. lines'[last].text[n + 1] = [by |-> c, part |-> 1]
    BY <1>1, <1>10, <2>2
  <2> QED BY <2>3, <2>4 DEF Occurs
<1>11. ASSUME NEW d \in Commands \ {c},
              \A i \in DOMAIN lines : lines[i].text # WholeText(d),
              NEW i \in DOMAIN lines', lines'[i].text = WholeText(d)
       PROVE  FALSE
  <2>1. i = last
    BY <1>2, <1>11
  <2>2. CASE m = 0
    <3>1. piece = << >>
      BY <1>1, <2>2 DEF m
    <3>2. lines'[last].text = old
      BY <1>4, <1>5, <3>1, ConcatEmptySeq
    <3>3. last \notin DOMAIN lines
      BY <1>11, <2>1, <3>2 DEF old
    <3>4. WholeText(d) = << >>
      BY <1>11, <2>1, <3>2, <3>3 DEF old
    <3>5. Len(WholeText(d)) = 2
      BY WholeTextType
    <3> QED BY <3>4, <3>5
  <2>3. CASE m # 0
    <3>1. 1 \in 1..m /\ piece[1].by = c
      BY <1>1, <1>6, <2>3
    <3>2. n + 1 \in DOMAIN WholeText(d) /\ WholeText(d)[n + 1].by = c
      BY <1>6, <1>7, <1>11, <2>1, <3>1
    <3>3. /\ DOMAIN WholeText(d) = 1..2
          /\ WholeText(d)[1].by = d
          /\ WholeText(d)[2].by = d
      <4>1. /\ WholeText(d) \in Seq(Fragment) /\ Len(WholeText(d)) = 2
            /\ WholeText(d)[1] = [by |-> d, part |-> 1]
            /\ WholeText(d)[2] = [by |-> d, part |-> 2]
        BY WholeTextType
      <4> QED BY <4>1
    <3>4. n + 1 = 1 \/ n + 1 = 2
      BY <1>6, <3>2, <3>3
    <3> QED BY <3>2, <3>3, <3>4
  <2> QED BY <1>6, <2>2, <2>3
<1> QED BY <1>8, <1>9, <1>10, <1>11

-----------------------------------------------------------------------------
(* The invariant of the store. *)

LEMMA StoreInit == Init => StoreInv
<1> SUFFICES ASSUME Init PROVE StoreInv
  OBVIOUS
<1> USE DocumentsAssumption
<1>1. TypeOK
  BY DEF Init, TypeOK
<1>2. SentInv
  BY DEF Init, SentInv, Occurs
<1>3. BeforeInv
  BY DEF Init, BeforeInv
<1>4. LookupInv
  BY DEF Init, LookupInv
<1> QED BY <1>1, <1>2, <1>3, <1>4 DEF StoreInv

\* An append of c, to whichever label it leads.
LEMMA AppendStep ==
  ASSUME StoreInv, NEW c \in Commands, pc[c] = "append",
         NEW to \in (sent[c] + 1)..3, NEW label \in {"append", "done", "failed"},
         label = "done" => to = 3,
         lines' = Appended(c, sent[c], to),
         sent' = [sent EXCEPT ![c] = to],
         pc' = [pc EXCEPT ![c] = label],
         UNCHANGED <<files, doc, before>>, faults' \in 0..MaxFaults
  PROVE  StoreInv'
<1> USE DEF StoreInv
<1>0. /\ sent[c] \in 0..2 /\ to \in 1..3
      /\ lines \in Seq(Line)
      /\ pc \in [Commands -> {"start", "lookup", "append"} \union Ended]
      /\ sent \in [Commands -> 0..3]
  <2>1. sent[c] \in 0..3
    BY DEF TypeOK
  <2> QED BY <2>1 DEF TypeOK
<1>1. /\ \A d \in Commands, p \in {1, 2} : Occurs(d, p) => Occurs(d, p)'
      /\ \A d \in Commands \ {c}, p \in {1, 2} : Occurs(d, p)' => Occurs(d, p)
      /\ sent[c] = 0 => Occurs(c, 1)'
      /\ \A d \in Commands \ {c} :
           (\A i \in DOMAIN lines : lines[i].text # WholeText(d))
             => \A i \in DOMAIN lines' : lines'[i].text # WholeText(d)
  BY <1>0, AppendedFragments
<1>2. TypeOK'
  <2>1. lines' \in Seq(Line)
    BY <1>0, AppendedLines
  <2>2. sent' \in [Commands -> 0..3] /\ pc' \in [Commands -> {"start", "lookup", "append"} \union Ended]
    BY <1>0 DEF Ended
  <2> QED BY <2>1, <2>2 DEF TypeOK
<1>3. SentInv'
  <2> SUFFICES ASSUME NEW d \in Commands
               PROVE  /\ pc'[d] = "start" => sent'[d] = 0
                      /\ pc'[d] = "done" => sent'[d] = 3
                      /\ sent'[d] >= 1 => Occurs(d, 1)'
                      /\ \A p \in {1, 2} : Occurs(d, p)' => sent'[d] >= 1
    BY DEF SentInv
  <2>1. CASE d = c
    <3>1. pc'[c] = label /\ sent'[c] = to
      BY <1>0
    <3>2. Occurs(c, 1)'
      <4>1. sent[c] >= 1 => Occurs(c, 1)
        BY DEF SentInv
      <4> QED BY <1>0, <1>1, <4>1
    <3> QED BY <1>0, <2>1, <3>1, <3>2
  <2>2. CASE d # c
    <3>1. pc'[d] = pc[d] /\ sent'[d] = sent[d]
      BY <1>0, <2>2
    <3> QED BY <1>1, <2>2, <3>1 DEF SentInv
  <2> QED BY <2>1, <2>2
<1>4. BeforeInv'
  <2> SUFFICES ASSUME NEW b \in Commands, NEW a \in before[b] PROVE pc'[a] \in Ended
    BY DEF BeforeInv
  <2>1. pc[a] \in Ended
    BY DEF BeforeInv
  <2>2. a # c
    BY <2>1 DEF Ended
  <2>3. a \in Commands
    BY DocumentsAssumption DEF TypeOK
  <2> QED BY <1>0, <2>1, <2>2, <2>3
<1>5. LookupInv'
  <2> SUFFICES ASSUME NEW a \in Rejecting, NEW b \in Rejecting,
                      pc'[b] = "append" \/ sent'[b] >= 1,
                      a \in before[b], doc[a].id = doc[b].id
               PROVE  \A i \in DOMAIN lines' : lines'[i].text # WholeText(a)
    BY DEF LookupInv
  <2>1. a \in Commands /\ b \in Commands
    BY DocumentsAssumption
  <2>2. a # c
    BY <2>1 DEF BeforeInv, Ended
  <2>3. pc[b] = "append" \/ sent[b] >= 1
    BY <1>0, <2>1
  <2> QED BY <1>1, <2>1, <2>2, <2>3 DEF LookupInv
<1> QED BY <1>2, <1>3, <1>4, <1>5

\* A step that leaves the store alone, with the labels it may change.
LEMMA LoadStep ==
  ASSUME StoreInv, NEW c \in Commands, Load(c) \/ Emit(c)
  PROVE  StoreInv'
<1> USE DocumentsAssumption DEF StoreInv
<1>0. /\ pc[c] = "start"
      /\ UNCHANGED <<files, lines, sent, faults>>
      /\ \/ before' = [before EXCEPT ![c] = {d \in Rejecting : pc[d] \in Ended}]
         \/ UNCHANGED before
      /\ \E label \in {"lookup", "append", "failed"} :
           /\ pc' = [pc EXCEPT ![c] = label]
           /\ label = "append" => c \notin Rejecting
      /\ \/ UNCHANGED doc
         \/ \E document \in Documents : doc' = [doc EXCEPT ![c] = document]
  BY DEF Load, Emit, Goto
<1>1. /\ pc \in [Commands -> {"start", "lookup", "append"} \union Ended]
      /\ doc \in [Commands -> Documents \union {NoDocument}]
      /\ before \in [Commands -> SUBSET Rejecting]
  BY DEF TypeOK
<1>2. PICK label \in {"lookup", "append", "failed"} :
        pc' = [pc EXCEPT ![c] = label] /\ (label = "append" => c \notin Rejecting)
  BY <1>0
<1>3. /\ pc'[c] = label
      /\ \A d \in Commands \ {c} : /\ pc'[d] = pc[d] /\ doc'[d] = doc[d]
                                  /\ before'[d] = before[d]
  BY <1>0, <1>1, <1>2
<1>4. TypeOK'
  <2>1. pc' \in [Commands -> {"start", "lookup", "append"} \union Ended]
    BY <1>1, <1>2 DEF Ended
  <2>2. doc' \in [Commands -> Documents \union {NoDocument}]
    BY <1>0, <1>1
  <2>3. before' \in [Commands -> SUBSET Rejecting]
    BY <1>0, <1>1
  <2> QED BY <1>0, <2>1, <2>2, <2>3 DEF TypeOK
<1>5. SentInv'
  <2>1. \A d \in Commands, p \in {1, 2} : Occurs(d, p)' <=> Occurs(d, p)
    BY <1>0 DEF Occurs
  <2>2. sent' = sent
    BY <1>0
  <2>3. \A d \in Commands : /\ pc'[d] = "start" => pc[d] = "start"
                            /\ pc'[d] = "done" => pc[d] = "done"
    BY <1>3
  <2> QED BY <2>1, <2>2, <2>3 DEF SentInv
<1>6. BeforeInv'
  <2> SUFFICES ASSUME NEW b \in Commands, NEW a \in before'[b] PROVE pc'[a] \in Ended
    BY DEF BeforeInv
  <2>1. a \in Commands /\ pc[a] \in Ended
    BY <1>0, <1>1 DEF BeforeInv
  <2>2. a # c
    BY <1>0, <2>1 DEF Ended
  <2> QED BY <1>3, <2>1, <2>2
<1>7. LookupInv'
  <2> SUFFICES ASSUME NEW a \in Rejecting, NEW b \in Rejecting,
                      pc'[b] = "append" \/ sent'[b] >= 1,
                      a \in before'[b], doc'[a].id = doc'[b].id
               PROVE  \A i \in DOMAIN lines' : lines'[i].text # WholeText(a)
    BY DEF LookupInv
  <2>1. a \in Commands /\ b \in Commands
    OBVIOUS
  <2>2. b # c
    <3>1. ASSUME b = c PROVE FALSE
      <4>1. sent[c] = 0
        BY <1>0 DEF SentInv
      <4>2. pc'[c] = "append"
        BY <1>0, <3>1, <4>1
      <4> QED BY <1>2, <1>3, <3>1, <4>2
    <3> QED BY <3>1
  <2>3. a \in before[b] /\ pc[b] = pc'[b] /\ doc'[b] = doc[b]
    BY <1>3, <2>1, <2>2
  <2>4. a # c
    BY <1>0, <2>1, <2>3 DEF BeforeInv, Ended
  <2> QED BY <1>0, <1>3, <2>1, <2>3, <2>4 DEF LookupInv
<1> QED BY <1>4, <1>5, <1>6, <1>7

\* The lookup, and a command that dies before it writes more.
LEMMA QuietStep ==
  ASSUME StoreInv, NEW c \in Commands,
         pc[c] \in {"lookup", "append"},
         UNCHANGED <<lines, sent>>, Lookup(c) \/ Die(c)
  PROVE  StoreInv'
<1> USE DocumentsAssumption DEF StoreInv
<1>0. PICK label \in {"append", "duplicate", "failed"} :
        /\ pc' = [pc EXCEPT ![c] = label]
        /\ label = "append" => ~Found(doc[c].id)
  BY DEF Lookup, Die, Goto
<1>1. /\ UNCHANGED <<files, doc, before>>
      /\ faults' \in 0..MaxFaults
  <2>1. faults \in 0..MaxFaults
    BY DEF TypeOK
  <2> QED BY <2>1 DEF Lookup, Die
<1>2. pc \in [Commands -> {"start", "lookup", "append"} \union Ended]
  BY DEF TypeOK
<1>3. pc'[c] = label /\ \A d \in Commands \ {c} : pc'[d] = pc[d]
  BY <1>0, <1>2
<1>4. TypeOK'
  <2>1. pc' \in [Commands -> {"start", "lookup", "append"} \union Ended]
    BY <1>0, <1>2 DEF Ended
  <2> QED BY <1>1, <2>1 DEF TypeOK
<1>5. SentInv'
  <2>1. \A d \in Commands, p \in {1, 2} : Occurs(d, p)' <=> Occurs(d, p)
    BY DEF Occurs
  <2>2. \A d \in Commands : /\ pc'[d] = "start" => pc[d] = "start"
                            /\ pc'[d] = "done" => pc[d] = "done"
    BY <1>3
  <2> QED BY <2>1, <2>2 DEF SentInv
<1>6. BeforeInv'
  <2> SUFFICES ASSUME NEW b \in Commands, NEW a \in before[b] PROVE pc'[a] \in Ended
    BY <1>1 DEF BeforeInv
  <2>1. a \in Commands /\ pc[a] \in Ended
    BY DEF BeforeInv, TypeOK
  <2> QED BY <1>3, <2>1 DEF Ended
<1>7. LookupInv'
  <2> SUFFICES ASSUME NEW a \in Rejecting, NEW b \in Rejecting,
                      pc'[b] = "append" \/ sent[b] >= 1,
                      a \in before[b], doc[a].id = doc[b].id,
                      NEW i \in DOMAIN lines, lines[i].text = WholeText(a)
               PROVE  FALSE
    BY <1>1 DEF LookupInv
  <2>1. a \in Commands /\ b \in Commands
    OBVIOUS
  <2>2. ~(pc[b] = "append" \/ sent[b] >= 1)
    BY DEF LookupInv
  <2>3. b = c /\ label = "append"
    BY <1>3, <2>1, <2>2
  <2>4. ~Found(doc[b].id)
    BY <1>0, <2>3
  <2>5. i \in EventLines
    BY <2>1 DEF EventLines, IsEvent
  <2>6. Event(i) = doc[a]
    <3>1. WholeText(a)[1] = [by |-> a, part |-> 1]
      BY <2>1, WholeTextType
    <3>2. lines[i].text[1] = [by |-> a, part |-> 1]
      BY <3>1
    <3>3. Author(i) = a
      BY <3>2 DEF Author
    <3> QED BY <3>3 DEF Event
  <2> QED BY <2>4, <2>5, <2>6 DEF Found
<1> QED BY <1>4, <1>5, <1>6, <1>7

LEMMA StoreStep ==
  ASSUME StoreInv, [Next]_vars
  PROVE  StoreInv'
<1>1. ASSUME NEW c \in Commands, Load(c) \/ Emit(c) PROVE StoreInv'
  BY <1>1, LoadStep
<1>2. ASSUME NEW c \in Commands, Lookup(c) PROVE StoreInv'
  <2>1. pc[c] \in {"lookup", "append"} /\ UNCHANGED <<lines, sent>>
    BY <1>2 DEF Lookup
  <2> QED BY <1>2, <2>1, QuietStep
<1>3. ASSUME NEW c \in Commands, AppendEvent(c) PROVE StoreInv'
  <2>1. PICK to \in (sent[c] + 1)..3 :
          /\ lines' = Appended(c, sent[c], to)
          /\ sent' = [sent EXCEPT ![c] = to]
          /\ Goto(c, IF to = 3 THEN "done" ELSE "append")
    BY <1>3 DEF AppendEvent
  <2> DEFINE label == IF to = 3 THEN "done" ELSE "append"
  <2>2. /\ label \in {"append", "done", "failed"}
        /\ label = "done" => to = 3
        /\ pc' = [pc EXCEPT ![c] = label]
    BY <2>1 DEF Goto
  <2>3. /\ pc[c] = "append"
        /\ UNCHANGED <<files, doc, before>>
        /\ faults' \in 0..MaxFaults
    BY <1>3 DEF AppendEvent, StoreInv, TypeOK
  <2> HIDE DEF label
  <2> QED BY <2>1, <2>2, <2>3, AppendStep
<1>4. ASSUME NEW c \in Commands, Die(c) PROVE StoreInv'
  <2>1. /\ pc[c] \in {"lookup", "append"}
        /\ pc' = [pc EXCEPT ![c] = "failed"]
        /\ UNCHANGED <<files, doc, before>>
        /\ faults' \in 0..MaxFaults
    BY <1>4, DocumentsAssumption DEF Die, Goto, StoreInv, TypeOK
  <2>2. CASE UNCHANGED <<lines, sent>>
    BY <1>4, <2>1, <2>2, QuietStep
  <2>3. CASE \E to \in (sent[c] + 1)..2 :
               /\ pc[c] = "append"
               /\ lines' = Appended(c, sent[c], to)
               /\ sent' = [sent EXCEPT ![c] = to]
    <3>1. PICK to \in (sent[c] + 1)..2 :
            /\ pc[c] = "append"
            /\ lines' = Appended(c, sent[c], to)
            /\ sent' = [sent EXCEPT ![c] = to]
      BY <2>3
    <3>2. sent[c] \in 0..3
      BY DEF StoreInv, TypeOK
    <3>3. to \in (sent[c] + 1)..3
      BY <3>2
    <3> QED BY <2>1, <3>1, <3>3, AppendStep
  <2> QED BY <1>4, <2>2, <2>3 DEF Die
<1>5. ASSUME NEW path \in Paths, NEW content \in Documents \union {TornFile},
             ChangeFile(path, content)
      PROVE  StoreInv'
  BY <1>5 DEF ChangeFile, StoreInv, TypeOK, SentInv, BeforeInv, LookupInv, Occurs
<1>6. CASE UNCHANGED vars
  BY <1>6 DEF vars, StoreInv, TypeOK, SentInv, BeforeInv, LookupInv, Occurs
<1> QED BY <1>1, <1>2, <1>3, <1>4, <1>5, <1>6 DEF Next, Command

LEMMA StoreInvHolds == Spec => []StoreInv
<1>1. Init => StoreInv
  BY StoreInit
<1>2. StoreInv /\ [Next]_vars => StoreInv'
  BY StoreStep
<1> QED BY <1>1, <1>2, PTL DEF Spec

\* The invariant has the two properties in it.
LEMMA StoreInvComplete == StoreInv => VerifiedStoreIsComplete
<1> SUFFICES ASSUME StoreInv, VerifyStore, NEW c \in Commands, pc[c] = "done"
             PROVE  \E i \in Listed : Author(i) = c
  BY DEF VerifiedStoreIsComplete
<1>1. Occurs(c, 1)
  BY DEF StoreInv, SentInv
<1>2. PICK i \in DOMAIN lines : \E k \in DOMAIN lines[i].text :
        lines[i].text[k] = [by |-> c, part |-> 1]
  BY <1>1 DEF Occurs
<1>3. PICK k \in DOMAIN lines[i].text : lines[i].text[k] = [by |-> c, part |-> 1]
  BY <1>2
<1>4. PICK d \in Commands : lines[i].text = WholeText(d)
  <2>1. lines[i].text # << >>
    BY <1>3
  <2> QED BY <2>1 DEF VerifyStore, Blank, IsEvent
<1>5. /\ DOMAIN WholeText(d) = 1..2
      /\ WholeText(d)[1] = [by |-> d, part |-> 1]
      /\ WholeText(d)[2] = [by |-> d, part |-> 2]
  <2>1. /\ WholeText(d) \in Seq(Fragment) /\ Len(WholeText(d)) = 2
        /\ WholeText(d)[1] = [by |-> d, part |-> 1]
        /\ WholeText(d)[2] = [by |-> d, part |-> 2]
    BY WholeTextType
  <2> QED BY <2>1
<1>6. lines[i].text[1] = [by |-> c, part |-> 1]
  <2>1. k = 1 \/ k = 2
    BY <1>3, <1>4, <1>5
  <2>2. CASE k = 2
    <3>1. [by |-> c, part |-> 1] = [by |-> d, part |-> 2]
      BY <1>3, <1>4, <1>5, <2>2
    <3>2. [by |-> c, part |-> 1].part = [by |-> d, part |-> 2].part
      BY <3>1
    <3> QED BY <3>2
  <2> QED BY <1>3, <2>1, <2>2
<1>7. Author(i) = c
  BY <1>6 DEF Author
<1>8. i \in EventLines
  BY <1>4 DEF EventLines, IsEvent
<1>9. \A j \in 1..i : j \in DOMAIN lines
  BY DEF StoreInv, TypeOK
<1> QED BY <1>7, <1>8, <1>9 DEF Listed, VerifyStore

LEMMA StoreInvOverlap == StoreInv => DuplicatesOnlyByOverlap
<1> SUFFICES ASSUME StoreInv, NEW i \in EventLines, NEW j \in EventLines,
                    {Author(i), Author(j)} \subseteq Rejecting,
                    Event(i).id = Event(j).id, Author(i) \in before[Author(j)]
             PROVE  FALSE
  BY DEF DuplicatesOnlyByOverlap
<1>1. ASSUME NEW l \in EventLines
      PROVE  /\ l \in DOMAIN lines
             /\ Author(l) \in Commands
             /\ lines[l].text = WholeText(Author(l))
             /\ Occurs(Author(l), 1)
  <2>1. l \in DOMAIN lines
    BY DEF EventLines
  <2>2. PICK d \in Commands : lines[l].text = WholeText(d)
    BY DEF EventLines, IsEvent
  <2>3. 1 \in DOMAIN WholeText(d) /\ WholeText(d)[1] = [by |-> d, part |-> 1]
    <3>1. /\ WholeText(d) \in Seq(Fragment) /\ Len(WholeText(d)) = 2
          /\ WholeText(d)[1] = [by |-> d, part |-> 1]
      BY WholeTextType
    <3> QED BY <3>1
  <2>4. lines[l].text[1] = [by |-> d, part |-> 1]
    BY <2>2, <2>3
  <2>5. Author(l) = d
    BY <2>4 DEF Author
  <2>6. Occurs(d, 1)
    BY <2>1, <2>2, <2>3, <2>4 DEF Occurs
  <2> QED BY <2>1, <2>2, <2>5, <2>6
<1>2. sent[Author(j)] >= 1
  BY <1>1 DEF StoreInv, SentInv
<1>3. lines[i].text # WholeText(Author(i))
  BY <1>1, <1>2 DEF StoreInv, LookupInv, Event
<1> QED BY <1>1, <1>3

\* Whatever event files hold and whoever writes them: a store that verify-store
\* accepts is complete.
THEOREM StoreComplete == Spec => []VerifiedStoreIsComplete
BY StoreInvHolds, StoreInvComplete, PTL

\* Duplicates come from overlapping commands only.
THEOREM StoreOverlap == Spec => []DuplicatesOnlyByOverlap
BY StoreInvHolds, StoreInvOverlap, PTL

\* Every variable of the store has its type.
THEOREM StoreTypeCorrect == Spec => []TypeOK
<1>1. StoreInv => TypeOK
  BY DEF StoreInv
<1> QED BY <1>1, StoreInvHolds, PTL

-----------------------------------------------------------------------------
(* The producers of event files. *)

\* What DecisionsKeepRegistry says of one event.
Kept(reg, event) ==
  event.class = "policy.decision" =>
    \E entry \in EntriesFor(reg, event.code) : Keeps(event, entry)

Ready == {event \in Valid : event.id \in Paths /\ Kept(registry, event)}

ProducerInv ==
  /\ registry \in Registries
  /\ produced \in [Producers -> Seq(Ready)]
  /\ ppc \in [Producers -> {"start", "open", "write", "done", "failed"}]
  /\ \A p \in Producers : ppc[p] \in {"open", "write"} => produced[p] # << >>
  /\ \A path \in Paths : files[path] \in Documents => Kept(registry, files[path])
  /\ \A c \in Commands \ Emitters :
       pc[c] \in {"lookup", "append"} \/ sent[c] >= 1 => Kept(registry, doc[c])

\* A consistent observation gives an event that keeps its entry.
LEMMA NormalizedKeeps ==
  ASSUME NEW reg \in Seq(Entry), NEW observation \in Observation,
         NEW event \in NormalizedEvents(reg, observation)
  PROVE  /\ event.id \in EventIds
         /\ event.class = "policy.decision"
         /\ \E entry \in EntriesFor(reg, event.code) : Keeps(event, entry)
<1>1. PICK entry \in EntriesFor(reg, observation.code) :
        Consistent(observation, entry) /\ event = Normalized(observation, entry)
  BY DEF NormalizedEvents
<1>2. PICK j \in DOMAIN reg : entry = reg[j] /\ reg[j].code = observation.code
  BY <1>1 DEF EntriesFor
<1>3. entry \in Entry /\ entry.code = observation.code
  BY <1>2
<1>4. /\ event.id = EventIdOf[observation.id]
      /\ event.class = "policy.decision"
      /\ event.code = entry.code
      /\ event.result = observation.result
      /\ event.outcome = Given(observation.outcome, entry.outcome)
      /\ event.severity = Given(observation.severity, entry.severity)
      /\ event.risk = Given(observation.risk, entry.risk)
      /\ event.operation = observation.operation
      /\ event.target = observation.target
  BY <1>1 DEF Normalized
<1>5. event.id \in EventIds
  BY <1>4, EventIdAssumption DEF Observation
<1>6. /\ event.result = entry.result
      /\ event.outcome = entry.outcome
      /\ event.risk = entry.risk
  BY <1>1, <1>4 DEF Consistent, Repeats, Given
<1>7. /\ event.severity = entry.severity \/ entry.stricter
      /\ Rank[event.severity] >= Rank[entry.severity]
  <2>1. Rank[entry.severity] \in Int
    BY <1>3 DEF Entry, Severities, Rank
  <2>2. SeverityAccepted(observation, entry)
    BY <1>1 DEF Consistent
  <2>3. CASE observation.severity \in {Absent, entry.severity}
    BY <1>4, <2>1, <2>3 DEF Given
  <2>4. CASE observation.severity \notin {Absent, entry.severity}
    <3>1. event.severity = observation.severity
      BY <1>4, <2>4 DEF Given
    <3>2. entry.stricter /\ StricterOrEqual(observation.severity, entry.severity)
      BY <2>2, <2>4 DEF SeverityAccepted, Repeats
    <3> QED BY <3>1, <3>2 DEF StricterOrEqual
  <2> QED BY <2>3, <2>4
<1>8. /\ {event.operation, AnyClass} \intersect entry.operations # {}
      /\ {event.target, AnyClass} \intersect entry.targets # {}
  BY <1>1, <1>4 DEF Consistent, MatchesAllowed
<1>9. Keeps(event, entry)
  BY <1>6, <1>7, <1>8 DEF Keeps
<1> QED BY <1>1, <1>3, <1>4, <1>5, <1>9

\* The events of a tuple are about its process and named in its chain.
LEMMA EmittedEvents ==
  ASSUME NEW tuple \in Tuple
  PROVE  /\ EmitEvents(tuple) # << >>
         /\ EmitEvents(tuple) \in Seq({ExecEvent(tuple), ExitEvent(tuple)})
         /\ \A event \in {ExecEvent(tuple), ExitEvent(tuple)} :
              event.id \in ProcessEventIds /\ event.class # "policy.decision"
<1> DEFINE x == ExecEvent(tuple)
           y == ExitEvent(tuple)
<1>1. EmitEvents(tuple) \in {<<x>>, <<x, y>>}
  <2> HIDE DEF x, y
  <2>1. <<x>> \o << >> = <<x>> /\ <<x>> \o <<y>> = <<x, y>>
    <3>1. <<x>> \in Seq({x, y}) /\ <<y>> \in Seq({x, y}) /\ <<x, y>> \in Seq({x, y})
      OBVIOUS
    <3>2. <<x>> \o << >> = <<x>>
      BY <3>1, ConcatEmptySeq
    <3>3. /\ <<x>> \o <<y>> \in Seq({x, y})
          /\ Len(<<x>> \o <<y>>) = 2
          /\ (<<x>> \o <<y>>)[1] = x
          /\ (<<x>> \o <<y>>)[2] = y
      BY <3>1, ConcatProperties
    <3>4. Len(<<x, y>>) = 2 /\ <<x, y>>[1] = x /\ <<x, y>>[2] = y
      OBVIOUS
    <3>5. \A i \in 1..2 : (<<x>> \o <<y>>)[i] = <<x, y>>[i]
      BY <3>3, <3>4
    <3>6. <<x>> \o <<y>> = <<x, y>>
      BY <3>1, <3>3, <3>4, <3>5, SeqEqual
    <3> QED BY <3>2, <3>6
  <2> QED BY <2>1 DEF EmitEvents, x, y
<1>2. \A event \in {x, y} : event.id \in ProcessEventIds /\ event.class # "policy.decision"
  BY ExitIdAssumption DEF ExecEvent, ExitEvent, EventBase, Tuple
<1> HIDE DEF x, y
<1>3. <<x>> \in Seq({x, y}) /\ <<x, y>> \in Seq({x, y})
  OBVIOUS
<1>4. <<x>> # << >> /\ <<x, y>> # << >>
  OBVIOUS
<1> QED BY <1>1, <1>2, <1>3, <1>4 DEF x, y

LEMMA ProducerInit == PipelineInit => ProducerInv
<1> SUFFICES ASSUME PipelineInit PROVE ProducerInv
  OBVIOUS
<1>1. produced \in [Producers -> Seq(Ready)]
  BY DEF PipelineInit
<1>2. \A path \in Paths : files[path] \in Documents => Kept(registry, files[path])
  BY ProducersAssumption DEF PipelineInit, Kept
<1> QED BY <1>1, <1>2 DEF PipelineInit, Init, ProducerInv

\* A command step, as the producers see it.
LEMMA CommandKeeps ==
  ASSUME StoreInv, ProducerInv, NEW c \in Commands, Command(c), UNCHANGED producerVars
  PROVE  ProducerInv'
<1> USE DocumentsAssumption
<1>0. /\ pc \in [Commands -> {"start", "lookup", "append"} \union Ended]
      /\ doc \in [Commands -> Documents \union {NoDocument}]
      /\ sent \in [Commands -> 0..3]
  BY DEF StoreInv, TypeOK
<1>1. UNCHANGED <<files, registry, produced, ppc>>
  BY DEF Command, Load, Emit, Lookup, AppendEvent, Die, producerVars
<1>2. \A event : Kept(registry', event) <=> Kept(registry, event)
  BY <1>1 DEF Kept
<1>3. Ready' = Ready
  BY <1>1 DEF Ready, Kept
<1>4. /\ \A d \in Commands \ {c} : pc'[d] = pc[d] /\ sent'[d] = sent[d] /\ doc'[d] = doc[d]
      /\ pc[c] = "start" => sent'[c] = 0
      /\ c \notin Emitters => \/ doc'[c] = doc[c] /\ pc[c] \in {"lookup", "append"}
                             \/ /\ pc[c] = "start"
                                /\ \/ \E path \in Paths : files[path] \in Valid /\ doc'[c] = files[path]
                                   \/ pc'[c] = "failed"
  <2>1. ASSUME Load(c) \/ Emit(c)
        PROVE  /\ \A d \in Commands \ {c} :
                    pc'[d] = pc[d] /\ sent'[d] = sent[d] /\ doc'[d] = doc[d]
               /\ pc[c] = "start"
               /\ sent'[c] = 0
    BY <1>0, <2>1 DEF Load, Emit, Goto, StoreInv, SentInv
  <2>2. ASSUME Load(c)
        PROVE  \/ \E path \in Paths : files[path] \in Valid /\ doc'[c] = files[path]
               \/ pc'[c] = "failed"
    BY <1>0, <2>2 DEF Load, Goto
  <2>3. ASSUME Lookup(c) \/ AppendEvent(c) \/ Die(c)
        PROVE  /\ \A d \in Commands \ {c} :
                    pc'[d] = pc[d] /\ sent'[d] = sent[d] /\ doc'[d] = doc[d]
               /\ pc[c] \in {"lookup", "append"}
               /\ doc'[c] = doc[c]
    BY <1>0, <2>3 DEF Lookup, AppendEvent, Die, Goto
  <2> QED BY <2>1, <2>2, <2>3 DEF Command, Emit
<1>5. ASSUME NEW d \in Commands \ Emitters, pc'[d] \in {"lookup", "append"} \/ sent'[d] >= 1
      PROVE  Kept(registry, doc'[d])
  <2>1. CASE d # c
    BY <1>4, <1>5, <2>1 DEF ProducerInv
  <2>2. CASE d = c /\ doc'[c] = doc[c] /\ pc[c] \in {"lookup", "append"}
    BY <2>2 DEF ProducerInv
  <2>3. CASE d = c /\ pc[c] = "start"
    <3>1. PICK path \in Paths : files[path] \in Valid /\ doc'[c] = files[path]
      BY <1>4, <1>5, <2>3
    <3> QED BY <2>3, <3>1 DEF ProducerInv
  <2> QED BY <1>4, <2>1, <2>2, <2>3
<1>6. \A d \in Commands \ Emitters :
        pc'[d] \in {"lookup", "append"} \/ sent'[d] >= 1 => Kept(registry', doc'[d])
  BY <1>1, <1>5 DEF Kept
<1> QED BY <1>1, <1>2, <1>3, <1>6 DEF ProducerInv

\* A producer's step is a change of an event file to something that can be in
\* one, or nothing that a command sees.
LEMMA ProducerStep ==
  ASSUME ProducerInv, StoreInv, NEW p \in Producers, Produce(p)
  PROVE  ProducerInv' /\ [Next]_vars
<1> USE DocumentsAssumption, ProducersAssumption
<1>0. /\ produced \in [Producers -> Seq(Ready)]
      /\ ppc \in [Producers -> {"start", "open", "write", "done", "failed"}]
      /\ registry \in Seq(Entry)
  BY DEF ProducerInv
<1>1. registry' = registry
  BY DEF Produce, Normalize, Collect, OpenFile, WriteFile
<1>2. Ready' = Ready
  BY <1>1 DEF Ready, Kept
<1>3. UNCHANGED <<pc, sent, doc, lines, before>>
  BY DEF Produce, Normalize, Collect, OpenFile, WriteFile, ChangeFile, vars
<1>4. \A c \in Commands \ Emitters :
        pc'[c] \in {"lookup", "append"} \/ sent'[c] >= 1 => Kept(registry', doc'[c])
  BY <1>1, <1>3 DEF ProducerInv, Kept
<1>5. ASSUME UNCHANGED files
      PROVE  \A path \in Paths : files'[path] \in Documents => Kept(registry', files'[path])
  BY <1>1, <1>5 DEF ProducerInv, Kept
<1>6. CASE \E events \in Seq(Ready) :
             /\ events # << >>
             /\ produced' = [produced EXCEPT ![p] = events]
             /\ ppc' = [ppc EXCEPT ![p] = "open"]
             /\ UNCHANGED vars
  <2>1. produced' \in [Producers -> Seq(Ready)']
    BY <1>0, <1>2, <1>6
  <2>2. UNCHANGED files
    BY <1>6 DEF vars
  <2>3. \A q \in Producers : ppc'[q] \in {"open", "write"} => produced'[q] # << >>
    BY <1>0, <1>6 DEF ProducerInv
  <2>4. ppc' \in [Producers -> {"start", "open", "write", "done", "failed"}]
    BY <1>0, <1>6
  <2> QED BY <1>1, <1>4, <1>5, <1>6, <2>1, <2>2, <2>3, <2>4 DEF ProducerInv
<1>7. CASE UNCHANGED <<vars, produced>> /\ ppc' = [ppc EXCEPT ![p] = "failed"]
  <2>1. produced' \in [Producers -> Seq(Ready)']
    BY <1>0, <1>2, <1>7
  <2>2. \A q \in Producers : ppc'[q] \in {"open", "write"} => produced'[q] # << >>
    BY <1>0, <1>7 DEF ProducerInv
  <2>3. ppc' \in [Producers -> {"start", "open", "write", "done", "failed"}]
    BY <1>0, <1>7
  <2>4. UNCHANGED files
    BY <1>7 DEF vars
  <2> QED BY <1>1, <1>4, <1>5, <1>7, <2>1, <2>2, <2>3, <2>4 DEF ProducerInv
\* write_text: path and content.
<1>8. CASE \E path \in Paths, content \in Documents \union {TornFile},
               rest \in Seq(Ready), label \in {"open", "write", "done"} :
             /\ content \in Documents => Kept(registry, content)
             /\ ChangeFile(path, content)
             /\ rest = << >> => label = "done"
             /\ produced' = [produced EXCEPT ![p] = rest]
             /\ ppc' = [ppc EXCEPT ![p] = label]
  <2>1. PICK path \in Paths, content \in Documents \union {TornFile},
             rest \in Seq(Ready), label \in {"open", "write", "done"} :
             /\ content \in Documents => Kept(registry, content)
             /\ ChangeFile(path, content)
             /\ rest = << >> => label = "done"
             /\ produced' = [produced EXCEPT ![p] = rest]
             /\ ppc' = [ppc EXCEPT ![p] = label]
    BY <1>8
  <2>2. produced' \in [Producers -> Seq(Ready)']
    BY <1>0, <1>2, <2>1
  <2>3. \A q \in Producers : ppc'[q] \in {"open", "write"} => produced'[q] # << >>
    BY <1>0, <2>1 DEF ProducerInv
  <2>4. ppc' \in [Producers -> {"start", "open", "write", "done", "failed"}]
    BY <1>0, <2>1
  <2>5. ASSUME NEW q \in Paths, files'[q] \in Documents PROVE Kept(registry', files'[q])
    <3>1. files \in [Paths -> Documents \union {NoFile, TornFile}]
      BY DEF StoreInv, TypeOK
    <3>2. files'[q] = IF q = path THEN content ELSE files[q]
      BY <2>1, <3>1 DEF ChangeFile
    <3>3. Kept(registry, files'[q])
      BY <2>1, <2>5, <3>2 DEF ProducerInv
    <3> QED BY <1>1, <3>3 DEF Kept
  <2>6. Next
    BY <2>1 DEF Next
  <2> QED BY <1>1, <1>4, <2>2, <2>3, <2>4, <2>5, <2>6 DEF ProducerInv
<1>9. ASSUME p \in Normalizers, Normalize(p) PROVE ProducerInv' /\ [Next]_vars
  <2>1. CASE PGoto(p, "failed") /\ UNCHANGED produced
    BY <1>7, <1>9, <2>1 DEF Normalize, PGoto
  <2>2. CASE ~(PGoto(p, "failed") /\ UNCHANGED produced)
    <3>0. PICK observation \in Observations :
            \E event \in NormalizedEvents(registry, observation) \intersect Valid :
              produced' = [produced EXCEPT ![p] = <<event>>] /\ PGoto(p, "open")
      BY <1>9, <2>2 DEF Normalize
    <3>1. PICK event \in NormalizedEvents(registry, observation) \intersect Valid :
            produced' = [produced EXCEPT ![p] = <<event>>] /\ PGoto(p, "open")
      BY <3>0
    <3>2. /\ event.id \in EventIds
          /\ \E entry \in EntriesFor(registry, event.code) : Keeps(event, entry)
      BY <1>0, <3>1, NormalizedKeeps
    <3>3. event \in Ready
      BY <3>1, <3>2 DEF Ready, Kept
    <3>4. <<event>> \in Seq(Ready) /\ <<event>> # << >>
      BY <3>3
    <3> QED BY <1>6, <1>9, <3>1, <3>4 DEF Normalize, PGoto
  <2> QED BY <2>1, <2>2
<1>10. ASSUME Collect(p) PROVE ProducerInv' /\ [Next]_vars
  <2>1. CASE PGoto(p, "failed") /\ UNCHANGED produced
    BY <1>7, <1>10, <2>1 DEF Collect, PGoto
  <2>2. CASE ~(PGoto(p, "failed") /\ UNCHANGED produced)
    <3>1. PICK tuple \in Tuples :
            /\ \A i \in DOMAIN EmitEvents(tuple) : EmitEvents(tuple)[i] \in Valid
            /\ produced' = [produced EXCEPT ![p] = EmitEvents(tuple)]
            /\ PGoto(p, "open")
      BY <1>10, <2>2 DEF Collect
    <3> DEFINE events == EmitEvents(tuple)
    <3>2. /\ events # << >>
          /\ events \in Seq({ExecEvent(tuple), ExitEvent(tuple)})
          /\ \A event \in {ExecEvent(tuple), ExitEvent(tuple)} :
               event.id \in ProcessEventIds /\ event.class # "policy.decision"
      BY EmittedEvents
    <3> HIDE DEF events
    <3>3. ASSUME NEW i \in 1..Len(events) PROVE events[i] \in Ready
      <4>1. events[i] \in {ExecEvent(tuple), ExitEvent(tuple)} /\ i \in DOMAIN events
        BY <3>2
      <4>2. events[i] \in Valid
        BY <3>1, <4>1 DEF events
      <4> QED BY <3>2, <4>1, <4>2 DEF Ready, Kept
    <3>4. events \in Seq(Ready)
      BY <3>2, <3>3
    <3> QED BY <1>6, <1>10, <3>1, <3>2, <3>4 DEF Collect, PGoto, events
  <2> QED BY <2>1, <2>2
<1>11. ASSUME OpenFile(p) PROVE ProducerInv' /\ [Next]_vars
  <2>1. produced[p] \in Seq(Ready) /\ produced[p] # << >>
    BY <1>0, <1>11 DEF OpenFile, ProducerInv
  <2>2. Head(produced[p]) \in Ready
    BY <2>1
  <2>3. Head(produced[p]).id \in Paths
    BY <2>2 DEF Ready
  <2>4. produced' = [produced EXCEPT ![p] = produced[p]]
    BY <1>0, <1>11 DEF OpenFile
  <2> QED BY <1>8, <1>11, <2>1, <2>3, <2>4 DEF OpenFile, PGoto
<1>12. ASSUME WriteFile(p) PROVE ProducerInv' /\ [Next]_vars
  <2>1. produced[p] \in Seq(Ready) /\ produced[p] # << >>
    BY <1>0, <1>12 DEF WriteFile, ProducerInv
  <2>2. Head(produced[p]) \in Ready /\ Tail(produced[p]) \in Seq(Ready)
    BY <2>1
  <2>3. /\ Head(produced[p]).id \in Paths
        /\ Head(produced[p]) \in Documents
        /\ Kept(registry, Head(produced[p]))
    BY <2>2 DEF Ready
  <2>4. PICK content \in {Head(produced[p]), TornFile} :
          ChangeFile(Head(produced[p]).id, content)
    BY <1>12 DEF WriteFile, Overwriting
  <2>5. Tail(produced[p]) = << >> => Len(produced[p]) = 1
    <3>1. Len(Tail(produced[p])) = Len(produced[p]) - 1 /\ Len(produced[p]) \in Nat
      BY <2>1
    <3>2. Len(<< >>) = 0
      OBVIOUS
    <3>3. Tail(produced[p]) = << >> => Len(produced[p]) - 1 = 0
      BY <3>1, <3>2
    <3> QED BY <3>1, <3>3
  <2>6. content \in Documents => Kept(registry, content)
    BY <2>3, <2>4
  <2>7. /\ produced' = [produced EXCEPT ![p] = Tail(produced[p])]
        /\ ppc' = [ppc EXCEPT ![p] = IF Len(produced[p]) = 1 THEN "done" ELSE "open"]
    BY <1>12 DEF WriteFile, PGoto
  <2> QED BY <1>8, <2>2, <2>3, <2>4, <2>5, <2>6, <2>7
<1> QED BY <1>9, <1>10, <1>11, <1>12 DEF Produce

\* With producers, the store does nothing that it would not do with event
\* files that anyone may change.
LEMMA PipelineStep ==
  ASSUME StoreInv, ProducerInv, [PipelineNext]_allVars
  PROVE  ProducerInv' /\ [Next]_vars
<1>1. ASSUME NEW c \in Commands, Command(c), UNCHANGED producerVars
      PROVE  ProducerInv' /\ [Next]_vars
  BY <1>1, CommandKeeps DEF Next
<1>2. ASSUME NEW p \in Producers, Produce(p) PROVE ProducerInv' /\ [Next]_vars
  BY <1>2, ProducerStep
<1>3. CASE UNCHANGED allVars
  <2>1. UNCHANGED <<vars, files, pc, doc, sent, registry, produced, ppc>>
    BY <1>3 DEF allVars, vars, producerVars
  <2>2. Ready' = Ready
    BY <2>1 DEF Ready
  <2> QED BY <2>1, <2>2 DEF ProducerInv
<1> QED BY <1>1, <1>2, <1>3 DEF PipelineNext

LEMMA PipelineInvHolds == PipelineSpec => [](StoreInv /\ ProducerInv) /\ [][Next]_vars
<1>1. PipelineInit => StoreInv /\ ProducerInv
  BY StoreInit, ProducerInit DEF PipelineInit
<1>2. StoreInv /\ ProducerInv /\ [PipelineNext]_allVars => StoreInv' /\ ProducerInv' /\ [Next]_vars
  BY PipelineStep, StoreStep
<1> QED BY <1>1, <1>2, PTL DEF PipelineSpec

\* The composition implements the store: producers are an instance of its
\* environment.
THEOREM PipelineImplementsStore == PipelineSpec => Spec
<1>1. PipelineInit => Init
  BY DEF PipelineInit
<1> QED BY <1>1, PipelineInvHolds, PTL DEF PipelineSpec, Spec

LEMMA InvDecisions == StoreInv /\ ProducerInv => DecisionsKeepRegistry
<1> SUFFICES ASSUME StoreInv, ProducerInv, NEW i \in EventLines, Author(i) \notin Emitters
             PROVE  Kept(registry, Event(i))
  BY DEF DecisionsKeepRegistry, Kept
<1>1. PICK c \in Commands : lines[i].text = WholeText(c)
  BY DEF EventLines, IsEvent
<1>2. /\ WholeText(c) \in Seq(Fragment) /\ Len(WholeText(c)) = 2
      /\ WholeText(c)[1] = [by |-> c, part |-> 1]
  BY WholeTextType
<1>3. 1 \in DOMAIN lines[i].text /\ lines[i].text[1] = [by |-> c, part |-> 1]
  BY <1>1, <1>2
<1>4. Author(i) = c
  BY <1>3 DEF Author
<1>5. sent[c] >= 1
  <2>1. i \in DOMAIN lines
    BY DEF EventLines
  <2>2. Occurs(c, 1)
    BY <1>3, <2>1 DEF Occurs
  <2> QED BY <2>2 DEF StoreInv, SentInv
<1> QED BY <1>4, <1>5 DEF ProducerInv, Event

\* Policy decisions that came through the normalizer keep their registry,
\* whatever registries, observations and crashes there are.
THEOREM DecisionsKept == PipelineSpec => []DecisionsKeepRegistry
BY PipelineInvHolds, InvDecisions, PTL

=============================================================================
