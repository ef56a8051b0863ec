----------------------------- MODULE RecordText -----------------------------
(***************************************************************************)
(* The text of a message file (xchat/store.c): what save_record writes and *)
(* how the iterator finds and parses it from the end of the file.  A       *)
(* record is a line with its type and id, a line with its number and times *)
(* and the lines of the message, each after a blank.  One character stands *)
(* for each of the words that begin a record, for ids and for numbers.     *)
(***************************************************************************)
EXTENDS Naturals, Sequences, FiniteSets, SequencesExt

CONSTANTS
  Newline, Blank,
  Starts,     \* what begins a record: "sent id: ", "rcvd id: ", "got ack: "
  AckType,        \* the last of these
  Letter,     \* any other text
  MaxLength,  \* longest message
  MaxSaved    \* most records

ASSUME RecordTextAssumption ==
  AckType \in Starts /\ Cardinality({Newline, Blank, Letter} \cup Starts) = Cardinality(Starts) + 3

VARIABLES
  logText,   \* the characters of the file
  saved   \* the records that were saved: [type, text]
recordText == <<logText, saved>>

Chars == {Newline, Blank, Letter} \cup Starts
RecordTexts == UNION {[1 .. n -> Chars] : n \in 0 .. MaxLength}

\* A newline at the end of a message is not written.
EndsInNewline(text) == text # <<>> /\ Last(text) = Newline
Body(text) == IF EndsInNewline(text) THEN Front(text) ELSE text

\* Mutant of Indented: only the first line of a message follows a blank.
MutIndented(text) == <<Blank>> \o text
Indented(text) ==
  <<Blank>> \o FoldLeft(LAMBDA out, c : out \o (IF c = Newline THEN <<c, Blank>> ELSE <<c>>), <<>>, text)
StoreSaveMessage(text) == Indented(Body(text)) \o <<Newline>>

WrittenText(r) ==
  <<r.type, Letter, Newline>> \o
    (IF r.type = AckType THEN <<>> ELSE <<Letter, Newline>> \o StoreSaveMessage(r.text))

SaveText(r) ==
  /\ Len(saved) < MaxSaved
  /\ logText' = logText \o WrittenText(r) /\ saved' = Append(saved, r)

(***************************************************************************)
(* find_prev_record and parse_record.                                      *)
(***************************************************************************)
RecordStarts(f) == {p \in DOMAIN f : f[p] \in Starts /\ (p = 1 \/ f[p - 1] = Newline)}

LineEnds(r) == {i \in DOMAIN r : r[i] = Newline}
Unindented(t) ==
  LET kept == SelectSeq([i \in DOMAIN t |-> i],
                        LAMBDA i : ~(t[i] = Blank /\ i > 1 /\ t[i - 1] = Newline)
                                   /\ ~(t[i] = Newline /\ i = Len(t)))
  IN  [i \in DOMAIN kept |-> t[kept[i]]]

\* A record that cannot be parsed is MSG_TYPE_DONE, which ends the iteration.
ParseRecord(r) ==
  IF LineEnds(r) = {} THEN {}
  ELSE IF r[1] = AckType THEN {[type |-> AckType, text |-> <<>>]}
  ELSE {[type |-> r[1], text |-> Unindented(SubSeq(r, second + 2, Len(r)))] :
         second \in {i \in LineEnds(r) : /\ Cardinality({j \in LineEnds(r) : j < i}) = 1
                                         /\ i < Len(r) /\ r[i + 1] = Blank}}

\* What the calls of prev_message return, until the first that cannot be parsed.
PrevMessages(f) ==
  LET starts == SetToSortSeq(RecordStarts(f), LAMBDA p, q : p > q)
      record(i) == SubSeq(f, starts[i], IF i = 1 THEN Len(f) ELSE starts[i - 1] - 1)
      next(found, i) == IF Len(found) < i - 1 \/ ParseRecord(record(i)) = {} THEN found
                        ELSE Append(found, CHOOSE r \in ParseRecord(record(i)) : TRUE)
  IN  FoldLeft(next, <<>>, [i \in DOMAIN starts |-> i])

RecordTextInit == logText = <<>> /\ saved = <<>>
RecordTextNext ==
  \/ \E type \in Starts \ {AckType}, text \in RecordTexts : SaveText([type |-> type, text |-> text])
  \/ SaveText([type |-> AckType, text |-> <<>>])
RecordTextSpec == RecordTextInit /\ [][RecordTextNext]_recordText

-----------------------------------------------------------------------------
\* (save_record, prev_message) The records are read back in the reverse order and
\* with their texts, except for one newline at the end, also when a message has
\* lines that look like the beginning of a record.
ReadsBack ==
  PrevMessages(logText) = Reverse([i \in DOMAIN saved |-> [saved[i] EXCEPT !.text = Body(@)]])
=============================================================================
