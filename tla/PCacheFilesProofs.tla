-------------------------- MODULE PCacheFilesProofs -------------------------
(***************************************************************************)
(* A program that is stopped by a signal while no file is being written    *)
(* starts again with the tables it had (CleanStopRestores of PCacheFiles), *)
(* for any number of items and tokens.                                     *)
(***************************************************************************)
EXTENDS PCacheFiles, SubsequenceProofs

Lists == {l \in Seq(Token) : Len(l) <= MaxTokens}
Bits == [Item -> SUBSET (Nat \ {0})]
Tables == [stored : SUBSET Item, bits : Bits]
Data(f) == IF f = "tokens" THEN Lists ELSE Tables

MemType(l, st, b) == l \in Lists /\ st \in SUBSET Item /\ b \in Bits
WriterType(w) ==
  /\ w = [f \in File |-> w[f]]
  /\ \A f \in File : \A x \in w[f] : x \in [open : BOOLEAN, data : Data(f)]

(* What the process saves when it stops is on disk but for the files that are *)
(* left to write; no other writer interferes.                                 *)
Saved ==
  ~ running /\ alone =>
    /\ \A f \in File : writer[f] = {}
    /\ \A f \in File \ Range(todo) : disk[f] = {Snapshot(tokens, stored, bits)[f]}

FilesInv ==
  /\ MemType(tokens, stored, bits) /\ WriterType(writer)
  /\ disk = [f \in File |-> disk[f]] /\ \A f \in File : disk[f] \subseteq Data(f)
  /\ todo \in Seq(File) /\ running \in BOOLEAN
  /\ Saved

-----------------------------------------------------------------------------
(* The files and what they hold.                                              *)
LEMMA SnapshotFields ==
  ASSUME NEW l, NEW st, NEW b
  PROVE  /\ Snapshot(l, st, b)["tokens"] = l
         /\ Snapshot(l, st, b)["messages"] = Table(Msgs, st, b)
         /\ Snapshot(l, st, b)["acks"] = Table(Acks, st, b)
BY DEF Snapshot, File

LEMMA TableType ==
  ASSUME NEW items, NEW st \in SUBSET Item, NEW b \in Bits
  PROVE  Table(items, st, b) \in Tables
<1> DEFINE B == [i \in Item |-> IF i \in items THEN b[i] ELSE {}]
<1>1. B \in Bits
  BY DEF Bits
<1>2. Table(items, st, b) = [stored |-> st \cap items, bits |-> B]
  BY DEF Table
<1> HIDE DEF B
<1> QED BY <1>1, <1>2 DEF Tables

LEMMA SnapshotType ==
  ASSUME NEW l, NEW st, NEW b, MemType(l, st, b)
  PROVE  \A f \in File : Snapshot(l, st, b)[f] \in Data(f)
<1>1. Table(Msgs, st, b) \in Tables /\ Table(Acks, st, b) \in Tables /\ l \in Lists
  BY TableType DEF MemType
<1> QED BY <1>1, SnapshotFields DEF File, Data

LEMMA StartedType ==
  ASSUME NEW w, WriterType(w), NEW files, NEW l, NEW st, NEW b, MemType(l, st, b)
  PROVE  WriterType(StartedWith(w, files, Snapshot(l, st, b)))
<1> DEFINE d == Snapshot(l, st, b)
           S(f) == IF f \in files /\ w[f] = {} THEN {[open |-> FALSE, data |-> d[f]]} ELSE w[f]
<1>1. \A f \in File : d[f] \in Data(f)
  BY SnapshotType
<1>2. StartedWith(w, files, d) = [f \in File |-> S(f)]
  BY DEF StartedWith
<1> HIDE DEF d
<1>3. ASSUME NEW f \in File, NEW x \in S(f) PROVE x \in [open : BOOLEAN, data : Data(f)]
  <2>1. CASE f \in files /\ w[f] = {}
    <3> DEFINE e == d[f]
               T == Data(f)
    <3>1. e \in T
      BY <1>1
    <3>2. x = [open |-> FALSE, data |-> e]
      BY <1>3, <2>1
    <3> HIDE DEF e, T
    <3>3. x \in [open : BOOLEAN, data : T]
      BY <3>1, <3>2
    <3> QED BY <3>3 DEF T
  <2>2. CASE ~ (f \in files /\ w[f] = {})
    <3>1. x \in w[f]
      BY <1>3, <2>2
    <3> QED BY <3>1 DEF WriterType
  <2> QED BY <2>1, <2>2
<1> HIDE DEF S
<1> DEFINE W == [f \in File |-> S(f)]
<1>4. W = [f \in File |-> W[f]] /\ \A f \in File : W[f] = S(f)
  OBVIOUS
<1> HIDE DEF W
<1>5. WriterType(W)
  BY <1>3, <1>4 DEF WriterType
<1> QED BY <1>2, <1>5 DEF d, W

(* A collection.                                                              *)
LEMMA GcType ==
  ASSUME MemType(tokens, stored, bits), NEW K \in SUBSET stored
  PROVE  /\ MemType(GcTokens, K, GcBits(K))
         /\ Len(tokens) = MaxTokens => Len(GcTokens) < MaxTokens
<1> DEFINE n == Len(tokens)
           s == Shift
           q == (3 * MaxTokens) \div 4
<1>1. tokens \in Seq(Token) /\ n \in Nat /\ n <= MaxTokens /\ MaxTokens \in Nat /\ MaxTokens >= 2
  BY FileAssumption DEF MemType, Lists
<1>2. q \in Nat /\ q < MaxTokens /\ q > 0
  BY <1>1
<1>3. s = IF n < MaxTokens THEN 0 ELSE n - q
  BY DEF Shift
<1> HIDE DEF n, s, q
<1>4. s \in 0 .. n /\ (n = MaxTokens => n - s = q)
  BY <1>1, <1>2, <1>3
<1>5. GcTokens = SubSeq(tokens, s + 1, n)
  BY DEF GcTokens, s, n
<1>6. GcTokens \in Seq(Token) /\ Len(GcTokens) = n - s
  <2>1. \A i \in 1 .. n - s : tokens[s + i] \in Token
    BY <1>1, <1>4 DEF n
  <2>2. SubSeq(tokens, s + 1, n) \in Seq(Token) /\ Len(SubSeq(tokens, s + 1, n)) = n - s
    BY <1>1, <1>4, <2>1 DEF n
  <2> QED BY <1>5, <2>2
<1>7. GcTokens \in Lists
  BY <1>1, <1>4, <1>6 DEF Lists
<1>8. GcBits(K) \in Bits
  <2> DEFINE G(i) == IF i \in K THEN {c - s : c \in {d \in bits[i] : d > s}} ELSE {}
  <2>1. GcBits(K) = [i \in Item |-> G(i)]
    BY DEF GcBits, s
  <2>2. ASSUME NEW i \in Item PROVE G(i) \in SUBSET (Nat \ {0})
    <3>1. bits[i] \in SUBSET (Nat \ {0})
      BY DEF MemType, Bits
    <3> QED BY <1>1, <1>4, <3>1
  <2> HIDE DEF G
  <2> QED BY <2>1, <2>2 DEF Bits
<1>9. K \in SUBSET Item
  BY DEF MemType
<1> QED BY <1>1, <1>2, <1>4, <1>6, <1>7, <1>8, <1>9 DEF MemType, n

LEMMA BitSet ==
  ASSUME NEW b \in Bits, NEW i \in Item, NEW n \in Nat \ {0}
  PROVE  [b EXCEPT ![i] = @ \cup {n}] \in Bits /\ [b EXCEPT ![i] = {}] \in Bits
BY DEF Bits


-----------------------------------------------------------------------------
(* Every operation runs while nothing is being saved.                         *)
LEMMA ChangeStep ==
  ASSUME FilesInv, MemType(tokens', stored', bits'), NEW optional, NEW started,
         WriterType(started), Change(optional, started)
  PROVE  FilesInv'
<1>1. PICK some \in SUBSET optional :
        writer' = StartedWith(started, some, Snapshot(tokens', stored', bits'))
  BY DEF Change
<1>2. WriterType(writer')
  BY <1>1, StartedType
<1>3. running /\ UNCHANGED <<disk, todo, running, alone>>
  BY DEF Change
<1>4. Saved'
  BY <1>3 DEF Saved
<1> QED BY <1>2, <1>3, <1>4 DEF FilesInv

LEMMA OperationStep ==
  ASSUME FilesInv, Operation PROVE FilesInv'
<1>1. MemType(tokens, stored, bits) /\ WriterType(writer)
  BY DEF FilesInv
<1>2. stored \in SUBSET Item /\ bits \in Bits /\ tokens \in Lists
  BY <1>1 DEF MemType
<1>3. MaxTokens \in Nat \ {0}
  BY FileAssumption
<1>4. \A l \in Lists : Len(l) \in Nat
  BY DEF Lists
<1>5. ASSUME NEW l \in Lists, NEW x \in Token, Len(l) < MaxTokens
      PROVE  Append(l, x) \in Lists
  BY <1>3, <1>5 DEF Lists
<1>6. ASSUME NEW i \in Item, StoreMessage(i) \/ StoreAck(i) PROVE FilesInv'
  <2>1. MemType(tokens', stored', bits')
    <3>1. /\ tokens' = tokens /\ stored' = stored \cup {i}
          /\ bits' = [bits EXCEPT ![i] = {}]
      BY <1>6 DEF StoreMessage, StoreAck
    <3>2. bits' \in Bits
      BY <1>2, <3>1 DEF Bits
    <3> QED BY <1>2, <3>1, <3>2 DEF MemType
  <2> QED BY <1>1, <1>6, <2>1, ChangeStep DEF StoreMessage, StoreAck
<1>7. ASSUME NEW i \in Item, NEW K \in SUBSET stored, StoreMessageGc(i, K) \/ StoreAckGc(i, K)
      PROVE  FilesInv'
  <2>1. MemType(GcTokens, K, GcBits(K))
    BY <1>1, GcType
  <2>2. MemType(tokens', stored', bits')
    <3>1. /\ tokens' = GcTokens /\ stored' = K \cup {i}
          /\ bits' = [GcBits(K) EXCEPT ![i] = {}]
      BY <1>7 DEF StoreMessageGc, StoreAckGc
    <3> DEFINE b == GcBits(K)
    <3>2. b \in Bits /\ bits' = [b EXCEPT ![i] = {}]
      BY <2>1, <3>1 DEF MemType
    <3> HIDE DEF b
    <3>3. bits' \in Bits
      BY <3>2 DEF Bits
    <3> QED BY <2>1, <3>1, <3>3 DEF MemType
  <2>3. \A files : WriterType(GcFiles(K, files))
    BY <1>1, <2>1, StartedType DEF GcFiles
  <2>4. CASE StoreMessageGc(i, K)
    <3>1. WriterType(StartedWith(GcFiles(K, {"tokens", "acks"}), {"messages"},
                                 Snapshot(tokens', stored', bits')))
      BY <2>2, <2>3, StartedType
    <3> QED BY <2>2, <2>4, <3>1, ChangeStep DEF StoreMessageGc
  <2>5. CASE StoreAckGc(i, K)
    <3>1. WriterType(GcFiles(K, {"tokens", "messages"}))
      BY <2>3
    <3> QED BY <2>2, <2>5, <3>1, ChangeStep DEF StoreAckGc
  <2> QED BY <1>7, <2>4, <2>5
<1>8. ASSUME NEW i \in Item, NEW t \in Token, SendKnown(i, t) PROVE FilesInv'
  <2> DEFINE n == IndexOf(t)
  <2>1. /\ tokens' = tokens /\ stored' = stored /\ Known(t)
        /\ bits' = [bits EXCEPT ![i] = @ \cup {n}]
    BY <1>8 DEF SendKnown
  <2>2. n \in 1 .. Len(tokens) /\ tokens \in Seq(Token)
    <3>1. tokens \in Seq(Token) /\ DOMAIN tokens = 1 .. Len(tokens)
      BY <1>2 DEF Lists
    <3>2. \E j \in 1 .. Len(tokens) : tokens[j] = t
      BY <2>1, <3>1 DEF Known, Range
    <3> QED BY <3>1, <3>2 DEF IndexOf
  <2> HIDE DEF n
  <2>3. bits' \in Bits
    BY <1>2, <1>4, <2>1, <2>2 DEF Bits
  <2>4. MemType(tokens', stored', bits')
    BY <1>2, <2>1, <2>3 DEF MemType
  <2> QED BY <1>1, <1>8, <2>4, ChangeStep DEF SendKnown
<1>9. ASSUME NEW i \in Item, NEW t \in Token, SendNew(i, t) PROVE FilesInv'
  <2>1. /\ tokens' = Append(tokens, t) /\ stored' = stored /\ Len(tokens) < MaxTokens
        /\ bits' = [bits EXCEPT ![i] = @ \cup {Len(tokens) + 1}]
    BY <1>9 DEF SendNew
  <2>2. Len(tokens) + 1 \in Nat \ {0}
    BY <1>2, <1>4
  <2>3. bits' \in Bits
    BY <1>2, <2>1, <2>2 DEF Bits
  <2>4. MemType(tokens', stored', bits')
    BY <1>2, <1>5, <2>1, <2>3 DEF MemType
  <2> QED BY <1>1, <1>9, <2>4, ChangeStep DEF SendNew
<1>10. ASSUME NEW i \in Item, NEW t \in Token, NEW K \in SUBSET stored, SendNewGc(i, t, K)
       PROVE  FilesInv'
  <2> DEFINE b == GcBits(K)
             n == Len(GcTokens) + 1
  <2>1. /\ tokens' = Append(GcTokens, t) /\ stored' = K /\ Len(tokens) = MaxTokens
        /\ bits' = [b EXCEPT ![i] = @ \cup {n}]
    BY <1>10 DEF SendNewGc
  <2>2. MemType(GcTokens, K, b) /\ Len(GcTokens) < MaxTokens
    BY <1>1, <2>1, GcType
  <2>3. GcTokens \in Lists /\ b \in Bits /\ K \in SUBSET Item
    BY <2>2 DEF MemType
  <2>4. n \in Nat \ {0}
    BY <1>4, <2>3
  <2> HIDE DEF b, n
  <2>5. bits' \in Bits
    BY <2>1, <2>3, <2>4 DEF Bits
  <2>6. MemType(tokens', stored', bits')
    BY <1>5, <2>1, <2>2, <2>3, <2>5 DEF MemType
  <2>7. WriterType(GcFiles(K, {"messages", "acks"}))
    BY <1>1, <2>2, StartedType DEF GcFiles, b
  <2>8. WriterType(StartedWith(GcFiles(K, {"messages", "acks"}), {"tokens"},
                               Snapshot(tokens', stored', bits')))
    BY <2>6, <2>7, StartedType
  <2> QED BY <1>10, <2>6, <2>8, ChangeStep DEF SendNewGc
<1> QED BY <1>6, <1>7, <1>8, <1>9, <1>10 DEF Operation, Item


LEMMA WriterSteps ==
  ASSUME FilesInv, NEW f \in File, OpenFile(f) \/ WriteFile(f) PROVE FilesInv'
<1>1. PICK w \in writer[f] :
        /\ UNCHANGED <<memVars, todo, running, alone>>
        /\ \/ /\ writer' = [writer EXCEPT ![f] = {[w EXCEPT !.open = TRUE]}]
              /\ disk' = [disk EXCEPT ![f] = {}]
           \/ /\ writer' = [writer EXCEPT ![f] = {}]
              /\ disk' = [disk EXCEPT ![f] = {w.data}]
  BY DEF OpenFile, WriteFile
<1>2. w \in [open : BOOLEAN, data : Data(f)]
  BY DEF FilesInv, WriterType
<1>3. w.data \in Data(f) /\ [w EXCEPT !.open = TRUE] \in [open : BOOLEAN, data : Data(f)]
  BY <1>2
<1> DEFINE o == [w EXCEPT !.open = TRUE]
           d == w.data
<1>4. /\ writer' \in {[writer EXCEPT ![f] = {o}], [writer EXCEPT ![f] = {}]}
      /\ disk' \in {[disk EXCEPT ![f] = {}], [disk EXCEPT ![f] = {d}]}
  BY <1>1
<1> HIDE DEF o, d
<1>5. WriterType(writer')
  <2>1. writer = [g \in File |-> writer[g]]
    BY DEF FilesInv, WriterType
  <2>2. /\ writer' = [g \in File |-> writer'[g]]
        /\ writer'[f] \in {{o}, {}} /\ \A g \in File \ {f} : writer'[g] = writer[g]
    BY <1>4, <2>1
  <2>3. o \in [open : BOOLEAN, data : Data(f)]
    BY <1>3 DEF o
  <2> QED BY <2>2, <2>3 DEF FilesInv, WriterType
<1>6. disk' = [g \in File |-> disk'[g]] /\ \A g \in File : disk'[g] \subseteq Data(g)
  <2>1. disk = [g \in File |-> disk[g]]
    BY DEF FilesInv
  <2>2. /\ disk' = [g \in File |-> disk'[g]]
        /\ disk'[f] \in {{d}, {}} /\ \A g \in File \ {f} : disk'[g] = disk[g]
    BY <1>4, <2>1
  <2>3. d \in Data(f)
    BY <1>3 DEF d
  <2> QED BY <2>2, <2>3 DEF FilesInv
<1>7. running' = running /\ alone' = alone /\ todo' = todo
      /\ tokens' = tokens /\ stored' = stored /\ bits' = bits
  BY <1>1 DEF memVars
<1>8. Saved'
  BY <1>7 DEF Saved, FilesInv
<1> QED BY <1>5, <1>6, <1>7, <1>8 DEF FilesInv

LEMMA SaveStateStep ==
  ASSUME FilesInv, SaveState PROVE FilesInv'
<1>1. /\ todo' = <<"messages", "acks", "tokens">> /\ running' = FALSE
      /\ UNCHANGED <<tokens, stored, bits, disk, writer>>
      /\ alone' = (\A f \in File : writer[f] = {})
  BY DEF SaveState, SaveOrder, memVars
<1>2. todo' \in Seq(File) /\ Range(todo') = File
  BY <1>1 DEF File, Range
<1>3. Saved'
  BY <1>1, <1>2 DEF Saved
<1> QED BY <1>1, <1>2, <1>3 DEF FilesInv

LEMMA SaveFileStep ==
  ASSUME FilesInv, SaveFile PROVE FilesInv'
<1> DEFINE f == Head(todo)
           d == Snapshot(tokens, stored, bits)[f]
<1>1. /\ ~ running /\ todo # <<>> /\ todo' = Tail(todo)
      /\ disk' = [disk EXCEPT ![f] = {d}]
      /\ UNCHANGED <<tokens, stored, bits, writer, running, alone>>
  BY DEF SaveFile, memVars
<1>2. /\ f \in File /\ todo' \in Seq(File)
      /\ \A g \in File : g \in Range(todo) => g = f \/ g \in Range(todo')
  <2>1. todo \in Seq(File) /\ Len(todo) \in Nat \ {0} /\ DOMAIN todo = 1 .. Len(todo)
    BY <1>1 DEF FilesInv
  <2>2. /\ f = todo[1] /\ Tail(todo) \in Seq(File) /\ Len(Tail(todo)) = Len(todo) - 1
        /\ \A i \in 1 .. Len(todo) - 1 : Tail(todo)[i] = todo[i + 1]
    BY <1>1, <2>1
  <2>3. ASSUME NEW g \in File, g \in Range(todo) PROVE g = f \/ g \in Range(todo')
    <3>1. PICK i \in 1 .. Len(todo) : g = todo[i]
      BY <2>1, <2>3 DEF Range
    <3>2. CASE i = 1
      BY <2>2, <3>1, <3>2
    <3>3. CASE i # 1
      <4>1. i - 1 \in 1 .. Len(todo) - 1 /\ (i - 1) + 1 = i
        BY <2>1, <3>3
      <4>2. DOMAIN todo' = 1 .. Len(todo) - 1 /\ todo'[i - 1] = g
        BY <1>1, <2>1, <2>2, <3>1, <4>1
      <4> QED BY <4>1, <4>2 DEF Range
    <3> QED BY <3>2, <3>3
  <2> QED BY <1>1, <2>1, <2>2, <2>3
<1>3. d \in Data(f)
  BY <1>2, SnapshotType DEF FilesInv
<1>4. /\ disk' = [g \in File |-> disk'[g]] /\ disk'[f] = {d}
      /\ \A g \in File \ {f} : disk'[g] = disk[g]
  <2> HIDE DEF d, f
  <2>1. disk = [g \in File |-> disk[g]]
    BY DEF FilesInv
  <2> QED BY <1>1, <1>2, <2>1
<1>5. \A g \in File : disk'[g] \subseteq Data(g)
  <2> HIDE DEF d, f
  <2> QED BY <1>3, <1>4 DEF FilesInv
<1>6. Saved'
  <2> SUFFICES ASSUME alone' PROVE Saved'
    BY DEF Saved
  <2>1. \A g \in File \ Range(todo) : disk[g] = {Snapshot(tokens, stored, bits)[g]}
    BY <1>1 DEF FilesInv, Saved
  <2>2. \A g \in File : writer[g] = {}
    BY <1>1 DEF FilesInv, Saved
  <2>3. ASSUME NEW g \in File \ Range(todo')
        PROVE  disk'[g] = {Snapshot(tokens, stored, bits)[g]}
    <3>1. CASE g = f
      BY <1>4, <3>1
    <3>2. CASE g # f
      BY <1>2, <1>4, <2>1, <2>3, <3>2
    <3> QED BY <3>1, <3>2
  <2> QED BY <1>1, <2>2, <2>3 DEF Saved
<1> QED BY <1>1, <1>2, <1>4, <1>5, <1>6 DEF FilesInv


(* What is loaded has the types of memory, whatever a crash has left.         *)
LEMMA RestartStep ==
  ASSUME FilesInv, Restart PROVE FilesInv'
<1> DEFINE msg == Contents("messages", Empty)
           ack == Contents("acks", Empty)
           list == Contents("tokens", <<>>)
<1>1. <<>> \in Lists /\ None \in Bits /\ Empty \in Tables
  <2>1. None \in Bits
    BY DEF None, Bits
  <2>2. \A T : <<>> \in Seq(T) /\ Len(<<>>) = 0
    OBVIOUS
  <2>3. <<>> \in Lists
    BY <2>2, FileAssumption DEF Lists
  <2>4. Empty \in Tables
    <3> DEFINE n == None
    <3>1. n \in Bits /\ Empty = [stored |-> {}, bits |-> n]
      BY <2>1 DEF Empty
    <3> HIDE DEF n
    <3> QED BY <3>1 DEF Tables
  <2> QED BY <2>1, <2>3, <2>4
<1>2. \A f \in File : \A default \in Data(f) : Contents(f, default) \in Data(f)
  BY DEF Contents, FilesInv
<1>3. msg \in Tables /\ ack \in Tables /\ list \in Lists
  <2>1. "messages" \in File /\ "acks" \in File /\ "tokens" \in File
    BY DEF File
  <2>2. Data("messages") = Tables /\ Data("acks") = Tables /\ Data("tokens") = Lists
    BY DEF Data
  <2> QED BY <1>1, <1>2, <2>1, <2>2
<1>4. \/ /\ tokens' = list /\ stored' = msg.stored \cup ack.stored
         /\ bits' = [i \in Item |-> msg.bits[i] \cup ack.bits[i]]
      \/ tokens' = <<>> /\ stored' = {} /\ bits' = None
  BY DEF Restart, LoadTables
<1>5. /\ running' = TRUE /\ todo' = <<>> /\ disk' = disk
      /\ writer' = [f \in File |-> {}]
  BY DEF Restart
<1> HIDE DEF msg, ack, list
<1>6. /\ msg.stored \in SUBSET Item /\ ack.stored \in SUBSET Item
      /\ msg.bits \in Bits /\ ack.bits \in Bits
  BY <1>3 DEF Tables
<1>7. [i \in Item |-> msg.bits[i] \cup ack.bits[i]] \in Bits
  <2> DEFINE b == msg.bits
             c == ack.bits
  <2>1. b \in Bits /\ c \in Bits
    BY <1>6
  <2> HIDE DEF b, c
  <2>2. [i \in Item |-> b[i] \cup c[i]] \in Bits
    BY <2>1 DEF Bits
  <2> QED BY <2>2 DEF b, c
<1>8. MemType(tokens', stored', bits')
  BY <1>1, <1>3, <1>4, <1>6, <1>7 DEF MemType
<1>9. WriterType(writer')
  BY <1>5 DEF WriterType
<1>10. todo' \in Seq(File)
  <2>1. \A T : <<>> \in Seq(T)
    OBVIOUS
  <2> QED BY <1>5, <2>1
<1>11. Saved'
  BY <1>5 DEF Saved
<1> QED BY <1>5, <1>8, <1>9, <1>10, <1>11 DEF FilesInv

LEMMA FilesStart == Init => FilesInv
<1> SUFFICES ASSUME Init PROVE FilesInv
  OBVIOUS
<1>1. /\ tokens = <<>> /\ stored = {} /\ bits = None /\ todo = <<>> /\ running = TRUE
      /\ disk = [f \in File |-> {}] /\ writer = [f \in File |-> {}]
  BY DEF Init
<1>2. \A T : <<>> \in Seq(T) /\ Len(<<>>) = 0
  OBVIOUS
<1>3. tokens \in Lists /\ todo \in Seq(File)
  BY <1>1, <1>2, FileAssumption DEF Lists
<1>4. MemType(tokens, stored, bits)
  BY <1>1, <1>3 DEF MemType, None, Bits
<1>5. WriterType(writer)
  BY <1>1 DEF WriterType
<1> QED BY <1>1, <1>3, <1>4, <1>5 DEF FilesInv, Saved

LEMMA FilesSteps ==
  ASSUME FilesInv, [Next]_vars PROVE FilesInv'
<1>1. CASE UNCHANGED vars
  BY <1>1 DEF vars, memVars, FilesInv, MemType, WriterType, Saved
<1> QED
  BY <1>1, OperationStep, WriterSteps, SaveStateStep, SaveFileStep, RestartStep
  DEF Next, Exit, Crash

-----------------------------------------------------------------------------
(* The two tables of items are two parts of memory.                           *)
LEMMA PartsOfMemory ==
  ASSUME MemType(tokens, stored, bits)
  PROVE  LET m == Table(Msgs, stored, bits)
             a == Table(Acks, stored, bits)
         IN /\ stored = m.stored \cup a.stored
            /\ bits = [i \in Item |-> m.bits[i] \cup a.bits[i]]
<1>1. stored = (stored \cap Msgs) \cup (stored \cap Acks)
  BY DEF MemType, Item
<1> DEFINE M == [i \in Item |-> IF i \in Msgs THEN bits[i] ELSE {}]
           A == [i \in Item |-> IF i \in Acks THEN bits[i] ELSE {}]
<1>2. \A i \in Item : M[i] \cup A[i] = bits[i]
  BY FileAssumption DEF Item
<1>3. bits = [i \in Item |-> bits[i]]
  BY DEF MemType, Bits
<1>4. /\ Table(Msgs, stored, bits) = [stored |-> stored \cap Msgs, bits |-> M]
      /\ Table(Acks, stored, bits) = [stored |-> stored \cap Acks, bits |-> A]
  BY DEF Table
<1> HIDE DEF M, A
<1>5. bits = [i \in Item |-> M[i] \cup A[i]]
  BY <1>2, <1>3
<1> QED BY <1>1, <1>4, <1>5

(* (pcache_write, initialize_from_file) Without a background write the saved  *)
(* tables are those of memory, and a restart has them all.                    *)
THEOREM StopRestores == Spec => CleanStopRestores
<1>1. ASSUME FilesInv, Exit, alone PROVE UNCHANGED memVars
  <2>1. /\ MemType(tokens, stored, bits) /\ ~ running /\ Range(<<>>) = {}
        /\ \A f \in File \ Range(todo) : disk[f] = {Snapshot(tokens, stored, bits)[f]}
        /\ todo = <<>> /\ LoadTables
    BY <1>1 DEF FilesInv, Saved, Exit, Restart, Range
  <2>2. /\ disk["tokens"] = {tokens}
        /\ disk["messages"] = {Table(Msgs, stored, bits)}
        /\ disk["acks"] = {Table(Acks, stored, bits)}
    BY <2>1, SnapshotFields DEF File
  <2> DEFINE m == Table(Msgs, stored, bits)
             a == Table(Acks, stored, bits)
  <2>3. /\ stored = m.stored \cup a.stored
        /\ bits = [i \in Item |-> m.bits[i] \cup a.bits[i]]
    BY <2>1, PartsOfMemory
  <2> HIDE DEF m, a
  <2>4. /\ Contents("tokens", <<>>) = tokens /\ Contents("messages", Empty) = m
        /\ Contents("acks", Empty) = a /\ Loadable
    BY <2>2 DEF Contents, Loadable, m, a
  <2>5. /\ tokens' = tokens /\ stored' = m.stored \cup a.stored
        /\ bits' = [i \in Item |-> m.bits[i] \cup a.bits[i]]
    BY <2>1, <2>4 DEF LoadTables
  <2> QED BY <2>3, <2>5 DEF memVars
<1>2. FilesInv /\ [Next]_vars => [Exit /\ alone => UNCHANGED memVars]_vars
  BY <1>1
<1> QED BY <1>2, FilesStart, FilesSteps, PTL DEF Spec, CleanStopRestores

(* (initialize_from_file) Without the file of tokens everything starts from   *)
(* nothing, so that no bit comes to mean another token.                       *)
THEOREM BitsNeedList == Spec => BitsNeedTheirList
<1>1. ASSUME Exit \/ Crash, disk["tokens"] = {} PROVE bits' = None
  BY <1>1 DEF Exit, Crash, Restart, LoadTables, Loadable
<1>2. [Next]_vars => [(Exit \/ Crash) /\ disk["tokens"] = {} => bits' = None]_vars
  BY <1>1
<1> QED BY <1>2, PTL DEF Spec, BitsNeedTheirList
=============================================================================
