----------------------------- MODULE PCacheFiles -----------------------------
(***************************************************************************)
(* What lib/pcache.c keeps on disk.  The token list, the messages and the  *)
(* acks are three files, each written from its own snapshot of memory, in  *)
(* the background and not every time, while the bitmaps in two of them     *)
(* count positions of the list in the third.                               *)
(*                                                                         *)
(* The tables are reduced to what the files must agree on: which items are *)
(* stored, the bits of each, and the list.  `given` is not in the code: it *)
(* records which token was handed an item since the item was stored and    *)
(* the token was listed.                                                   *)
(***************************************************************************)
EXTENDS Integers, Sequences, FiniteSets, SequencesExt

CONSTANTS Msgs, Acks, Token, MaxTokens,
          MaxFresh       \* bound: changes of memory until no more are made

ASSUME FileAssumption ==
  /\ Msgs \cap Acks = {} /\ MaxTokens \in Nat \ {0, 1} /\ MaxFresh \in Nat

VARIABLES
  tokens,    \* token_list
  stored,    \* the items in the message and the ack table
  bits,      \* sent_to_tokens of each item
  given,     \* [Item -> SUBSET Token] (ghost)
  disk,      \* each file: {} when absent or short, or {its contents}
  writer,    \* each async_file_buffer: {} or {[open, data]}
  todo,      \* files that pcache_write has yet to write
  running,   \* the daemon runs, or pcache_write does (FALSE)
  alone,     \* pcache_write began with no file being written (ghost)
  fresh      \* changes so far

memVars == <<tokens, stored, bits>>
vars == <<memVars, given, disk, writer, todo, running, alone, fresh>>

Item == Msgs \cup Acks
File == {"messages", "acks", "tokens"}
None == [i \in Item |-> {}]

Table(items, st, b) == [stored |-> st \cap items,
                        bits |-> [i \in Item |-> IF i \in items THEN b[i] ELSE {}]]

\* What each file holds when it is written from these tables.
Snapshot(l, st, b) == [f \in File |->
  CASE f = "tokens" -> l
    [] f = "messages" -> Table(Msgs, st, b)
    [] f = "acks" -> Table(Acks, st, b)]

Init ==
  /\ tokens = <<>> /\ stored = {} /\ bits = None /\ given = None
  /\ disk = [f \in File |-> {}]
  /\ writer = [f \in File |-> {}]
  /\ todo = <<>> /\ running = TRUE /\ alone = FALSE /\ fresh = 0

\* write_file_async: a file being written already is not written this time.
StartedWith(w, files, data) ==
  [f \in File |-> IF f \in files /\ w[f] = {}
                  THEN {[open |-> FALSE, data |-> data[f]]} ELSE w[f]]

\* Every operation ends here; too_soon may put off the files of `optional`.
Change(optional, started) ==
  /\ running /\ fresh < MaxFresh
  /\ fresh' = fresh + 1
  /\ \E some \in SUBSET optional :
       writer' = StartedWith(started, some, Snapshot(tokens', stored', bits'))
  /\ UNCHANGED <<disk, todo, running, alone>>

\* pcache_save_packet without a collection.
StoreMessage(m) ==
  /\ m \in Msgs \ stored
  /\ stored' = stored \cup {m}
  /\ bits' = [bits EXCEPT ![m] = {}]
  /\ given' = [given EXCEPT ![m] = {}]
  /\ UNCHANGED tokens
  /\ Change({"messages"}, writer)

\* pcache_save_acks of one ack without a collection.
StoreAck(a) ==
  /\ a \in Acks \ stored
  /\ stored' = stored \cup {a}
  /\ bits' = [bits EXCEPT ![a] = {}]
  /\ given' = [given EXCEPT ![a] = {}]
  /\ UNCHANGED tokens
  /\ Change({"acks"}, writer)

\* do_gc keeps the items K; the list is shifted only when it is full.
Shift == IF Len(tokens) < MaxTokens THEN 0
         ELSE Len(tokens) - (3 * MaxTokens) \div 4
GcTokens == SubSeq(tokens, Shift + 1, Len(tokens))
GcBits(K) == [i \in Item |-> IF i \in K
                THEN {b - Shift : b \in {c \in bits[i] : c > Shift}} ELSE {}]
GcGiven == [i \in Item |-> given[i] \cap Range(GcTokens)]
GcFiles(K, files) ==
  StartedWith(writer, files, Snapshot(GcTokens, K, GcBits(K)))

\* pcache_save_packet with one: the collection writes tokens and acks.
StoreMessageGc(m, K) ==
  /\ m \in Msgs \ stored /\ K \subseteq stored
  /\ tokens' = GcTokens
  /\ stored' = K \cup {m}
  /\ bits' = [GcBits(K) EXCEPT ![m] = {}]
  /\ given' = [GcGiven EXCEPT ![m] = {}]
  /\ LET w == GcFiles(K, {"tokens", "acks"})
     IN Change({}, StartedWith(w, {"messages"}, Snapshot(tokens', stored', bits')))

\* save_one_ack with one: it writes tokens and messages.
StoreAckGc(a, K) ==
  /\ a \in Acks \ stored /\ K \subseteq stored
  /\ tokens' = GcTokens
  /\ stored' = K \cup {a}
  /\ bits' = [GcBits(K) EXCEPT ![a] = {}]
  /\ given' = [GcGiven EXCEPT ![a] = {}]
  /\ Change({"acks"}, GcFiles(K, {"tokens", "messages"}))

Known(t) == t \in Range(tokens)
IndexOf(t) == CHOOSE i \in 1 .. Len(tokens) : tokens[i] = t

\* Item i is handed to token t and its bit set, which writes nothing itself.
SendKnown(i, t) ==
  /\ i \in stored /\ Known(t) /\ IndexOf(t) \notin bits[i]
  /\ bits' = [bits EXCEPT ![i] = @ \cup {IndexOf(t)}]
  /\ given' = [given EXCEPT ![i] = @ \cup {t}]
  /\ UNCHANGED <<tokens, stored>>
  /\ Change({}, writer)

\* token_to_send_to for a new token: the list may be written before the bit.
SendNew(i, t) ==
  /\ i \in stored /\ ~ Known(t) /\ Len(tokens) < MaxTokens
  /\ tokens' = Append(tokens, t)
  /\ bits' = [bits EXCEPT ![i] = @ \cup {Len(tokens) + 1}]
  /\ given' = [given EXCEPT ![i] = @ \cup {t}]
  /\ UNCHANGED stored
  /\ Change({"tokens"}, writer)

\* The same with a full list; messages and acks are written without the bit.
SendNewGc(i, t, K) ==
  /\ i \in K /\ K \subseteq stored /\ ~ Known(t) /\ Len(tokens) = MaxTokens
  /\ tokens' = Append(GcTokens, t)
  /\ stored' = K
  /\ bits' = [GcBits(K) EXCEPT ![i] = @ \cup {Len(GcTokens) + 1}]
  /\ given' = [GcGiven EXCEPT ![i] = @ \cup {t}]
  /\ LET w == GcFiles(K, {"messages", "acks"})
     IN Change({}, StartedWith(w, {"tokens"}, Snapshot(tokens', stored', bits')))

\* write_file in write_file_async_thread: open truncates, then it is written.
OpenFile(f) ==
  \E w \in writer[f] :
    /\ ~ w.open
    /\ writer' = [writer EXCEPT ![f] = {[w EXCEPT !.open = TRUE]}]
    /\ disk' = [disk EXCEPT ![f] = {}]
    /\ UNCHANGED <<memVars, given, todo, running, alone, fresh>>
WriteFile(f) ==
  \E w \in writer[f] :
    /\ w.open
    /\ writer' = [writer EXCEPT ![f] = {}]
    /\ disk' = [disk EXCEPT ![f] = {w.data}]
    /\ UNCHANGED <<memVars, given, todo, running, alone, fresh>>

\* A terminating signal: save_state calls pcache_write, which does not look
\* at the locks of the background writers.
MutSaveOrder == <<"messages", "tokens">>        \* mutant: the acks are left out
SaveOrder == <<"messages", "acks", "tokens">>
SaveState ==
  /\ running
  /\ running' = FALSE /\ todo' = SaveOrder
  /\ alone' = (\A f \in File : writer[f] = {})
  /\ UNCHANGED <<memVars, given, disk, writer, fresh>>
SaveFile ==
  /\ ~ running /\ todo # <<>>
  /\ disk' = [disk EXCEPT ![Head(todo)] =
                {Snapshot(tokens, stored, bits)[Head(todo)]}]
  /\ todo' = Tail(todo)
  /\ UNCHANGED <<memVars, given, writer, running, alone, fresh>>

\* initialize_from_file: tokens, then messages, then acks, and everything from
\* scratch unless the first two are whole; the ack table may be empty.
MutLoadable == disk["messages"] # {}            \* mutant: tokens are not needed
Loadable == disk["tokens"] # {} /\ disk["messages"] # {}

Empty == [stored |-> {}, bits |-> None]
Contents(f, default) == IF disk[f] = {} THEN default ELSE CHOOSE c \in disk[f] : TRUE

LoadTables ==
  LET msg == Contents("messages", Empty)
      ack == Contents("acks", Empty)
  IN IF Loadable
     THEN /\ tokens' = Contents("tokens", <<>>)
          /\ stored' = msg.stored \cup ack.stored
          /\ bits' = [i \in Item |-> msg.bits[i] \cup ack.bits[i]]
     ELSE tokens' = <<>> /\ stored' = {} /\ bits' = None

\* The process ends, by exit (0) or otherwise, with its threads, and is started
\* again; a messages file of the wrong size is deleted.
Restart ==
  /\ LoadTables
  /\ writer' = [f \in File |-> {}]
  /\ running' = TRUE /\ todo' = <<>> /\ alone' = FALSE
  /\ given' = [i \in Item |-> given[i] \cap Range(tokens')]
  /\ UNCHANGED <<disk, fresh>>
Exit == ~ running /\ todo = <<>> /\ Restart
Crash == (running \/ todo # <<>>) /\ Restart

Operation ==
  \/ \E m \in Msgs : StoreMessage(m) \/ \E K \in SUBSET stored : StoreMessageGc(m, K)
  \/ \E a \in Acks : StoreAck(a) \/ \E K \in SUBSET stored : StoreAckGc(a, K)
  \/ \E i \in Item, t \in Token :
       SendKnown(i, t) \/ SendNew(i, t) \/ \E K \in SUBSET stored : SendNewGc(i, t, K)

Next ==
  \/ Operation
  \/ \E f \in File : OpenFile(f) \/ WriteFile(f)
  \/ SaveState \/ SaveFile \/ Exit \/ Crash

Spec == Init /\ [][Next]_vars

-----------------------------------------------------------------------------
(* A program that was stopped by a signal, while no background write was      *)
(* going on, starts again with exactly the tables it had.                     *)
CleanStopRestores ==
  [][Exit /\ alone => UNCHANGED memVars]_vars

(* Bits are never restored without the token list they count in: items read   *)
(* from whole files still come back unmarked when the list was lost, rather    *)
(* than marked for whichever token is listed next.                             *)
BitsNeedTheirList ==
  [][(Exit \/ Crash) /\ disk["tokens"] = {} => bits' = None]_vars

(* "return 1 if the ack has not yet been sent to this token": nothing is       *)
(* marked as sent to a listed token that was not given it.                     *)
MarkedWasGiven ==
  \A i \in stored : \A b \in bits[i] : b <= Len(tokens) => tokens[b] \in given[i]
=============================================================================
