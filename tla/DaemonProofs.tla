----------------------------- MODULE DaemonProofs ---------------------------
(***************************************************************************)
(* What holds of daemons for any number of them, of starts, stops, packets *)
(* and connections: a stop reaches what it is meant to stop, a trace names *)
(* the systems its request came by, a send limit is only renewed for a     *)
(* peer that is reached, and the table of peers has the closest ones and   *)
(* forgets none unasked.  The four parts share no state.                   *)
(***************************************************************************)
EXTENDS Startup, Flood, Keepalive, Routing, SubsequenceProofs, FiniteSetTheorems

-----------------------------------------------------------------------------
(* Stopping (Startup).  The types of the variables.                           *)
StartupType ==
  /\ running \in [Children -> {"none", "begun", "runs", "saves"}]
  /\ starting \in [Starts -> [step : 0 .. Done, file : Nat, offset : Nat]]
  /\ stopping \in [Stops -> [step : {"not begun", "found", "read", "signals", "ended"},
                             pids : Seq(Children), single : BOOLEAN]]
  /\ pidFile \in [id : Nat, pids : Seq(Children \cup {Hole})]
  /\ files \in Nat /\ alone \in Starts \cup {0} /\ calm \in Nat

(* A process that needs no further signal.                                    *)
Reached(c) == running[c] \in {"none", "saves"}
Child(s, i) == <<s, Roles[i]>>

(* A stop under way that nothing else runs beside.                            *)
OnItsOwn(k) == ~ Idle(k) /\ stopping[k].single

(* Nothing is started while a stop is on its own or once stops had company of *)
(* no start; then the file is there until such a stop removes it.             *)
Calm ==
  /\ \A s \in Starts : starting[s].step = 0 => \A i \in 1 .. Len(Roles) : Reached(Child(s, i))
  /\ \A k \in Stops : OnItsOwn(k) =>
       /\ calm = 0 /\ \A s \in Starts : ~ UnderWay(s)
       /\ \A j \in Stops \ {k} : Idle(j)
       /\ stopping[k].step = "found" => pidFile.id # 0
       /\ stopping[k].step = "signals" => pidFile.id = 0
  /\ calm > 0 => pidFile.id = 0 /\ \A s \in Starts : ~ UnderWay(s)
  /\ calm > 1 => \A c \in Children : Reached(c)

(* The file names what start s has started, but for a child that is forked    *)
(* and not written yet.                                                       *)
Names(s, pids) ==
  \A i \in 1 .. Len(Roles) :
    Reached(Child(s, i)) \/ Child(s, i) \in Range(pids) \/ starting[s].step = 2 * i
InFile(s) ==
  /\ pidFile.id # 0 /\ pidFile.id = starting[s].file
  /\ starting[s].step # 0 /\ Names(s, pidFile.pids)
  /\ UnderWay(s) => starting[s].offset = Len(pidFile.pids)

(* What became of the last start, when it had no company: its processes are   *)
(* in the file, in the list of the stop that has read the file, or reached.   *)
Alone ==
  alone # 0 =>
    /\ \A r \in Starts \ {alone} : ~ UnderWay(r)
    /\ \A k \in Stops : Idle(k) \/ stopping[k].single
    /\ (calm = 0 /\ \A k \in Stops : stopping[k].step \notin {"read", "signals"})
         => InFile(alone)
    /\ \A k \in Stops : stopping[k].step \in {"read", "signals"} =>
         \A i \in 1 .. Len(Roles) :
           Reached(Child(alone, i)) \/ Child(alone, i) \in Range(stopping[k].pids)
    /\ calm > 0 => \A i \in 1 .. Len(Roles) : Reached(Child(alone, i))

StartupInv == StartupType /\ Calm /\ Alone

-----------------------------------------------------------------------------
(* The roles are keyd and the daemon, so every child has a number of its own. *)
LEMMA RoleFacts ==
  /\ Len(Roles) = 2 /\ Done = 5 /\ 0 \notin Starts /\ Starts \subseteq Nat
  /\ Roles[1] = "keyd" /\ Roles[2] = "daemon" /\ Range(Roles) = {"keyd", "daemon"}
<1>1. Len(Roles) = 2 /\ Roles[1] = "keyd" /\ Roles[2] = "daemon" /\ DOMAIN Roles = 1 .. 2
  BY DEF Roles
<1>2. Range(Roles) = {"keyd", "daemon"}
  BY <1>1 DEF Range
<1> QED BY <1>1, <1>2, StartupAssumption DEF Done

LEMMA ChildFacts ==
  /\ \A s \in Starts, i \in 1 .. Len(Roles) : Child(s, i) \in Children
  /\ \A s, r \in Starts, i, j \in 1 .. Len(Roles) : Child(s, i) = Child(r, j) => s = r /\ i = j
  /\ \A c \in Children : c[1] \in Starts /\ \E i \in 1 .. Len(Roles) : c = Child(c[1], i)
  /\ \A s \in Starts : <<s, "keyd">> = Child(s, 1) /\ <<s, "daemon">> = Child(s, 2)
  /\ Hole \notin Children
BY RoleFacts DEF Child, Children, Hole

-----------------------------------------------------------------------------
(* Types.                                                                     *)
LEMMA WrittenType ==
  ASSUME NEW T, Hole \in T, NEW pids \in Seq(T), NEW offset \in Nat, NEW c \in T
  PROVE  Written(pids, offset, c) \in Seq(T)
<1> DEFINE n == IF offset >= Len(pids) THEN offset + 1 ELSE Len(pids)
           W(i) == IF i = offset + 1 THEN c ELSE IF i <= Len(pids) THEN pids[i] ELSE Hole
<1>1. n \in Nat
  OBVIOUS
<1>2. \A i \in 1 .. n : W(i) \in T
  OBVIOUS
<1>3. Written(pids, offset, c) = [i \in 1 .. n |-> W(i)]
  BY DEF Written
<1> HIDE DEF n, W
<1> QED BY <1>1, <1>2, <1>3

(* At the end of the list an id is appended.                                  *)
LEMMA WrittenAtEnd ==
  ASSUME NEW T, NEW pids \in Seq(T), NEW c
  PROVE  /\ Written(pids, Len(pids), c) \in Seq(T \cup {c})
         /\ Len(Written(pids, Len(pids), c)) = Len(pids) + 1
         /\ \A d : d \in Range(pids) => d \in Range(Written(pids, Len(pids), c))
         /\ c \in Range(Written(pids, Len(pids), c))
<1> DEFINE W == Written(pids, Len(pids), c)
           n == Len(pids)
<1>0. n \in Nat /\ DOMAIN pids = 1 .. n /\ \A i \in 1 .. n : pids[i] \in T
  OBVIOUS
<1>1. W = [i \in 1 .. n + 1 |-> IF i = n + 1 THEN c ELSE pids[i]]
  BY <1>0 DEF Written
<1> HIDE DEF W, n
<1>2. DOMAIN W = 1 .. n + 1 /\ W[n + 1] = c /\ \A i \in 1 .. n : W[i] = pids[i]
  BY <1>0, <1>1
<1>3. W \in Seq(T \cup {c}) /\ Len(W) = n + 1
  BY <1>0, <1>1
<1>4. \A d : d \in Range(pids) => d \in Range(W)
  BY <1>0, <1>2 DEF Range
<1>5. c \in Range(W)
  BY <1>0, <1>2 DEF Range
<1> QED BY <1>3, <1>4, <1>5 DEF W, n

(* The last id of a list, and what is left of the list without it.            *)
LEMMA FrontAndLast ==
  ASSUME NEW T, NEW pids \in Seq(T), pids # <<>>
  PROVE  /\ Front(pids) \in Seq(T) /\ Last(pids) \in T
         /\ \A c : c \in Range(pids) => c = Last(pids) \/ c \in Range(Front(pids))
<1>1. Len(pids) \in Nat \ {0} /\ \A i \in 1 .. Len(pids) : pids[i] \in T
  OBVIOUS
<1>2. Front(pids) = [i \in 1 .. Len(pids) - 1 |-> pids[i]]
  BY <1>1 DEF Front
<1>3. Front(pids) \in Seq(T)
  BY <1>1, <1>2
<1>4. DOMAIN Front(pids) = 1 .. Len(pids) - 1 /\ DOMAIN pids = 1 .. Len(pids)
  BY <1>1, <1>2
<1>5. \A c : c \in Range(pids) => c = pids[Len(pids)] \/ c \in Range(Front(pids))
  <2> TAKE c
  <2> HAVE c \in Range(pids)
  <2>1. PICK i \in 1 .. Len(pids) : c = pids[i]
    BY <1>4 DEF Range
  <2>2. CASE i = Len(pids)
    BY <2>1, <2>2
  <2>3. CASE i \in 1 .. Len(pids) - 1
    BY <1>2, <1>4, <2>1, <2>3 DEF Range
  <2> QED BY <1>1, <2>2, <2>3
<1> QED BY <1>1, <1>3, <1>5 DEF Last

(* What a stop keeps of the file: the ids, without the holes.                 *)
LEMMA IdsRead ==
  ASSUME NEW pids \in Seq(Children \cup {Hole})
  PROVE  /\ Only(pids, Children) \in Seq(Children)
         /\ \A c \in Children : c \in Range(pids) => c \in Range(Only(pids, Children))
<1> DEFINE T == Children \cup {Hole}
           o == Only(pids, Children)
<1>1. LeftOf(o, pids, Children, T)
  BY Zenon, OnlyKeeps
<1>2. T \cap Children = Children
  OBVIOUS
<1> HIDE DEF o, T
<1>3. o \in Seq(Children)
  BY <1>1, <1>2 DEF LeftOf
<1>4. ASSUME NEW c \in Children, c \in Range(pids) PROVE c \in Range(o)
  <2>1. PICK i \in 1 .. Len(pids) : c = pids[i]
    BY <1>4 DEF Range
  <2>2. PICK j \in 1 .. Len(o) : o[j] = pids[i]
    BY <1>1, <2>1 DEF LeftOf
  <2>3. DOMAIN o = 1 .. Len(o)
    BY <1>3
  <2> QED BY <2>1, <2>2, <2>3 DEF Range
<1> QED BY <1>3, <1>4 DEF o

(* Init.                                                                      *)
LEMMA StartupStarts == StartupInit => StartupInv
<1> SUFFICES ASSUME StartupInit PROVE StartupInv
  OBVIOUS
<1>0. \A T : <<>> \in Seq(T)
  OBVIOUS
<1> USE DEF StartupInit
<1>1. StartupType
  <2>1. <<>> \in Seq(Children) /\ <<>> \in Seq(Children \cup {Hole})
    BY Zenon, <1>0
  <2>5. 0 \in 0 .. Done
    <3> HIDE DEF StartupInit
    <3>1. Done = 5
      BY RoleFacts
    <3> QED BY <3>1
  <2>2. pidFile \in [id : Nat, pids : Seq(Children \cup {Hole})]
    BY <2>1 DEF NoFile
  <2>3. starting \in [Starts -> [step : 0 .. Done, file : Nat, offset : Nat]]
    BY <2>5
  <2>4. stopping \in [Stops -> [step : {"not begun", "found", "read", "signals", "ended"},
                               pids : Seq(Children), single : BOOLEAN]]
    BY <2>1
  <2> QED BY <2>2, <2>3, <2>4 DEF StartupType
<1>2. Calm
  <2>1. \A c \in Children : Reached(c)
    BY DEF Reached
  <2>2. \A k \in Stops : ~ OnItsOwn(k)
    BY DEF OnItsOwn
  <2>3. \A s \in Starts, i \in 1 .. Len(Roles) : Reached(Child(s, i))
    BY <2>1, ChildFacts
  <2>4. calm = 0
    OBVIOUS
  <2> HIDE DEF StartupInit
  <2> QED BY <2>1, <2>2, <2>3, <2>4 DEF Calm
<1>3. Alone
  BY DEF Alone
<1> QED BY <1>1, <1>2, <1>3 DEF StartupInv

-----------------------------------------------------------------------------
(* What a step that starts, stops and writes nothing may do: processes that   *)
(* need no signal stay so.                                                    *)
LEMMA QuietStep ==
  ASSUME StartupInv, StartupType',
         UNCHANGED <<starting, stopping, pidFile, alone, calm>>,
         \A c \in Children : Reached(c) => Reached(c)'
  PROVE  StartupInv'
<1>1. \A s \in Starts, i \in 1 .. Len(Roles) : Reached(Child(s, i)) => Reached(Child(s, i))'
  BY ChildFacts
<1>2. Calm'
  <2>1. \A s \in Starts : UnderWay(s)' = UnderWay(s)
    BY DEF UnderWay
  <2>2. \A k \in Stops : Idle(k)' = Idle(k) /\ OnItsOwn(k)' = OnItsOwn(k)
    BY DEF Idle, OnItsOwn
  <2> QED BY <1>1, <2>1, <2>2 DEF StartupInv, Calm
<1>3. Alone'
  <2> SUFFICES ASSUME alone # 0 PROVE Alone'
    BY DEF Alone
  <2>0. alone \in Starts
    BY DEF StartupInv, StartupType
  <2>1. \A s \in Starts : UnderWay(s)' = UnderWay(s)
    BY DEF UnderWay
  <2>2. \A k \in Stops : Idle(k)' = Idle(k)
    BY DEF Idle
  <2>3. InFile(alone) => InFile(alone)'
    BY <1>1, <2>0, <2>1 DEF InFile, Names
  <2> QED BY <1>1, <2>0, <2>1, <2>2, <2>3 DEF StartupInv, Alone
<1> QED BY <1>2, <1>3 DEF StartupInv

LEMMA BindsStep ==
  ASSUME StartupInv, NEW s \in Starts, Binds(s) PROVE StartupInv'
<1> USE DEF StartupInv
<1>1. \A c \in Children : Reached(c) => Reached(c)'
  BY DEF Binds, Reached, StartupType
<1>2. StartupType'
  BY DEF Binds, StartupType
<1> QED BY <1>1, <1>2, QuietStep DEF Binds

LEMMA WakesStep ==
  ASSUME StartupInv, NEW s \in Starts, Wakes(s) PROVE StartupInv'
<1> USE DEF StartupInv
<1>1. \A c \in Children : Reached(c) => Reached(c)'
  BY DEF Wakes, Reached, StartupType
<1>2. StartupType'
  BY DEF Wakes, StartupType
<1> QED BY <1>1, <1>2, QuietStep DEF Wakes

LEMMA SavesStateStep ==
  ASSUME StartupInv, NEW s \in Starts, SavesState(s) PROVE StartupInv'
<1> USE DEF StartupInv
<1>1. \A c \in Children : Reached(c) => Reached(c)'
  BY DEF SavesState, Reached, StartupType
<1>2. StartupType'
  BY DEF SavesState, StartupType
<1> QED BY <1>1, <1>2, QuietStep DEF SavesState

LEMMA UnansweredStep ==
  ASSUME StartupInv, Unanswered PROVE StartupInv'
<1> USE DEF StartupInv
<1>1. \A c \in Children : Reached(c) => Reached(c)'
  BY DEF Unanswered, Reached, StartupType
<1>2. StartupType'
  BY DEF Unanswered, StartupType
<1> QED BY <1>1, <1>2, QuietStep DEF Unanswered

LEMMA AppStep ==
  ASSUME StartupInv, UNCHANGED <<running, starting, stopping, pidFile, files, port, alone, calm>>
  PROVE  StartupInv'
<1> USE DEF StartupInv
<1>1. \A c \in Children : Reached(c) => Reached(c)'
  BY DEF Reached
<1>2. StartupType'
  BY DEF StartupType
<1> QED BY <1>1, <1>2, QuietStep

\* What Stopping says of the stop that goes on and of the others.
LEMMA StoppingSets ==
  ASSUME StartupType, NEW k \in Stops, NEW step \in {"not begun", "found", "read", "signals", "ended"},
         stopping' = Stopping(k, step)
  PROVE  /\ stopping' \in [Stops -> [step : {"not begun", "found", "read", "signals", "ended"},
                                     pids : Seq(Children), single : BOOLEAN]]
         /\ stopping'[k].step = step /\ stopping'[k].single = Single(k)
         /\ \A j \in Stops \ {k} :
              ~ stopping'[j].single /\ stopping'[j].step = stopping[j].step
<1> DEFINE S == [step : {"not begun", "found", "read", "signals", "ended"},
                 pids : Seq(Children), single : BOOLEAN]
           own == [stopping[k] EXCEPT !.step = step, !.single = Single(k)]
           other(j) == [stopping[j] EXCEPT !.single = FALSE]
<1>1. \A j \in Stops : stopping[j] \in S
  BY DEF StartupType
<1>2. Single(k) \in BOOLEAN
  BY DEF Single
<1>3. own \in S /\ own.step = step /\ own.single = Single(k)
  <2> DEFINE begun == [stopping[k] EXCEPT !.step = step]
             both == [begun EXCEPT !.single = Single(k)]
  <2>1. stopping[k] \in S
    BY <1>1
  <2>2. begun \in S /\ begun.step = step
    BY <2>1
  <2> HIDE DEF begun
  <2>3. both \in S /\ both.step = step /\ both.single = Single(k)
    BY <1>2, <2>2
  <2> QED BY <2>3 DEF begun
<1>4. ASSUME NEW j \in Stops
      PROVE  other(j) \in S /\ ~ other(j).single /\ other(j).step = stopping[j].step
  <2>1. stopping[j] \in S
    BY <1>1
  <2> QED BY <2>1
<1>5. stopping' = [j \in Stops |-> IF j = k THEN own ELSE other(j)]
  BY DEF Stopping
<1> HIDE DEF own, other, S
<1>6. stopping' \in [Stops -> S]
  BY <1>3, <1>4, <1>5
<1>7. stopping'[k] = own /\ \A j \in Stops \ {k} : stopping'[j] = other(j)
  BY <1>5
<1>8. /\ stopping'[k].step = step /\ stopping'[k].single = Single(k)
      /\ \A j \in Stops \ {k} :
           ~ stopping'[j].single /\ stopping'[j].step = stopping[j].step
  BY <1>3, <1>4, <1>7
<1> QED BY <1>6, <1>8 DEF S

-----------------------------------------------------------------------------
(* A stop.                                                                    *)
LEMMA PkillStep ==
  ASSUME StartupInv, NEW k \in Stops, Access(k), Pkill(k) PROVE StartupInv'
<1> USE DEF StartupInv
<1>0. Done = 5 /\ \A s \in Starts, i \in 1 .. Len(Roles) : Child(s, i) \in Children
  BY RoleFacts, ChildFacts
<1>1. \A c \in Children : Reached(c)'
  BY DEF Pkill, Reached, StartupType, Signalled
<1>2. /\ \A s \in Starts : ~ UnderWay(s)'
      /\ starting' \in [Starts -> [step : 0 .. Done, file : Nat, offset : Nat]]
  <2> DEFINE E(s) == IF UnderWay(s) THEN [starting[s] EXCEPT !.step = Done] ELSE starting[s]
  <2>1. starting' = [s \in Starts |-> E(s)]
    BY DEF Pkill
  <2>2. ASSUME NEW s \in Starts
        PROVE  /\ E(s) \in [step : 0 .. Done, file : Nat, offset : Nat]
               /\ E(s).step \notin 1 .. Done - 1
    <3>1. starting[s] \in [step : 0 .. Done, file : Nat, offset : Nat]
      BY DEF StartupType
    <3>2. Done \in 0 .. Done /\ Done \notin 1 .. Done - 1
      <4>1. Done = 5
        BY <1>0
      <4> QED BY <4>1
    <3> QED BY <3>1, <3>2 DEF UnderWay
  <2> HIDE DEF E
  <2> QED BY <2>1, <2>2 DEF UnderWay
<1>3. /\ stopping' \in [Stops -> [step : {"not begun", "found", "read", "signals", "ended"},
                                  pids : Seq(Children), single : BOOLEAN]]
      /\ Idle(k)' /\ \A j \in Stops \ {k} : ~ stopping'[j].single /\ Idle(j)' = Idle(j)
  <2>1. stopping' = Stopping(k, "ended")
    BY DEF Pkill
  <2> QED BY <2>1, StoppingSets DEF Idle
<1>4. pidFile' = pidFile /\ pidFile.id = 0 /\ files' = files
  BY DEF Pkill, Access
<1>5. /\ calm' \in Nat
      /\ alone' # 0 => Single(k) /\ alone' = alone /\ calm' > 0
      /\ alone' \in Starts \cup {0}
  <2>1. calm \in Nat /\ alone \in Starts \cup {0}
    BY DEF StartupType
  <2>2. alone' = IF Single(k) THEN alone ELSE 0
    BY DEF Access
  <2>3. calm' = IF Single(k) THEN calm + 1 ELSE 0
    BY DEF Pkill
  <2> HIDE DEF StartupInv
  <2> QED BY <2>1, <2>2, <2>3
<1>6. running' \in [Children -> {"none", "begun", "runs", "saves"}]
  BY DEF Pkill, StartupType, Signalled
<1>7. StartupType'
  BY <1>2, <1>3, <1>4, <1>5, <1>6 DEF StartupType
<1>8. Calm'
  <2>1. \A j \in Stops : ~ OnItsOwn(j)'
    BY <1>3 DEF OnItsOwn
  <2> QED BY <1>0, <1>1, <1>2, <1>4, <2>1 DEF Calm
<1>9. Alone'
  <2> SUFFICES ASSUME alone' # 0 PROVE Alone'
    BY DEF Alone
  <2>1. \A j \in Stops : Idle(j)'
    BY <1>3, <1>5 DEF Single
  <2>2. \A j \in Stops : stopping'[j].step \notin {"read", "signals"}
    BY <2>1 DEF Idle
  <2> QED BY <1>0, <1>1, <1>2, <1>5, <2>1, <2>2 DEF Alone
<1> QED BY <1>7, <1>8, <1>9

LEMMA FindsFileStep ==
  ASSUME StartupInv, NEW k \in Stops, Access(k), FindsFile(k) PROVE StartupInv'
<1>0. StartupType /\ Calm /\ Alone
  BY DEF StartupInv
<1>1. /\ UNCHANGED <<running, starting, pidFile, files>> /\ pidFile.id # 0
      /\ stopping[k].step = "not begun"
  BY DEF FindsFile, Access
<1>2. calm = 0 /\ calm' = 0
  <2>1. calm \in Nat /\ (calm > 0 => pidFile.id = 0)
    BY <1>0 DEF StartupType, Calm
  <2>2. calm' = IF Single(k) THEN calm ELSE 0
    BY DEF FindsFile
  <2>3. pidFile.id # 0
    BY <1>1
  <2> QED BY <2>1, <2>2, <2>3
<1>3. /\ stopping' \in [Stops -> [step : {"not begun", "found", "read", "signals", "ended"},
                                  pids : Seq(Children), single : BOOLEAN]]
      /\ stopping'[k].step = "found" /\ stopping'[k].single = Single(k)
      /\ \A j \in Stops \ {k} :
           ~ stopping'[j].single /\ stopping'[j].step = stopping[j].step
  <2>1. stopping' = Stopping(k, "found")
    BY DEF FindsFile
  <2> QED BY <1>0, <2>1, StoppingSets
<1>4. \A j \in Stops \ {k} : Idle(j)' = Idle(j)
  BY <1>3 DEF Idle
<1>5. alone' \in Starts \cup {0} /\ (alone' # 0 => Single(k) /\ alone' = alone)
  <2>1. alone \in Starts \cup {0}
    BY <1>0 DEF StartupType
  <2>2. alone' = IF Single(k) THEN alone ELSE 0
    BY DEF Access
  <2> QED BY <2>1, <2>2
<1>6. StartupType'
  BY <1>0, <1>1, <1>2, <1>3, <1>5 DEF StartupType
<1>7. \A s \in Starts : UnderWay(s)' = UnderWay(s)
  BY <1>1 DEF UnderWay
<1>8. \A c \in Children : Reached(c)' = Reached(c)
  BY <1>1 DEF Reached
<1>9. \A s \in Starts, i \in 1 .. Len(Roles) : Reached(Child(s, i))' = Reached(Child(s, i))
  BY <1>8, ChildFacts
<1>10. Calm'
  <2>1. \A j \in Stops : OnItsOwn(j)' => j = k /\ Single(k)
    BY <1>3 DEF OnItsOwn
  <2>2. Single(k) => (\A s \in Starts : ~ UnderWay(s)) /\ \A j \in Stops \ {k} : Idle(j)
    BY DEF Single
  <2>3. \A s \in Starts : starting'[s].step = 0 =>
          \A i \in 1 .. Len(Roles) : Reached(Child(s, i))'
    BY <1>0, <1>1, <1>9 DEF Calm
  <2>4. \A j \in Stops : OnItsOwn(j)' =>
          /\ calm' = 0 /\ \A s \in Starts : ~ UnderWay(s)'
          /\ \A m \in Stops \ {j} : Idle(m)'
          /\ stopping'[j].step = "found" => pidFile'.id # 0
          /\ stopping'[j].step = "signals" => pidFile'.id = 0
    BY <1>1, <1>2, <1>3, <1>4, <1>7, <2>1, <2>2
  <2>5. ~ calm' > 0 /\ ~ calm' > 1
    BY <1>2
  <2> QED BY <2>3, <2>4, <2>5 DEF Calm
<1>11. Alone'
  <2> SUFFICES ASSUME alone' # 0 PROVE Alone'
    BY DEF Alone
  <2>0. alone \in Starts /\ alone' = alone /\ Single(k) /\ alone # 0
    BY <1>5
  <2>1. \A j \in Stops : stopping[j].step \notin {"read", "signals"}
    BY <1>1, <2>0 DEF Single, Idle
  <2>2. InFile(alone)
    BY <1>0, <1>2, <2>0, <2>1 DEF Alone
  <2>3. InFile(alone)'
    <3>1. Names(alone, pidFile.pids)'
      BY <1>1, <1>9, <2>0, <2>2 DEF InFile, Names
    <3> QED BY <1>1, <1>7, <2>0, <2>2, <3>1 DEF InFile
  <2>4. \A j \in Stops : stopping'[j].step \notin {"read", "signals"}
    BY <1>3, <2>1
  <2>5. \A j \in Stops : Idle(j)' \/ stopping'[j].single
    BY <1>3, <1>4, <2>0 DEF Single
  <2> QED BY <1>2, <1>7, <2>0, <2>3, <2>4, <2>5 DEF Alone, Single
<1> QED BY <1>6, <1>10, <1>11 DEF StartupInv

(* A stop that is on its own ends or goes on: what the others rely on.        *)
LEMMA AloneIsOwn ==
  ASSUME StartupInv, alone # 0, NEW k \in Stops, ~ Idle(k)
  PROVE  /\ OnItsOwn(k) /\ calm = 0 /\ alone \in Starts
         /\ \A s \in Starts : ~ UnderWay(s)
         /\ \A j \in Stops \ {k} : Idle(j)
         /\ stopping[k].step = "found" => pidFile.id # 0
         /\ stopping[k].step = "signals" => pidFile.id = 0
<1>1. alone \in Starts
  BY DEF StartupInv, StartupType
<1>2. OnItsOwn(k)
  BY DEF StartupInv, Alone, OnItsOwn
<1> QED BY <1>1, <1>2 DEF StartupInv, Calm

LEMMA ReadsStep ==
  ASSUME StartupInv, NEW k \in Stops, Reads(k) PROVE StartupInv'
<1>0. StartupType /\ Calm /\ Alone
  BY DEF StartupInv
<1>1. UNCHANGED <<running, starting, pidFile, files, alone, calm>> /\ stopping[k].step = "found"
  BY DEF Reads
<1> DEFINE o == Only(pidFile.pids, Children)
           step == IF pidFile.id = 0 THEN "ended" ELSE "read"
<1>2. o \in Seq(Children) /\ \A c \in Children : c \in Range(pidFile.pids) => c \in Range(o)
  <2>1. pidFile.pids \in Seq(Children \cup {Hole})
    BY <1>0 DEF StartupType
  <2> QED BY <2>1, IdsRead
<1>3. stopping' = [stopping EXCEPT ![k].step = step, ![k].pids = o]
  BY DEF Reads
<1> HIDE DEF o
<1>4. /\ stopping' \in [Stops -> [step : {"not begun", "found", "read", "signals", "ended"},
                                  pids : Seq(Children), single : BOOLEAN]]
      /\ stopping'[k].step = step /\ stopping'[k].pids = o
      /\ stopping'[k].single = stopping[k].single
      /\ \A j \in Stops \ {k} : stopping'[j] = stopping[j]
  <2>1. stopping[k] \in [step : {"not begun", "found", "read", "signals", "ended"},
                         pids : Seq(Children), single : BOOLEAN]
    BY <1>0 DEF StartupType
  <2> DEFINE half == [stopping EXCEPT ![k].step = step]
  <2>2. stopping' = [half EXCEPT ![k].pids = o]
    BY <1>3
  <2>3. step \in {"read", "ended"}
    OBVIOUS
  <2> HIDE DEF step
  <2>4. /\ half \in [Stops -> [step : {"not begun", "found", "read", "signals", "ended"},
                               pids : Seq(Children), single : BOOLEAN]]
        /\ half[k].step = step /\ half[k].single = stopping[k].single
        /\ \A j \in Stops \ {k} : half[j] = stopping[j]
    BY <1>0, <2>1, <2>3 DEF StartupType
  <2> HIDE DEF half
  <2> QED BY <1>2, <2>2, <2>4
<1>5. StartupType'
  BY <1>0, <1>1, <1>4 DEF StartupType
<1>6. /\ \A s \in Starts : UnderWay(s)' = UnderWay(s)
      /\ \A c \in Children : Reached(c)' = Reached(c)
  BY <1>1 DEF UnderWay, Reached
<1>7. \A s \in Starts, i \in 1 .. Len(Roles) : Reached(Child(s, i))' = Reached(Child(s, i))
  BY <1>6, ChildFacts
<1>8. /\ \A j \in Stops \ {k} : Idle(j)' = Idle(j) /\ OnItsOwn(j)' = OnItsOwn(j)
      /\ OnItsOwn(k)' => OnItsOwn(k)
      /\ ~ Idle(k)
  BY <1>1, <1>4 DEF Idle, OnItsOwn
<1>9. Calm'
  <2>1. \A s \in Starts : starting'[s].step = 0 =>
          \A i \in 1 .. Len(Roles) : Reached(Child(s, i))'
    BY <1>0, <1>1, <1>7 DEF Calm
  <2>2. ASSUME NEW j \in Stops, OnItsOwn(j)'
        PROVE  /\ calm' = 0 /\ \A s \in Starts : ~ UnderWay(s)'
               /\ \A m \in Stops \ {j} : Idle(m)'
               /\ stopping'[j].step = "found" => pidFile'.id # 0
               /\ stopping'[j].step = "signals" => pidFile'.id = 0
    <3>1. OnItsOwn(j)
      BY <1>8, <2>2
    <3>2. /\ calm = 0 /\ \A s \in Starts : ~ UnderWay(s)
          /\ \A m \in Stops \ {j} : Idle(m)
          /\ stopping[j].step = "found" => pidFile.id # 0
          /\ stopping[j].step = "signals" => pidFile.id = 0
      BY <1>0, <3>1 DEF Calm
    <3>3. j = k
      BY <1>8, <3>2
    <3> QED BY <1>1, <1>4, <1>6, <1>8, <3>2, <3>3
  <2>3. /\ calm' > 0 => pidFile'.id = 0 /\ \A s \in Starts : ~ UnderWay(s)'
        /\ calm' > 1 => \A c \in Children : Reached(c)'
    BY <1>0, <1>1, <1>6 DEF Calm
  <2> QED BY <2>1, <2>2, <2>3 DEF Calm
<1>10. Alone'
  <2> SUFFICES ASSUME alone # 0 PROVE Alone'
    BY <1>1 DEF Alone
  <2>1. /\ OnItsOwn(k) /\ calm = 0 /\ alone \in Starts
        /\ \A s \in Starts : ~ UnderWay(s)
        /\ \A j \in Stops \ {k} : Idle(j)
        /\ pidFile.id # 0
    BY <1>1, <1>8, AloneIsOwn
  <2>2. \A j \in Stops : stopping[j].step \notin {"read", "signals"}
    BY <1>1, <2>1 DEF Idle
  <2>3. InFile(alone)
    BY <1>0, <2>1, <2>2 DEF Alone
  <2>4. \A i \in 1 .. Len(Roles) :
          Reached(Child(alone, i)) \/ Child(alone, i) \in Range(o)
    <3> SUFFICES ASSUME NEW i \in 1 .. Len(Roles), ~ Reached(Child(alone, i))
                 PROVE  Child(alone, i) \in Range(o)
      OBVIOUS
    <3>1. Child(alone, i) \in Range(pidFile.pids) \/ starting[alone].step = 2 * i
      BY <2>3 DEF InFile, Names
    <3>2. ~ starting[alone].step = 2 * i
      BY <2>1, RoleFacts DEF UnderWay
    <3> QED BY <1>2, <2>1, <3>1, <3>2, ChildFacts
  <2>5. stopping'[k].step = "read" /\ \A j \in Stops \ {k} :
          stopping'[j].step \notin {"read", "signals"}
    BY <1>4, <2>1, <2>2
  <2>6. \A j \in Stops : Idle(j)' \/ stopping'[j].single
    BY <1>4, <1>8, <2>1 DEF OnItsOwn
  <2>7. \A j \in Stops : stopping'[j].step \in {"read", "signals"} =>
          \A i \in 1 .. Len(Roles) :
            Reached(Child(alone, i))' \/ Child(alone, i) \in Range(stopping'[j].pids)
    <3> SUFFICES ASSUME NEW j \in Stops, stopping'[j].step \in {"read", "signals"},
                        NEW i \in 1 .. Len(Roles)
                 PROVE  Reached(Child(alone, i))' \/ Child(alone, i) \in Range(stopping'[j].pids)
      OBVIOUS
    <3>1. j = k
      BY <2>5
    <3>2. stopping'[j].pids = o
      BY <1>4, <3>1
    <3>3. Reached(Child(alone, i))' = Reached(Child(alone, i))
      BY <1>1, <1>7, <2>1
    <3> QED BY <2>4, <3>2, <3>3
  <2>8. ~ calm' > 0 /\ alone' = alone
    BY <1>1, <2>1
  <2>9. \A r \in Starts : ~ UnderWay(r)'
    BY <1>6, <2>1
  <2> QED BY <2>5, <2>6, <2>7, <2>8, <2>9 DEF Alone
<1> QED BY <1>5, <1>9, <1>10 DEF StartupInv

LEMMA UnlinksStep ==
  ASSUME StartupInv, NEW k \in Stops, Unlinks(k) PROVE StartupInv'
<1>0. StartupType /\ Calm /\ Alone
  BY DEF StartupInv
<1>1. /\ UNCHANGED <<running, starting, files, alone, calm>> /\ stopping[k].step = "read"
      /\ pidFile' = [id |-> 0, pids |-> <<>>]
  BY DEF Unlinks, Unlinked, NoFile
<1>2. /\ stopping' \in [Stops -> [step : {"not begun", "found", "read", "signals", "ended"},
                                  pids : Seq(Children), single : BOOLEAN]]
      /\ stopping'[k].step = "signals"
      /\ \A j \in Stops : /\ stopping'[j].pids = stopping[j].pids
                          /\ stopping'[j].single = stopping[j].single
      /\ \A j \in Stops \ {k} : stopping'[j] = stopping[j]
  BY <1>0 DEF Unlinks, StartupType
<1>3. pidFile' \in [id : Nat, pids : Seq(Children \cup {Hole})] /\ pidFile'.id = 0
  <2>1. \A T : <<>> \in Seq(T)
    OBVIOUS
  <2>2. <<>> \in Seq(Children \cup {Hole})
    BY Zenon, <2>1
  <2> QED BY <1>1, <2>2
<1>5. StartupType'
  BY <1>0, <1>1, <1>2, <1>3 DEF StartupType
<1>6. /\ \A s \in Starts : UnderWay(s)' = UnderWay(s)
      /\ \A c \in Children : Reached(c)' = Reached(c)
  BY <1>1 DEF UnderWay, Reached
<1>7. \A s \in Starts, i \in 1 .. Len(Roles) : Reached(Child(s, i))' = Reached(Child(s, i))
  BY <1>6, ChildFacts
<1>8. /\ \A j \in Stops : (Idle(j)' <=> Idle(j)) /\ (OnItsOwn(j)' <=> OnItsOwn(j))
      /\ ~ Idle(k)
  <2>1. ~ Idle(k) /\ ~ Idle(k)'
    BY <1>1, <1>2 DEF Idle
  <2>2. \A j \in Stops \ {k} : (Idle(j)' <=> Idle(j))
    BY <1>2 DEF Idle
  <2>3. \A j \in Stops : (Idle(j)' <=> Idle(j))
    BY <2>1, <2>2
  <2>4. \A j \in Stops : (OnItsOwn(j)' <=> OnItsOwn(j))
    BY <1>2, <2>3 DEF OnItsOwn
  <2> QED BY <2>1, <2>3, <2>4
<1>9. Calm'
  <2>1. \A s \in Starts : starting'[s].step = 0 =>
          \A i \in 1 .. Len(Roles) : Reached(Child(s, i))'
    BY <1>0, <1>1, <1>7 DEF Calm
  <2>2. ASSUME NEW j \in Stops, OnItsOwn(j)'
        PROVE  /\ calm' = 0 /\ \A s \in Starts : ~ UnderWay(s)'
               /\ \A m \in Stops \ {j} : Idle(m)'
               /\ stopping'[j].step = "found" => pidFile'.id # 0
               /\ stopping'[j].step = "signals" => pidFile'.id = 0
    <3>1. OnItsOwn(j)
      BY <1>8, <2>2
    <3>2. /\ calm = 0 /\ \A s \in Starts : ~ UnderWay(s)
          /\ \A m \in Stops \ {j} : Idle(m)
      BY <1>0, <3>1 DEF Calm
    <3>3. j = k
      BY <1>8, <3>2
    <3> QED BY <1>1, <1>2, <1>3, <1>6, <1>8, <3>2, <3>3
  <2>3. /\ calm' > 0 => pidFile'.id = 0 /\ \A s \in Starts : ~ UnderWay(s)'
        /\ calm' > 1 => \A c \in Children : Reached(c)'
    BY <1>0, <1>1, <1>3, <1>6 DEF Calm
  <2> QED BY <2>1, <2>2, <2>3 DEF Calm
<1>10. Alone'
  <2> SUFFICES ASSUME alone # 0 PROVE Alone'
    BY <1>1 DEF Alone
  <2>1. /\ OnItsOwn(k) /\ calm = 0 /\ alone \in Starts
        /\ \A s \in Starts : ~ UnderWay(s)
        /\ \A j \in Stops \ {k} : Idle(j)
    BY <1>8, AloneIsOwn
  <2>2. \A j \in Stops : Idle(j)' \/ stopping'[j].single
    BY <1>2, <1>8, <2>1 DEF OnItsOwn
  <2>3. \A j \in Stops : stopping'[j].step \in {"read", "signals"} =>
          \A i \in 1 .. Len(Roles) :
            Reached(Child(alone, i))' \/ Child(alone, i) \in Range(stopping'[j].pids)
    <3>1. \A i \in 1 .. Len(Roles) :
            Reached(Child(alone, i)) \/ Child(alone, i) \in Range(stopping[k].pids)
      BY <1>0, <1>1 DEF Alone
    <3>2. \A j \in Stops \ {k} : stopping'[j].step \notin {"read", "signals"}
      BY <1>2, <2>1 DEF Idle
    <3> SUFFICES ASSUME NEW j \in Stops, stopping'[j].step \in {"read", "signals"},
                        NEW i \in 1 .. Len(Roles)
                 PROVE  Reached(Child(alone, i))' \/ Child(alone, i) \in Range(stopping'[j].pids)
      OBVIOUS
    <3>3. j = k
      BY <3>2
    <3>4. stopping'[j].pids = stopping[k].pids
      BY <1>2, <3>3
    <3>5. Reached(Child(alone, i))' = Reached(Child(alone, i))
      BY <1>1, <1>7, <2>1
    <3> QED BY <3>1, <3>4, <3>5
  <2>4. ~ calm' > 0 /\ alone' = alone
    BY <1>1, <2>1
  <2>5. \A r \in Starts : ~ UnderWay(r)'
    BY <1>6, <2>1
  <2>6. \E j \in Stops : stopping'[j].step \in {"read", "signals"}
    BY <1>2
  <2> QED BY <2>2, <2>3, <2>4, <2>5, <2>6 DEF Alone
<1> QED BY <1>5, <1>9, <1>10 DEF StartupInv

(* A stop whose list is empty has reached all of it, and says so if it was on *)
(* its own.                                                                   *)
LEMMA SignalsEndStep ==
  ASSUME StartupInv, NEW k \in Stops, Signals(k), stopping[k].pids = <<>> PROVE StartupInv'
<1>0. StartupType /\ Calm /\ Alone
  BY DEF StartupInv
<1>1. /\ UNCHANGED <<running, starting, pidFile, files, alone>> /\ stopping[k].step = "signals"
      /\ calm' = IF stopping[k].single THEN calm + 1 ELSE calm
      /\ stopping' = [stopping EXCEPT ![k].step = "ended"]
  BY DEF Signals
<1>2. /\ stopping' \in [Stops -> [step : {"not begun", "found", "read", "signals", "ended"},
                                  pids : Seq(Children), single : BOOLEAN]]
      /\ stopping'[k].step = "ended"
      /\ \A j \in Stops \ {k} : stopping'[j] = stopping[j]
  BY <1>0, <1>1 DEF StartupType
<1>3. Idle(k)' /\ ~ Idle(k) /\ \A j \in Stops \ {k} : Idle(j)' <=> Idle(j)
  BY <1>1, <1>2 DEF Idle
<1>4. \A j \in Stops : OnItsOwn(j)' => j # k /\ OnItsOwn(j)
  BY <1>2, <1>3 DEF OnItsOwn
<1>5. calm' \in Nat
  <2>1. calm \in Nat
    BY <1>0 DEF StartupType
  <2>2. calm' = IF stopping[k].single THEN calm + 1 ELSE calm
    BY <1>1
  <2> QED BY <2>1, <2>2
<1>6. StartupType'
  BY <1>0, <1>1, <1>2, <1>5 DEF StartupType
<1>7. /\ \A s \in Starts : UnderWay(s)' = UnderWay(s)
      /\ \A c \in Children : Reached(c)' = Reached(c)
  BY <1>1 DEF UnderWay, Reached
<1>8. \A s \in Starts, i \in 1 .. Len(Roles) : Reached(Child(s, i))' = Reached(Child(s, i))
  BY <1>7, ChildFacts
<1>9. stopping[k].single => calm = 0 /\ pidFile.id = 0 /\ \A s \in Starts : ~ UnderWay(s)
  BY <1>0, <1>1, <1>3 DEF Calm, OnItsOwn
<1>10. \A j \in Stops : ~ OnItsOwn(j)'
  BY <1>0, <1>3, <1>4 DEF Calm
<1>11. Calm'
  <2>1. \A s \in Starts : starting'[s].step = 0 =>
          \A i \in 1 .. Len(Roles) : Reached(Child(s, i))'
    BY <1>0, <1>1, <1>8 DEF Calm
  <2>2. calm' > 0 => pidFile'.id = 0 /\ \A s \in Starts : ~ UnderWay(s)'
    BY <1>0, <1>1, <1>7, <1>9 DEF Calm
  <2>3. calm' > 1 => calm > 1
    BY <1>1, <1>9
  <2>4. calm' > 1 => \A c \in Children : Reached(c)'
    BY <1>0, <1>7, <2>3 DEF Calm
  <2> QED BY <1>10, <2>1, <2>2, <2>4 DEF Calm
<1>12. Alone'
  <2> SUFFICES ASSUME alone # 0 PROVE Alone'
    BY <1>1 DEF Alone
  <2>1. /\ OnItsOwn(k) /\ calm = 0 /\ alone \in Starts
        /\ \A s \in Starts : ~ UnderWay(s)
        /\ \A j \in Stops \ {k} : Idle(j)
    BY <1>3, AloneIsOwn
  <2>2. \A i \in 1 .. Len(Roles) : Reached(Child(alone, i))
    <3>1. Range(<<>>) = {}
      BY DEF Range
    <3>2. \A i \in 1 .. Len(Roles) :
            Reached(Child(alone, i)) \/ Child(alone, i) \in Range(stopping[k].pids)
      BY <1>0, <1>1 DEF Alone
    <3> QED BY <3>1, <3>2
  <2>3. calm' = 1 /\ alone' = alone
    BY <1>1, <2>1 DEF OnItsOwn
  <2>4. \A j \in Stops : Idle(j)'
    BY <1>3, <2>1
  <2>5. \A j \in Stops : stopping'[j].step \notin {"read", "signals"}
    BY <2>4 DEF Idle
  <2>6. \A i \in 1 .. Len(Roles) : Reached(Child(alone, i))'
    BY <1>1, <1>8, <2>1, <2>2
  <2>7. \A r \in Starts : ~ UnderWay(r)'
    BY <1>7, <2>1
  <2> QED BY <2>3, <2>4, <2>5, <2>6, <2>7 DEF Alone
<1> QED BY <1>6, <1>11, <1>12 DEF StartupInv

LEMMA SignalsOneStep ==
  ASSUME StartupInv, NEW k \in Stops, Signals(k), stopping[k].pids # <<>> PROVE StartupInv'
<1>0. StartupType /\ Calm /\ Alone
  BY DEF StartupInv
<1> DEFINE last == Last(stopping[k].pids)
           front == Front(stopping[k].pids)
<1>1. /\ UNCHANGED <<starting, pidFile, files, alone, calm>> /\ stopping[k].step = "signals"
      /\ stopping' = [stopping EXCEPT ![k].pids = front]
      /\ running' = [running EXCEPT ![last] = Signalled(last)]
  BY DEF Signals
<1>2. /\ front \in Seq(Children) /\ last \in Children
      /\ \A c : c \in Range(stopping[k].pids) => c = last \/ c \in Range(front)
  <2>1. stopping[k].pids \in Seq(Children)
    BY <1>0 DEF StartupType
  <2> QED BY <2>1, FrontAndLast
<1> HIDE DEF last, front
<1>3. /\ stopping' \in [Stops -> [step : {"not begun", "found", "read", "signals", "ended"},
                                  pids : Seq(Children), single : BOOLEAN]]
      /\ stopping'[k].pids = front
      /\ \A j \in Stops : /\ stopping'[j].step = stopping[j].step
                          /\ stopping'[j].single = stopping[j].single
      /\ \A j \in Stops \ {k} : stopping'[j] = stopping[j]
  BY <1>0, <1>1, <1>2 DEF StartupType
<1>4. /\ running' \in [Children -> {"none", "begun", "runs", "saves"}]
      /\ \A c \in Children : c = last \/ Reached(c) => Reached(c)'
  BY <1>0, <1>1, <1>2 DEF StartupType, Signalled, Reached
<1>5. StartupType'
  BY <1>0, <1>1, <1>3, <1>4 DEF StartupType
<1>6. /\ \A s \in Starts : UnderWay(s)' = UnderWay(s)
      /\ \A j \in Stops : Idle(j)' <=> Idle(j)
  BY <1>1, <1>3 DEF UnderWay, Idle
<1>7. \A s \in Starts, i \in 1 .. Len(Roles) : Reached(Child(s, i)) => Reached(Child(s, i))'
  BY <1>4, ChildFacts
<1>8. \A j \in Stops : OnItsOwn(j)' <=> OnItsOwn(j)
  BY <1>3, <1>6 DEF OnItsOwn
<1>9. Calm'
  <2>1. \A s \in Starts : starting'[s].step = 0 =>
          \A i \in 1 .. Len(Roles) : Reached(Child(s, i))'
    BY <1>0, <1>1, <1>7 DEF Calm
  <2>2. ASSUME NEW j \in Stops, OnItsOwn(j)'
        PROVE  /\ calm' = 0 /\ \A s \in Starts : ~ UnderWay(s)'
               /\ \A m \in Stops \ {j} : Idle(m)'
               /\ stopping'[j].step = "found" => pidFile'.id # 0
               /\ stopping'[j].step = "signals" => pidFile'.id = 0
    <3>1. OnItsOwn(j)
      BY <1>8, <2>2
    <3>2. /\ calm = 0 /\ \A s \in Starts : ~ UnderWay(s)
          /\ \A m \in Stops \ {j} : Idle(m)
          /\ stopping[j].step = "found" => pidFile.id # 0
          /\ stopping[j].step = "signals" => pidFile.id = 0
      BY <1>0, <3>1 DEF Calm
    <3> QED BY <1>1, <1>3, <1>6, <3>2
  <2>3. /\ calm' > 0 => pidFile'.id = 0 /\ \A s \in Starts : ~ UnderWay(s)'
        /\ calm' > 1 => \A c \in Children : Reached(c)'
    BY <1>0, <1>1, <1>4, <1>6 DEF Calm
  <2> QED BY <2>1, <2>2, <2>3 DEF Calm
<1>10. Alone'
  <2> SUFFICES ASSUME alone # 0 PROVE Alone'
    BY <1>1 DEF Alone
  <2>1. /\ OnItsOwn(k) /\ calm = 0 /\ alone \in Starts
        /\ \A s \in Starts : ~ UnderWay(s)
        /\ \A j \in Stops \ {k} : Idle(j)
    <3>1. ~ Idle(k)
      BY <1>1 DEF Idle
    <3> QED BY <3>1, AloneIsOwn
  <2>2. \A j \in Stops : Idle(j)' \/ stopping'[j].single
    BY <1>3, <1>6, <2>1 DEF OnItsOwn
  <2>3. \A j \in Stops : stopping'[j].step \in {"read", "signals"} =>
          \A i \in 1 .. Len(Roles) :
            Reached(Child(alone, i))' \/ Child(alone, i) \in Range(stopping'[j].pids)
    <3> SUFFICES ASSUME NEW j \in Stops, stopping'[j].step \in {"read", "signals"},
                        NEW i \in 1 .. Len(Roles), ~ Reached(Child(alone, i))'
                 PROVE  Child(alone, i) \in Range(stopping'[j].pids)
      OBVIOUS
    <3>1. j = k
      BY <1>3, <2>1 DEF Idle
    <3>0. alone' = alone /\ Child(alone, i) \in Children
      BY <1>1, <2>1, ChildFacts
    <3>2. ~ Reached(Child(alone, i)) /\ Child(alone, i) # last
      <4>1. \A c \in Children : c = last \/ Reached(c) => Reached(c)'
        BY <1>4
      <4> QED BY <3>0, <4>1
    <3>3. Child(alone, i) \in Range(stopping[k].pids)
      BY <1>0, <1>1, <3>2 DEF Alone
    <3> QED BY <1>2, <1>3, <3>1, <3>2, <3>3
  <2>4. ~ calm' > 0 /\ alone' = alone
    BY <1>1, <2>1
  <2>5. \A r \in Starts : ~ UnderWay(r)'
    BY <1>6, <2>1
  <2>6. stopping'[k].step = "signals"
    BY <1>1, <1>3
  <2> QED BY <2>2, <2>3, <2>4, <2>5, <2>6 DEF Alone
<1> QED BY <1>5, <1>9, <1>10 DEF StartupInv

-----------------------------------------------------------------------------
(* A start.                                                                   *)
LEMMA BeginStep ==
  ASSUME StartupInv, NEW s \in Starts, Begin(s), UNCHANGED running PROVE StartupInv'
<1>0. StartupType /\ Calm /\ Alone
  BY DEF StartupInv
<1> DEFINE id == IF pidFile.id = 0 THEN files + 1 ELSE pidFile.id
<1>1. /\ starting[s].step = 0 /\ running' = running /\ calm' = 0
      /\ files' = IF pidFile.id = 0 THEN files + 1 ELSE files
      /\ pidFile' = [id |-> id, pids |-> <<>>]
      /\ starting' = [starting EXCEPT ![s] = [step |-> 1, file |-> pidFile'.id, offset |-> 0]]
      /\ stopping' = [k \in Stops |-> [stopping[k] EXCEPT !.single = FALSE]]
  BY DEF Begin
<1>2. id \in Nat \ {0} /\ files' \in Nat
  <2>1. pidFile.id \in Nat /\ files \in Nat
    BY <1>0 DEF StartupType
  <2>2. files' = IF pidFile.id = 0 THEN files + 1 ELSE files
    BY <1>1
  <2> QED BY <2>1, <2>2
<1> HIDE DEF id
<1>3. pidFile'.id = id /\ pidFile'.pids = <<>>
  BY <1>1
<1>4. pidFile' \in [id : Nat, pids : Seq(Children \cup {Hole})]
  <2>1. \A T : <<>> \in Seq(T)
    OBVIOUS
  <2>2. <<>> \in Seq(Children \cup {Hole})
    BY Zenon, <2>1
  <2> QED BY <1>1, <1>2, <2>2
<1>5. 0 \in 0 .. Done /\ 1 \in 0 .. Done /\ s # 0 /\ Len(Roles) = 2
  <2>1. Done = 5
    BY RoleFacts
  <2>2. s # 0 /\ Len(Roles) = 2
    BY RoleFacts
  <2> QED BY <2>1, <2>2
<1>6. /\ starting' \in [Starts -> [step : 0 .. Done, file : Nat, offset : Nat]]
      /\ starting'[s] = [step |-> 1, file |-> id, offset |-> 0]
      /\ \A r \in Starts \ {s} : starting'[r] = starting[r]
  <2>1. starting' = [starting EXCEPT ![s] = [step |-> 1, file |-> id, offset |-> 0]]
    BY <1>1, <1>3
  <2>2. [step |-> 1, file |-> id, offset |-> 0] \in [step : 0 .. Done, file : Nat, offset : Nat]
    BY <1>2, <1>5
  <2>3. starting \in [Starts -> [step : 0 .. Done, file : Nat, offset : Nat]]
    BY <1>0 DEF StartupType
  <2> QED BY <2>1, <2>2, <2>3
<1>7. /\ stopping' \in [Stops -> [step : {"not begun", "found", "read", "signals", "ended"},
                                  pids : Seq(Children), single : BOOLEAN]]
      /\ \A k \in Stops : stopping'[k].step = stopping[k].step /\ ~ stopping'[k].single
  <2> DEFINE S == [step : {"not begun", "found", "read", "signals", "ended"},
                   pids : Seq(Children), single : BOOLEAN]
  <2>1. ASSUME NEW k \in Stops
        PROVE  /\ [stopping[k] EXCEPT !.single = FALSE] \in S
               /\ [stopping[k] EXCEPT !.single = FALSE].step = stopping[k].step
               /\ ~ [stopping[k] EXCEPT !.single = FALSE].single
    <3>1. stopping[k] \in S
      BY <1>0 DEF StartupType
    <3> QED BY <3>1
  <2>2. stopping' = [k \in Stops |-> [stopping[k] EXCEPT !.single = FALSE]]
    BY <1>1
  <2> HIDE DEF S
  <2>3. stopping' \in [Stops -> S]
    BY <2>1, <2>2
  <2> QED BY <2>1, <2>2, <2>3 DEF S
<1>8. /\ alone' \in {0, s}
      /\ alone' # 0 => (\A r \in Starts : ~ UnderWay(r)) /\ \A k \in Stops : Idle(k)
  <2>1. alone' = IF \A r \in Starts : ~UnderWay(r)
                 THEN (IF \A k \in Stops : Idle(k) THEN s ELSE 0) ELSE 0
    BY DEF Begin
  <2> QED BY <2>1
<1>9. StartupType'
  BY <1>0, <1>1, <1>2, <1>4, <1>6, <1>7, <1>8 DEF StartupType
<1>10. /\ \A c \in Children : Reached(c)' = Reached(c)
       /\ \A r \in Starts \ {s} : UnderWay(r)' <=> UnderWay(r)
       /\ \A k \in Stops : ~ OnItsOwn(k)' /\ (Idle(k)' <=> Idle(k))
  BY <1>1, <1>6, <1>7 DEF Reached, UnderWay, OnItsOwn, Idle
<1>11. \A r \in Starts, i \in 1 .. Len(Roles) : Reached(Child(r, i))' = Reached(Child(r, i))
  BY <1>10, ChildFacts
<1>12. \A i \in 1 .. Len(Roles) : Reached(Child(s, i))
  BY <1>0, <1>1 DEF Calm
<1>13. Calm'
  <2>1. \A r \in Starts : starting'[r].step = 0 =>
          \A i \in 1 .. Len(Roles) : Reached(Child(r, i))'
    BY <1>0, <1>6, <1>11 DEF Calm
  <2> QED BY <1>1, <1>10, <2>1 DEF Calm
<1>14. Alone'
  <2> SUFFICES ASSUME alone' # 0 PROVE Alone'
    BY DEF Alone
  <2>1. alone' = s /\ (\A r \in Starts : ~ UnderWay(r)) /\ \A k \in Stops : Idle(k)
    BY <1>8
  <2>2. \A k \in Stops : stopping'[k].step \notin {"read", "signals"}
    BY <1>7, <2>1 DEF Idle
  <2>3. InFile(s)'
    <3>1. \A i \in 1 .. Len(Roles) : Reached(Child(s, i))'
      BY <1>11, <1>12
    <3>2. Names(s, pidFile.pids)'
      BY <3>1 DEF Names
    <3>3. Len(<<>>) = 0
      OBVIOUS
    <3> QED BY <1>2, <1>3, <1>6, <3>2, <3>3 DEF InFile
  <2>4. \A r \in Starts \ {s} : ~ UnderWay(r)'
    BY <1>10, <2>1
  <2>5. \A k \in Stops : Idle(k)'
    BY <1>10, <2>1
  <2>6. InFile(alone)'
    BY <2>1, <2>3 DEF InFile, Names
  <2>7. ~ calm' > 0
    BY <1>1
  <2> QED BY <2>1, <2>2, <2>4, <2>5, <2>6, <2>7 DEF Alone
<1> QED BY <1>9, <1>13, <1>14 DEF StartupInv

(* While a start is under way no stop is on its own and none has just been.   *)
LEMMA Started ==
  ASSUME StartupInv, NEW s \in Starts, UnderWay(s)
  PROVE  /\ calm = 0 /\ \A k \in Stops : ~ OnItsOwn(k)
         /\ alone # 0 => /\ s = alone /\ InFile(s) /\ \A k \in Stops : Idle(k)
<1>0. StartupType /\ Calm /\ Alone
  BY DEF StartupInv
<1>1. calm = 0
  <2>1. calm \in Nat /\ ~ calm > 0
    BY <1>0 DEF StartupType, Calm
  <2> QED BY <2>1
<1>2. \A k \in Stops : ~ OnItsOwn(k)
  BY <1>0 DEF Calm
<1>3. ASSUME alone # 0 PROVE s = alone /\ InFile(s) /\ \A k \in Stops : Idle(k)
  <2>1. s = alone
    BY <1>0, <1>3 DEF Alone
  <2>2. \A k \in Stops : Idle(k)
    BY <1>0, <1>2, <1>3 DEF Alone, OnItsOwn
  <2>3. \A k \in Stops : stopping[k].step \notin {"read", "signals"}
    BY <2>2 DEF Idle
  <2>4. InFile(alone)
    BY <1>0, <1>1, <1>3, <2>3 DEF Alone
  <2> QED BY <2>1, <2>2, <2>4
<1> QED BY <1>1, <1>2, <1>3

(* ... so a step of the start keeps the invariant if what it has started is   *)
(* in the file.                                                               *)
LEMMA StartedStep ==
  ASSUME StartupInv, NEW s \in Starts, UnderWay(s), StartupType',
         UNCHANGED <<stopping, alone, calm>>,
         starting'[s].step # 0, \A r \in Starts \ {s} : starting'[r] = starting[r],
         \A r \in Starts \ {s}, i \in 1 .. Len(Roles) : Reached(Child(r, i)) => Reached(Child(r, i))',
         alone # 0 => InFile(s)'
  PROVE  StartupInv'
<1>0. StartupType /\ Calm /\ Alone
  BY DEF StartupInv
<1>1. /\ calm = 0 /\ \A k \in Stops : ~ OnItsOwn(k)
      /\ alone # 0 => s = alone /\ \A k \in Stops : Idle(k)
  BY Started
<1>2. /\ \A k \in Stops : ~ OnItsOwn(k)' /\ (Idle(k)' <=> Idle(k))
      /\ \A r \in Starts \ {s} : UnderWay(r)' <=> UnderWay(r)
  BY <1>1 DEF OnItsOwn, Idle, UnderWay
<1>3. ~ calm' > 0 /\ ~ calm' > 1
  BY <1>1
<1>4. Calm'
  <2>1. \A r \in Starts : starting'[r].step = 0 =>
          \A i \in 1 .. Len(Roles) : Reached(Child(r, i))'
    BY <1>0 DEF Calm
  <2> QED BY <1>2, <1>3, <2>1 DEF Calm
<1>5. Alone'
  <2> SUFFICES ASSUME alone # 0 PROVE Alone'
    BY DEF Alone
  <2>1. s = alone /\ alone' = alone /\ \A k \in Stops : Idle(k)
    BY <1>1
  <2>2. \A k \in Stops : Idle(k)' /\ stopping'[k].step \notin {"read", "signals"}
    BY <1>2, <2>1 DEF Idle
  <2>3. \A r \in Starts \ {alone} : ~ UnderWay(r)'
    BY <1>0, <1>2, <2>1 DEF Alone
  <2>4. InFile(alone)'
    BY <2>1 DEF InFile, Names
  <2> QED BY <1>3, <2>1, <2>2, <2>3, <2>4 DEF Alone
<1> QED BY <1>4, <1>5 DEF StartupInv

LEMMA ForksStep ==
  ASSUME StartupInv, NEW s \in Starts, Forks(s) PROVE StartupInv'
<1>0. StartupType /\ Calm /\ Alone
  BY DEF StartupInv
<1> DEFINE n == starting[s].step
           i == (n + 1) \div 2
           child == Child(s, i)
<1>1. /\ UnderWay(s) /\ n % 2 = 1 /\ UNCHANGED <<stopping, pidFile, files, alone, calm>>
      /\ starting' = [starting EXCEPT ![s].step = n + 1]
      /\ running' = [running EXCEPT ![child] = "begun"]
  BY DEF Forks, Child
<1>2. /\ i \in 1 .. Len(Roles) /\ n + 1 = 2 * i /\ n \in Nat /\ n # 0
      /\ n + 1 \in 0 .. Done /\ n + 1 # 0 /\ n + 1 \in 1 .. Done - 1
      /\ \A j \in 1 .. Len(Roles) : n # 2 * j
  <2>1. n \in 1 .. 4 /\ n % 2 = 1
    BY <1>1, RoleFacts DEF UnderWay
  <2>2. n = 1 \/ n = 3
    BY <2>1
  <2>3. Done = 5 /\ Len(Roles) = 2
    BY RoleFacts
  <2> HIDE DEF n
  <2> QED BY <2>2, <2>3
<1>3. child \in Children
  BY <1>2, ChildFacts
<1> HIDE DEF n, i, child
<1>4. /\ starting' \in [Starts -> [step : 0 .. Done, file : Nat, offset : Nat]]
      /\ starting'[s].step = n + 1 /\ starting'[s].file = starting[s].file
      /\ starting'[s].offset = starting[s].offset
      /\ \A r \in Starts \ {s} : starting'[r] = starting[r]
  BY <1>0, <1>1, <1>2 DEF StartupType
<1>5. /\ running' \in [Children -> {"none", "begun", "runs", "saves"}]
      /\ \A c \in Children : c # child => running'[c] = running[c]
  BY <1>0, <1>1, <1>3 DEF StartupType
<1>6. StartupType'
  BY <1>0, <1>1, <1>4, <1>5 DEF StartupType
<1>7. \A r \in Starts, j \in 1 .. Len(Roles) :
        r # s \/ j # i => (Reached(Child(r, j)) => Reached(Child(r, j))')
  <2>1. \A r \in Starts, j \in 1 .. Len(Roles) :
          r # s \/ j # i => Child(r, j) # child /\ Child(r, j) \in Children
    BY <1>2, ChildFacts DEF child
  <2> QED BY <1>5, <2>1 DEF Reached
<1>8. ASSUME alone # 0 PROVE InFile(s)'
  <2>1. InFile(s)
    BY <1>1, <1>8, Started
  <2>2. Names(s, pidFile.pids)'
    <3> SUFFICES ASSUME NEW j \in 1 .. Len(Roles)
                 PROVE  \/ Reached(Child(s, j))' \/ Child(s, j) \in Range(pidFile'.pids)
                        \/ starting'[s].step = 2 * j
      BY DEF Names
    <3>1. CASE j = i
      BY <1>2, <1>4, <3>1
    <3>2. CASE j # i
      <4>1. Reached(Child(s, j)) \/ Child(s, j) \in Range(pidFile.pids)
        BY <1>2, <2>1 DEF InFile, Names, n
      <4>2. Reached(Child(s, j)) => Reached(Child(s, j))'
        BY <1>7, <3>2
      <4> QED BY <1>1, <4>1, <4>2
    <3> QED BY <3>1, <3>2
  <2> QED BY <1>1, <1>2, <1>4, <2>1, <2>2 DEF InFile
<1>9. starting'[s].step # 0
  BY <1>2, <1>4
<1> QED BY <1>1, <1>4, <1>6, <1>7, <1>8, <1>9, StartedStep

LEMMA PrintsPidStep ==
  ASSUME StartupInv, NEW s \in Starts, PrintsPid(s) PROVE StartupInv'
<1>0. StartupType /\ Calm /\ Alone
  BY DEF StartupInv
<1> DEFINE n == starting[s].step
           i == n \div 2
           child == Child(s, i)
           pids == Written(pidFile.pids, starting[s].offset, child)
<1>1. /\ UnderWay(s) /\ n % 2 = 0 /\ UNCHANGED <<running, stopping, files, alone, calm>>
      /\ starting' = [starting EXCEPT ![s].step = n + 1, ![s].offset = starting[s].offset + 1]
      /\ pidFile' = IF pidFile.id # starting[s].file THEN pidFile
                    ELSE [pidFile EXCEPT !.pids = pids]
  BY DEF PrintsPid, Child
<1>2. /\ i \in 1 .. Len(Roles) /\ n = 2 * i /\ n \in Nat /\ n # 0
      /\ n + 1 \in 0 .. Done /\ n + 1 # 0
      /\ \A j \in 1 .. Len(Roles) : n = 2 * j => j = i
  <2>1. n \in 1 .. 4 /\ n % 2 = 0
    BY <1>1, RoleFacts DEF UnderWay
  <2>2. n = 2 \/ n = 4
    BY <2>1
  <2>3. Done = 5 /\ Len(Roles) = 2
    BY RoleFacts
  <2> HIDE DEF n
  <2>4. (n = 2 /\ i = 1) \/ (n = 4 /\ i = 2)
    BY <2>2
  <2> HIDE DEF i
  <2> QED BY <2>3, <2>4
<1>3. child \in Children
  BY <1>2, ChildFacts
<1>4. pidFile.pids \in Seq(Children \cup {Hole}) /\ starting[s].offset \in Nat
  BY <1>0 DEF StartupType
<1>5. pids \in Seq(Children \cup {Hole})
  <2> DEFINE T == Children \cup {Hole}
  <2>1. Hole \in T /\ child \in T /\ pidFile.pids \in Seq(T)
    BY <1>3, <1>4
  <2> HIDE DEF T, child
  <2>2. pids \in Seq(T)
    BY <1>4, <2>1, WrittenType
  <2> QED BY <2>2 DEF T
<1>6. starting[s].offset = Len(pidFile.pids) =>
        /\ Len(pids) = starting[s].offset + 1 /\ child \in Range(pids)
        /\ \A d : d \in Range(pidFile.pids) => d \in Range(pids)
  <2> DEFINE T == Children \cup {Hole}
             old == pidFile.pids
  <2>1. old \in Seq(T)
    BY <1>4
  <2>2. starting[s].offset = Len(old) => pids = Written(old, Len(old), child)
    OBVIOUS
  <2> HIDE DEF child, pids, T, old
  <2>3. /\ Len(Written(old, Len(old), child)) = Len(old) + 1
        /\ \A d : d \in Range(old) => d \in Range(Written(old, Len(old), child))
        /\ child \in Range(Written(old, Len(old), child))
    BY <2>1, WrittenAtEnd
  <2> QED BY <2>2, <2>3 DEF old
<1> HIDE DEF n, i, child, pids
<1>7. /\ starting' \in [Starts -> [step : 0 .. Done, file : Nat, offset : Nat]]
      /\ starting'[s].step = n + 1 /\ starting'[s].file = starting[s].file
      /\ starting'[s].offset = starting[s].offset + 1
      /\ \A r \in Starts \ {s} : starting'[r] = starting[r]
  <2> DEFINE half == [starting EXCEPT ![s].step = n + 1]
             next == starting[s].offset + 1
  <2>1. starting' = [half EXCEPT ![s].offset = next] /\ next \in Nat
    BY <1>1, <1>4
  <2>2. /\ half \in [Starts -> [step : 0 .. Done, file : Nat, offset : Nat]]
        /\ half[s].step = n + 1 /\ half[s].file = starting[s].file
        /\ \A r \in Starts \ {s} : half[r] = starting[r]
    BY <1>0, <1>2 DEF StartupType
  <2> HIDE DEF half, next
  <2>3. /\ starting' \in [Starts -> [step : 0 .. Done, file : Nat, offset : Nat]]
        /\ starting'[s].step = n + 1 /\ starting'[s].file = starting[s].file
        /\ starting'[s].offset = next
        /\ \A r \in Starts \ {s} : starting'[r] = starting[r]
    BY <2>1, <2>2
  <2> QED BY <2>3 DEF next
<1>8. /\ pidFile' \in [id : Nat, pids : Seq(Children \cup {Hole})]
      /\ pidFile'.id = pidFile.id
      /\ pidFile.id = starting[s].file => pidFile'.pids = pids
  BY <1>0, <1>1, <1>5 DEF StartupType
<1>9. StartupType'
  BY <1>0, <1>1, <1>7, <1>8 DEF StartupType
<1>10. \A r \in Starts, j \in 1 .. Len(Roles) : Reached(Child(r, j))' = Reached(Child(r, j))
  BY <1>1, ChildFacts DEF Reached
<1>11. ASSUME alone # 0 PROVE InFile(s)'
  <2>1. InFile(s)
    BY <1>1, <1>11, Started
  <2>2. pidFile'.pids = pids /\ starting[s].offset = Len(pidFile.pids)
    BY <1>1, <1>8, <2>1 DEF InFile
  <2>3. Names(s, pidFile.pids)'
    <3> SUFFICES ASSUME NEW j \in 1 .. Len(Roles)
                 PROVE  Reached(Child(s, j))' \/ Child(s, j) \in Range(pidFile'.pids)
      BY DEF Names
    <3>1. CASE j = i
      BY <1>6, <2>2, <3>1 DEF child
    <3>2. CASE j # i
      <4>1. Reached(Child(s, j)) \/ Child(s, j) \in Range(pidFile.pids)
        BY <1>2, <2>1, <3>2 DEF InFile, Names, n
      <4> QED BY <1>6, <1>10, <2>2, <4>1
    <3> QED BY <3>1, <3>2
  <2>4. starting'[s].offset = Len(pidFile'.pids)
    BY <1>6, <1>7, <2>2
  <2> QED BY <1>2, <1>7, <1>8, <2>1, <2>3, <2>4 DEF InFile
<1>12. starting'[s].step # 0
  BY <1>2, <1>7
<1> QED BY <1>1, <1>7, <1>9, <1>10, <1>11, <1>12, StartedStep

-----------------------------------------------------------------------------
LEMMA StartupSteps ==
  ASSUME StartupInv, [StartupNext]_processes PROVE StartupInv'
<1>1. ASSUME NEW s \in Starts, OpensPidFile(s) PROVE StartupInv'
  BY <1>1, BeginStep DEF OpensPidFile
<1>2. ASSUME NEW s \in Starts, NEW a \in Apps, ExecAllnet(a, s) PROVE StartupInv'
  BY <1>2, BeginStep DEF ExecAllnet
<1>3. ASSUME NEW k \in Stops, Access(k) PROVE StartupInv'
  BY <1>3, PkillStep, FindsFileStep DEF Access
<1>4. ASSUME NEW a \in Apps, Connects(a) \/ GivesUp(a) PROVE StartupInv'
  BY <1>4, AppStep DEF Connects, GivesUp
<1>5. ASSUME NEW s \in Starts,
             Forks(s) \/ PrintsPid(s) \/ Binds(s) \/ Wakes(s) \/ SavesState(s)
      PROVE  StartupInv'
  BY <1>5, ForksStep, PrintsPidStep, BindsStep, WakesStep, SavesStateStep
<1>6. ASSUME NEW k \in Stops, Reads(k) \/ Unlinks(k) \/ Signals(k) PROVE StartupInv'
  BY <1>6, ReadsStep, UnlinksStep, SignalsEndStep, SignalsOneStep
<1>7. CASE UNCHANGED processes
  BY <1>7, AppStep DEF processes
<1> QED
  BY <1>1, <1>2, <1>3, <1>4, <1>5, <1>6, <1>7, UnansweredStep DEF StartupNext, Progress

(* (stop_all, my_call1, astart.c) One stop reaches all that a start without   *)
(* company has started, and two stops in a row reach everything.              *)
THEOREM AllStopped == StartupSpec => []StopsReachAll
<1>1. StartupInv => StopsReachAll
  <2> SUFFICES ASSUME StartupInv, NEW c \in Children,
                      calm > 1 \/ (calm = 1 /\ c[1] = alone)
               PROVE  Reached(c)
    BY DEF StopsReachAll, Reached
  <2>1. CASE calm > 1
    BY <2>1 DEF StartupInv, Calm
  <2>2. CASE calm = 1 /\ c[1] = alone
    <3>1. PICK i \in 1 .. Len(Roles) : c = Child(alone, i)
      BY <2>2, ChildFacts
    <3>2. alone # 0
      <4>1. c[1] \in Starts /\ 0 \notin Starts
        BY ChildFacts, RoleFacts
      <4> QED BY <2>2, <4>1
    <3>3. calm > 0
      BY <2>2
    <3> QED BY <3>1, <3>2, <3>3 DEF StartupInv, Alone
  <2> QED BY <2>1, <2>2
<1> QED BY <1>1, StartupStarts, StartupSteps, PTL DEF StartupSpec

-----------------------------------------------------------------------------
(* Traces (Flood).                                                            *)
(* A path that a request took: entries of systems, each a neighbour of the    *)
(* one before it and one hop further.                                         *)
Entries == [sys : Systems \cup {Client}, hops : Nat]
Taken(path) ==
  /\ path \in Seq(Entries) /\ path # <<>>
  /\ \A i \in 1 .. Len(path) - 1 : OneHopApart(path[i], path[i + 1])

(* Copies of a request end their path with the system they come from, at the  *)
(* hops they have, and are under way along a link.                            *)
RequestTaken(p) ==
  /\ Taken(p.path) /\ p.path[1] = FirstEntry /\ p.hops \in Nat
  /\ IF Local(p) THEN p.to = Origin /\ p.hops = 0 /\ p.path = <<FirstEntry>>
     ELSE /\ <<p.from, p.to>> \in Links /\ p.hops < 255
          /\ p.path[Len(p.path)] = Entry(p.from, p.hops)

ReplyTaken(r) == Taken(r.path) /\ (r.kind = "final" => r.path[1] = FirstEntry)

PathsInv ==
  /\ job = "none" => net = {} /\ shown = {}
  /\ job = "trace" =>
       /\ \A p \in net : /\ p.kind = "request" => RequestTaken(p)
                         /\ p.kind \in {"final", "intermediate"} => ReplyTaken(p)
       /\ \A r \in shown : ReplyTaken(r)

LEMMA TakenAppend ==
  ASSUME NEW path, Taken(path), NEW e \in Entries, OneHopApart(path[Len(path)], e)
  PROVE  /\ Taken(Append(path, e)) /\ Append(path, e)[1] = path[1]
         /\ Append(path, e)[Len(Append(path, e))] = e
<1> DEFINE q == Append(path, e)
<1>1. /\ path \in Seq(Entries) /\ Len(path) \in Nat /\ Len(path) >= 1
      /\ q \in Seq(Entries) /\ Len(q) = Len(path) + 1 /\ q # <<>>
      /\ q[Len(path) + 1] = e /\ \A i \in 1 .. Len(path) : q[i] = path[i]
  BY DEF Taken
<1> HIDE DEF q
<1>2. ASSUME NEW i \in 1 .. Len(q) - 1
      PROVE  OneHopApart(q[i], q[i + 1])
  <2>1. CASE i = Len(path)
    BY <1>1, <2>1
  <2>2. CASE i # Len(path)
    <3>1. i \in 1 .. Len(path) - 1 /\ i \in 1 .. Len(path) /\ i + 1 \in 1 .. Len(path)
      BY <1>1, <2>2
    <3> QED BY <1>1, <3>1 DEF Taken
  <2> QED BY <2>1, <2>2
<1> QED BY <1>1, <1>2 DEF Taken, q

LEMMA TakenShort ==
  ASSUME NEW d \in Entries, NEW e \in Entries
  PROVE  Taken(<<e>>) /\ (OneHopApart(d, e) => Taken(<<d, e>>))
BY DEF Taken

\* What a request becomes at the system s that it arrives at.
LEMMA RequestGoesOn ==
  ASSUME NEW p, RequestTaken(p)
  PROVE  /\ p.to \in Systems /\ HopCount(p) \in Nat
         /\ Taken(Append(p.path, Entry(p.to, HopCount(p))))
         /\ Append(p.path, Entry(p.to, HopCount(p)))[1] = FirstEntry
         /\ LET q == Append(p.path, Entry(p.to, HopCount(p)))
            IN q[Len(q)] = Entry(p.to, HopCount(p))
         /\ Taken(ReplyPath(p.to, p))
         /\ Matches(p.to) => ReplyPath(p.to, p)[1] = FirstEntry
<1> DEFINE e == Entry(p.to, HopCount(p))
           last == p.path[Len(p.path)]
<1>1. p.to \in Systems /\ HopCount(p) \in Nat /\ e \in Entries
  <2>1. p.to \in Systems
    BY FloodAssumption DEF RequestTaken
  <2>2. HopCount(p) \in Nat
    BY DEF RequestTaken, HopCount
  <2> QED BY <2>1, <2>2 DEF Entry, Entries
<1>2. last \in Entries /\ OneHopApart(last, e)
  <2>1. CASE Local(p)
    BY <2>1 DEF RequestTaken, Taken, FirstEntry, Entry, OneHopApart, HopCount, Entries
  <2>2. CASE ~ Local(p)
    <3>1. last = Entry(p.from, p.hops) /\ <<p.from, p.to>> \in Links /\ HopCount(p) = p.hops + 1
          /\ p.hops \in Nat
      BY <2>2 DEF RequestTaken, HopCount
    <3>2. p.from # Client /\ p.from \in Systems
      BY <3>1, FloodAssumption
    <3> HIDE DEF last
    <3> QED BY <3>1, <3>2 DEF Entry, OneHopApart, Entries
  <2> QED BY <2>1, <2>2
<1> HIDE DEF last
<1>3. /\ Taken(Append(p.path, e)) /\ Append(p.path, e)[1] = FirstEntry
      /\ Append(p.path, e)[Len(Append(p.path, e))] = e
  BY <1>1, <1>2, TakenAppend DEF RequestTaken, last
<1>4. Taken(<<last, e>>) /\ Taken(<<e>>)
  BY <1>1, <1>2, TakenShort
<1>5. ReplyPath(p.to, p) = IF Matches(p.to) THEN Append(p.path, e)
                           ELSE IF HopCount(p) > 0 THEN <<last, e>> ELSE <<e>>
  BY DEF ReplyPath, last
<1> HIDE DEF e
<1> QED BY <1>1, <1>3, <1>4, <1>5 DEF e

LEMMA SendOutPackets ==
  ASSUME NEW s, NEW kind, NEW hops, NEW max, NEW path, NEW except,
         NEW q \in SendOut(s, kind, hops, max, path, except)
  PROVE  /\ q.kind = kind /\ q.hops = hops /\ q.path = path /\ q.from = s
         /\ <<s, q.to>> \in Links /\ hops < 255
<1>1. /\ hops < 255
      /\ q \in {Packet(kind, hops, max, path, s, t) :
                t \in {u \in Systems \ {except} : <<s, u>> \in Links}}
  BY DEF SendOut
<1>2. PICK t \in {u \in Systems \ {except} : <<s, u>> \in Links} :
        q = Packet(kind, hops, max, path, s, t)
  BY <1>1, Zenon
<1> QED BY <1>1, <1>2 DEF Packet

\* What is printed: nothing new, or one reply.
LEMMA ShownTaken ==
  ASSUME \A r \in shown : ReplyTaken(r), NEW s, NEW r, ReplyTaken(r), Show(s, r)
  PROVE  \A x \in shown' : ReplyTaken(x)
BY DEF Show

\* The packets of a trace, one of which is looked at.
PacketTaken(p) == /\ p.kind = "request" => RequestTaken(p)
                  /\ p.kind \in {"final", "intermediate"} => ReplyTaken(p)

LEMMA RepliesTaken ==
  ASSUME NEW p, RequestTaken(p), NEW q \in Reply(p.to, p)
  PROVE  PacketTaken(q)
<1> DEFINE kind == IF Matches(p.to) THEN "final" ELSE "intermediate"
           max == ReplyHops(HopCount(p))
           path == ReplyPath(p.to, p)
<1>1. q.kind = kind /\ q.path = path
  <2>1. CASE max = 1
    BY <2>1 DEF Reply, Packet
  <2>2. CASE max # 1
    <3>1. q \in SendOut(p.to, kind, 0, max, path, Client)
      BY <2>2 DEF Reply
    <3> HIDE DEF kind, max, path
    <3>2. /\ q.kind = kind /\ q.hops = 0 /\ q.path = path /\ q.from = p.to
          /\ <<p.to, q.to>> \in Links /\ 0 < 255
      BY <3>1, SendOutPackets
    <3> QED BY <3>2
  <2> QED BY <2>1, <2>2
<1>2. Taken(path) /\ (Matches(p.to) => path[1] = FirstEntry)
  BY RequestGoesOn
<1> HIDE DEF path
<1> QED BY <1>1, <1>2 DEF PacketTaken, ReplyTaken

LEMMA RequestStep ==
  ASSUME NEW p \in net, job = "trace", PathsInv, HandleRequest(p.to, p)
  PROVE  (\A q \in net' : PacketTaken(q)) /\ \A r \in shown' : ReplyTaken(r)
<1> DEFINE s == p.to
<1>1. /\ RequestTaken(p) /\ \A q \in net : PacketTaken(q)
      /\ \A r \in shown : ReplyTaken(r)
  BY DEF HandleRequest, PathsInv, PacketTaken
<1>2. CASE PcacheTraceRequest(s)
  BY <1>1, <1>2 DEF HandleRequest
<1>3. CASE ~ PcacheTraceRequest(s)
  <2> DEFINE path == RequestPath(s, p)
             out == SendOut(s, "request", HopCount(p), p.max, path, p.from)
  <2>1. /\ net' = (net \ {p}) \cup (IF Replies(s) THEN Reply(s, p) ELSE {}) \cup out
        /\ IF Replies(s)
           THEN Show(s, [kind |-> IF Matches(s) THEN "final" ELSE "intermediate",
                         path |-> ReplyPath(s, p)])
           ELSE shown' = shown
    BY <1>3 DEF HandleRequest
  <2>2. path = Append(p.path, Entry(s, HopCount(p)))
    BY DEF RequestPath, Intermediates
  <2>3. /\ s \in Systems /\ HopCount(p) \in Nat /\ Taken(path) /\ path[1] = FirstEntry
        /\ path[Len(path)] = Entry(s, HopCount(p))
        /\ Taken(ReplyPath(s, p)) /\ (Matches(s) => ReplyPath(s, p)[1] = FirstEntry)
    BY <1>1, <2>2, RequestGoesOn
  <2> HIDE DEF path
  <2>4. ASSUME NEW q \in out
        PROVE  PacketTaken(q)
    <3>1. /\ q.kind = "request" /\ q.hops = HopCount(p) /\ q.path = path /\ q.from = s
          /\ <<s, q.to>> \in Links /\ HopCount(p) < 255
      BY <2>4, SendOutPackets
    <3>2. ~ Local(q)
      BY <2>3, <3>1, FloodAssumption DEF Local
    <3> QED BY <2>3, <3>1, <3>2 DEF PacketTaken, RequestTaken
  <2>5. \A q \in net' : PacketTaken(q)
    <3> HIDE DEF out
    <3> QED BY <1>1, <2>1, <2>4, RepliesTaken
  <2>6. \A r \in shown' : ReplyTaken(r)
    <3> DEFINE r == [kind |-> IF Matches(s) THEN "final" ELSE "intermediate",
                     path |-> ReplyPath(s, p)]
    <3>1. ReplyTaken(r)
      BY <2>3 DEF ReplyTaken
    <3>2. Show(s, r) \/ shown' = shown
      BY <2>1
    <3> HIDE DEF r
    <3> QED BY <1>1, <3>1, <3>2, ShownTaken
  <2> QED BY <2>5, <2>6
<1> QED BY <1>2, <1>3

LEMMA ReplyStep ==
  ASSUME NEW p \in net, job = "trace", PathsInv, HandleReply(p.to, p)
  PROVE  (\A q \in net' : PacketTaken(q)) /\ \A r \in shown' : ReplyTaken(r)
<1> DEFINE s == p.to
           r == [kind |-> p.kind, path |-> p.path]
           out == SendOut(s, p.kind, HopCount(p), p.max, p.path, p.from)
<1>1. /\ p.kind \in {"final", "intermediate"} /\ ReplyTaken(p) /\ ReplyTaken(r)
      /\ \A q \in net : PacketTaken(q)
      /\ \A x \in shown : ReplyTaken(x)
  BY DEF HandleReply, PathsInv, PacketTaken, ReplyTaken
<1>2. \/ net' = net \ {p} /\ shown' = shown
      \/ Show(s, r) /\ net' = (net \ {p}) \cup out
  BY DEF HandleReply
<1>3. ASSUME NEW q \in out PROVE PacketTaken(q)
  <2>1. /\ q.kind = p.kind /\ q.hops = HopCount(p) /\ q.path = p.path /\ q.from = s
        /\ <<s, q.to>> \in Links /\ HopCount(p) < 255
    BY <1>3, SendOutPackets
  <2> QED BY <1>1, <2>1 DEF PacketTaken, ReplyTaken
<1> HIDE DEF r, out
<1> QED BY <1>1, <1>2, <1>3, ShownTaken

\* Messages and acks are packets of neither kind.
LEMMA OtherStep ==
  ASSUME NEW p \in net, job = "trace", PathsInv,
         HandleData(p.to, p) \/ HandleAck(p.to, p)
  PROVE  (\A q \in net' : PacketTaken(q)) /\ \A r \in shown' : ReplyTaken(r)
<1>1. /\ \A q \in net : PacketTaken(q) /\ \A r \in shown : ReplyTaken(r)
      /\ shown' = shown
  BY DEF HandleData, HandleAck, PathsInv, PacketTaken
<1>2. ASSUME NEW q \in net', q \notin net
      PROVE  q.kind \in {"data", "ack"}
  <2> DEFINE data == SendOut(p.to, "data", HopCount(p), p.max, <<>>, p.from)
             ack == SendOut(p.to, "ack", HopCount(p), p.max, <<>>, p.from)
  <2>1. \/ q \in data \/ q \in ack
        \/ q = Packet("ack", 0, AckHops(HopCount(p)), <<>>, p.to, p.from)
        \/ q = Packet("ack", 0, AckHops(HopCount(p)), <<>>, Client, p.to)
    BY <1>2 DEF HandleData, HandleAck
  <2>2. (q \in data => q.kind = "data") /\ (q \in ack => q.kind = "ack")
    <3>1. ASSUME NEW kind, q \in SendOut(p.to, kind, HopCount(p), p.max, <<>>, p.from)
          PROVE  /\ q.kind = kind /\ q.hops = HopCount(p) /\ q.path = <<>> /\ q.from = p.to
                 /\ <<p.to, q.to>> \in Links /\ HopCount(p) < 255
      BY <3>1, SendOutPackets
    <3> QED BY <3>1
  <2> HIDE DEF data, ack
  <2> QED BY <2>1, <2>2 DEF Packet
<1>3. \A q \in net' : PacketTaken(q)
  BY <1>1, <1>2 DEF PacketTaken
<1> QED BY <1>1, <1>3

LEMMA PathsStep == PathsInv /\ [FloodNext]_flood => PathsInv'
<1> SUFFICES ASSUME PathsInv, [FloodNext]_flood PROVE PathsInv'
  OBVIOUS
<1>1. CASE Send
  <2>1. ASSUME job' = "trace" \/ job' = "quiet", net' = SendTrace
        PROVE  \A q \in net' : PacketTaken(q)
    <3>1. FirstEntry \in Entries
      BY DEF FirstEntry, Entry, Entries
    <3>2. Taken(<<FirstEntry>>)
      BY <3>1, TakenShort
    <3> QED BY <2>1, <3>2 DEF SendTrace, Packet, PacketTaken, RequestTaken, Local
  <2>2. job' # "none" /\ shown' = {}
    BY <1>1 DEF Send, DoTraceLoop, PathsInv
  <2> QED BY <1>1, <2>1, <2>2 DEF Send, DoTraceLoop, PathsInv, PacketTaken
<1>2. CASE \E p \in net : Handle(p)
  <2>1. PICK p \in net : Handle(p)
    BY <1>2
  <2>2. job' = job /\ job # "none"
    BY <2>1 DEF Handle, PathsInv
  <2>3. job = "trace" =>
          (\A q \in net' : PacketTaken(q)) /\ \A r \in shown' : ReplyTaken(r)
    BY <2>1, RequestStep, ReplyStep, OtherStep DEF Handle
  <2> QED BY <2>2, <2>3 DEF PathsInv, PacketTaken
<1>3. CASE \E p \in net : Lose(p)
  BY <1>3 DEF Lose, PathsInv
<1>4. CASE UNCHANGED flood
  BY <1>4 DEF flood, PathsInv
<1> QED BY <1>1, <1>2, <1>3, <1>4 DEF FloodNext

(* A reply that the client prints is a path the request took, on any network, *)
(* however its copies overtake each other: add_my_entry, make_trace_reply and *)
(* the hop count of the daemon loop give entries one hop apart.               *)
THEOREM TracesTaken == FloodSpec => []PathsTaken
<1>1. FloodInit => PathsInv
  BY DEF FloodInit, PathsInv
<1>2. PathsInv => PathsTaken
  BY DEF PathsInv, PathsTaken, ReplyTaken, Taken
<1> QED BY <1>1, <1>2, PathsStep, PTL DEF FloodSpec

-----------------------------------------------------------------------------
(* Send limits (Keepalive): a send limit is only renewed for a peer that has  *)
(* received what this daemon sent since it started (RenewedIsReached).        *)

\* The authentications of d that its peer may have: of an earlier start, or of this one
\* if the peer has received from this one.
Known(d) == {auth \in 0 .. start[d] : auth = start[d] => d \in reached}

\* What may be under way to n.
Packets(n) ==
  {p \in [keepalive : BOOLEAN, sender : Nat, receiver : Nat] :
     p.sender <= start[Peer(n)] /\ p.receiver \in Known(n)}

KnownEntry == [auth : Nat, send : Int]

KeepaliveInv ==
  /\ start \in [Daemons -> Nat \ {0}] /\ entry \in [Daemons -> KnownEntry]
  /\ recorded \in [Daemons -> Nat]
  /\ inFlight = [n \in Daemons |-> inFlight[n]]
  /\ \A n \in Daemons : /\ inFlight[n] \in Seq(Packets(n))
                        /\ entry[n].auth \in Known(Peer(n))
                        /\ recorded[n] \in Known(Peer(n))
  /\ RenewedIsReached

LEMMA Peers ==
  ASSUME NEW n \in Daemons
  PROVE  Peer(n) \in Daemons /\ Peer(n) # n /\ Peer(Peer(n)) = n
  BY KeepaliveAssumption DEF Peer, Daemons

LEMMA SeqGrows ==
  ASSUME NEW S, NEW T, S \subseteq T, NEW s \in Seq(S)
  PROVE  s \in Seq(T)
  BY ElementOfSeq, SeqDef

LEMMA ArrivingPackets ==
  ASSUME NEW S, NEW queue \in Seq(S), NEW packets \in Seq(S)
  PROVE  Arriving(queue, packets) \in Seq(S)
<1> DEFINE all == queue \o packets
           k == IF Len(all) < MaxInFlight THEN Len(all) ELSE MaxInFlight
<1>1. all \in Seq(S)
  OBVIOUS
<1>2. k \in Nat /\ k <= Len(all)
  BY <1>1, KeepaliveAssumption
<1>3. SubSeq(all, 1, k) \in Seq(S)
  BY <1>1, <1>2, SubSeqProperties
<1> QED
  BY <1>3 DEF Arriving

LEMMA InitKeepaliveInv == KeepaliveInit => KeepaliveInv
  BY Peers DEF KeepaliveInit, KeepaliveInv, Known, KnownEntry, NoEntry, NoAuth, RenewedIsReached

\* A keep-alive that is sent: the authentication of this start, and one of the peer.
LEMMA SentIsPacket ==
  ASSUME KeepaliveInv, NEW n \in Daemons, NEW auth, auth \in Known(Peer(n))
  PROVE  KeepaliveAuth(n, auth) \in Packets(Peer(n))
  BY Peers DEF KeepaliveInv, Packets, KeepaliveAuth, SenderAuth, Known

LEMMA DataIsPacket ==
  ASSUME KeepaliveInv, NEW n \in Daemons
  PROVE  DataPacket \in Packets(n)
  BY Peers DEF KeepaliveInv, Packets, DataPacket, NoAuth, Known

LEMMA ChargedIsKnown ==
  ASSUME NEW Auths, NoAuth \in Auths, Auths \subseteq Nat, NEW e \in KnownEntry, e.auth \in Auths
  PROVE  Charge(e) \in KnownEntry /\ Charge(e).auth \in Auths
<1>1. e.send - 1 \in Int /\ [e EXCEPT !.send = @ - 1] = [auth |-> e.auth, send |-> e.send - 1]
  BY DEF KnownEntry
<1>2. [auth |-> e.auth, send |-> e.send - 1] \in KnownEntry
  BY <1>1 DEF KnownEntry
<1>3. NoEntry \in KnownEntry /\ NoEntry.auth \in Auths
  BY DEF NoEntry, NoAuth, KnownEntry
<1> QED BY <1>1, <1>2, <1>3 DEF Charge

\* What a daemon does with a packet uses only authentications the peer has.
LEMMA HandledIsKnown ==
  ASSUME NEW n \in Daemons, NEW p, NEW limitReached \in BOOLEAN, NEW Auths, NEW Sent,
         \A auth \in Auths : KeepaliveAuth(n, auth) \in Sent,
         entry[n] \in KnownEntry, entry[n].auth \in Auths, recorded[n] \in Auths, NoAuth \in Auths,
         Auths \subseteq Nat, p.keepalive \in BOOLEAN, p.keepalive => p.sender \in Auths
  PROVE  /\ Handled(n, p, limitReached).entry \in KnownEntry
         /\ Handled(n, p, limitReached).entry.auth \in Auths
         /\ Handled(n, p, limitReached).recorded \in Auths
         /\ Handled(n, p, limitReached).sent \in Seq(Sent)
<1> DEFINE Good(e) == e \in KnownEntry /\ e.auth \in Auths
<1>1. SendLimit \in Nat /\ Good(NoEntry)
  BY KeepaliveAssumption DEF NoEntry, NoAuth, KnownEntry
<1>2. ASSUME NEW e, Good(e) PROVE Good(Charge(e))
  BY <1>2, ChargedIsKnown
<1>3. ASSUME NEW auth \in Auths PROVE <<KeepaliveAuth(n, auth)>> \in Seq(Sent)
  OBVIOUS
<1>4. IsAuth(n, p) => p.keepalive
  BY DEF IsAuth
<1>5. CASE entry[n] = NoEntry
  <2> DEFINE auth == IF IsAuth(n, p) THEN p.sender ELSE NoAuth
             admitted == Admitted(n, p)
  <2>1. auth \in Auths
    BY <1>4
  <2>2. Good(SocketAdded(auth)) /\ <<KeepaliveAuth(n, auth)>> \in Seq(Sent)
    <3> HIDE DEF auth
    <3>1. SocketAdded(auth) = [auth |-> auth, send |-> SendLimit]
      BY DEF SocketAdded
    <3> QED BY <3>1, <2>1, <1>1, <1>3 DEF KnownEntry
  <2>3. AuthResponse(n, p) \in Seq(Sent)
    <3>1. Small(p) => p.sender \in Auths
      BY DEF Small
    <3>2. <<>> \in Seq(Sent)
      OBVIOUS
    <3> QED BY <3>1, <3>2, <1>3 DEF AuthResponse
  <2>4. Good(admitted.entry) /\ admitted.recorded \in Auths /\ admitted.sent \in Seq(Sent)
    <3>1. CASE ~InRoutingTable(n)
      <4>1. admitted = [entry |-> Charge(SocketAdded(auth)), recorded |-> recorded[n],
                        sent |-> <<KeepaliveAuth(n, auth)>>]
        BY <3>1 DEF Admitted, SendOneKeepalive
      <4>2. Good(Charge(SocketAdded(auth))) /\ <<KeepaliveAuth(n, auth)>> \in Seq(Sent)
        BY <2>2, <1>2
      <4> HIDE DEF admitted, auth
      <4> QED BY <4>1, <4>2
    <3>2. CASE InRoutingTable(n)
      <4> DEFINE isNew == AddsRoutingKeepalive(n, p)
      <4>1. admitted = [entry |-> NoEntry, recorded |-> IF isNew THEN p.sender ELSE recorded[n],
                        sent |-> IF isNew THEN <<KeepaliveAuth(n, auth)>> ELSE <<>>]
        BY <3>2 DEF Admitted, SendOneKeepalive
      <4>2. isNew => p.sender \in Auths
        BY <1>4 DEF AddsRoutingKeepalive
      <4>3. <<>> \in Seq(Sent)
        OBVIOUS
      <4> HIDE DEF admitted, auth, isNew
      <4> QED BY <4>1, <4>2, <4>3, <2>2, <1>1
    <3> QED BY <3>1, <3>2
  <2>5. Handled(n, p, limitReached) = [admitted EXCEPT !.sent = AuthResponse(n, p) \o @]
    BY <1>5 DEF Handled
  <2>6. Handled(n, p, limitReached) = [entry |-> admitted.entry, recorded |-> admitted.recorded,
                                       sent |-> AuthResponse(n, p) \o admitted.sent]
    BY <2>5 DEF Admitted
  <2>7. AuthResponse(n, p) \o admitted.sent \in Seq(Sent)
    BY <2>3, <2>4
  <2> HIDE DEF admitted
  <2> QED BY <2>4, <2>6, <2>7
<1>6. CASE entry[n] # NoEntry
  <2> DEFINE heard == IF IsAuth(n, p) THEN [entry[n] EXCEPT !.send = SendLimit] ELSE entry[n]
  <2>1. Good(heard)
    <3>1. [entry[n] EXCEPT !.send = SendLimit] = [auth |-> entry[n].auth, send |-> SendLimit]
      BY DEF KnownEntry
    <3> QED BY <3>1, <1>1 DEF KnownEntry
  <2>2. Good(Charge(heard)) /\ <<KeepaliveAuth(n, heard.auth)>> \in Seq(Sent)
    BY <2>1, <1>2, <1>3
  <2>3. Handled(n, p, limitReached) =
          [entry |-> IF limitReached THEN Charge(heard) ELSE heard, recorded |-> recorded[n],
           sent |-> IF limitReached THEN <<KeepaliveAuth(n, heard.auth)>> ELSE <<>>]
    BY <1>6 DEF Handled, Updated
  <2> HIDE DEF heard
  <2> QED BY <2>1, <2>2, <2>3
<1> QED BY <1>5, <1>6

LEMMA ReceiveKeeps ==
  ASSUME KeepaliveInv, NEW n \in Daemons, Receive(n)
  PROVE  KeepaliveInv'
<1> DEFINE m == Peer(n)
           p == Head(inFlight[n])
           Auths == Known(m)'
<1>1. m \in Daemons /\ m # n /\ Peer(m) = n /\ \A d \in Daemons : d = n \/ d = m
  BY Peers DEF Peer, Daemons
<1> HIDE DEF m
<1>2. /\ start \in [Daemons -> Nat \ {0}] /\ entry \in [Daemons -> KnownEntry]
      /\ recorded \in [Daemons -> Nat]
      /\ inFlight = [d \in Daemons |-> inFlight[d]] /\ renewed \subseteq reached
      /\ \A d \in Daemons : /\ inFlight[d] \in Seq(Packets(d))
                            /\ entry[d].auth \in Known(Peer(d)) /\ recorded[d] \in Known(Peer(d))
  BY DEF KeepaliveInv, RenewedIsReached
<1>3. PICK limitReached \in BOOLEAN :
        LET h == Handled(n, p, limitReached) IN
          /\ inFlight[n] # <<>>
          /\ entry' = [entry EXCEPT ![n] = h.entry]
          /\ recorded' = [recorded EXCEPT ![n] = h.recorded]
          /\ inFlight' = [inFlight EXCEPT ![n] = Tail(@), ![m] = Arriving(@, h.sent)]
          /\ reached' = IF p.keepalive /\ p.sender = start[m] THEN reached \cup {m} ELSE reached
          /\ renewed' = IF IsAuth(n, p) THEN {n} ELSE {}
          /\ start' = start
  BY DEF Receive, m
<1> DEFINE h == Handled(n, p, limitReached)
<1>4. p \in Packets(n) /\ Tail(inFlight[n]) \in Seq(Packets(n))
  BY <1>2, <1>3
<1>5. /\ p.keepalive \in BOOLEAN /\ p.sender \in Nat /\ p.sender <= start[m] /\ p.receiver \in Known(n)
  BY <1>4 DEF Packets, m
<1>6. reached \subseteq reached' /\ start' = start
  BY <1>3
<1>7. ASSUME NEW d PROVE Known(d) \subseteq Known(d)'
  BY <1>6, <1>7 DEF Known
<1>8. ASSUME NEW d \in Daemons PROVE Packets(d) \subseteq Packets(d)'
  BY <1>6, <1>7 DEF Packets
<1>9. p.keepalive => p.sender \in Auths
  <2>1. p.keepalive /\ p.sender = start[m] => m \in reached'
    BY <1>3
  <2> QED BY <2>1, <1>5, <1>6 DEF Known
<1>10. /\ entry[n].auth \in Auths /\ recorded[n] \in Auths /\ NoAuth \in Auths /\ Auths \subseteq Nat
  <2>1. entry[n].auth \in Known(m)' /\ recorded[n] \in Known(m)'
    BY <1>2, <1>7 DEF m
  <2>2. NoAuth \in Known(m)'
    BY <1>1, <1>2, <1>6 DEF Known, NoAuth
  <2> QED BY <2>1, <2>2 DEF Known, NoAuth
<1>11. \A auth \in Auths : KeepaliveAuth(n, auth) \in Packets(m)'
  <2>1. start[n] \in Nat /\ start[n] <= start'[Peer(m)] /\ Auths \subseteq Nat
    BY <1>1, <1>2, <1>6, <1>10
  <2> QED BY <2>1, <1>6 DEF Packets, KeepaliveAuth, SenderAuth
<1>12. h.entry \in KnownEntry /\ h.entry.auth \in Auths /\ h.recorded \in Auths /\ h.sent \in Seq(Packets(m)')
  <2> HIDE DEF Auths, p
  <2> QED BY <1>2, <1>5, <1>9, <1>10, <1>11, HandledIsKnown
<1> HIDE DEF h, p
<1>13. inFlight'[n] \in Seq(Packets(n)') /\ inFlight'[m] \in Seq(Packets(m)')
  <2>1. Tail(inFlight[n]) \in Seq(Packets(n)')
    BY <1>4, <1>8, SeqGrows
  <2>2. inFlight[m] \in Seq(Packets(m)')
    BY <1>1, <1>2, <1>8, SeqGrows
  <2>3. Arriving(inFlight[m], h.sent) \in Seq(Packets(m)')
    BY <2>2, <1>12, ArrivingPackets
  <2>4. inFlight'[n] = Tail(inFlight[n]) /\ inFlight'[m] = Arriving(inFlight[m], h.sent)
    BY <1>1, <1>2, <1>3 DEF h
  <2> QED BY <2>1, <2>3, <2>4
<1>14. entry'[n].auth \in Known(m)' /\ recorded'[n] \in Known(m)'
  <2>1. entry'[n] = h.entry /\ recorded'[n] = h.recorded
    BY <1>2, <1>3 DEF h
  <2> QED BY <2>1, <1>12
<1>15. entry'[m].auth \in Known(n)' /\ recorded'[m] \in Known(n)'
  <2>1. entry'[m] = entry[m] /\ recorded'[m] = recorded[m]
    BY <1>1, <1>2, <1>3
  <2>2. entry[m].auth \in Known(n) /\ recorded[m] \in Known(n)
    BY <1>1, <1>2
  <2>3. entry[m].auth \in Known(n)' /\ recorded[m] \in Known(n)'
    BY <2>2, <1>6 DEF Known
  <2> QED BY <2>1, <2>3 DEF Known
<1>16. renewed' \subseteq reached'
  BY <1>3, <1>5, <1>6 DEF IsAuth, Known
<1>17. entry' \in [Daemons -> KnownEntry] /\ recorded' \in [Daemons -> Nat]
  <2>1. h.recorded \in Nat
    BY <1>10, <1>12
  <2> QED BY <2>1, <1>2, <1>3, <1>12 DEF h
<1>18. inFlight' = [d \in Daemons |-> inFlight'[d]]
  BY <1>1, <1>2, <1>3
<1>19. \A d \in Daemons : /\ inFlight'[d] \in Seq(Packets(d)')
                           /\ entry'[d].auth \in Known(Peer(d))'
                           /\ recorded'[d] \in Known(Peer(d))'
  BY <1>1, <1>13, <1>14, <1>15 DEF m
<1> QED
  BY <1>2, <1>6, <1>16, <1>17, <1>18, <1>19 DEF KeepaliveInv, RenewedIsReached

\* A step that sends or loses packets, and changes at most the sender's entry.
LEMMA SendingKeeps ==
  ASSUME KeepaliveInv, NEW n \in Daemons, NEW to \in Daemons,
         NEW e \in KnownEntry, e.auth \in Known(Peer(n)), NEW queue \in Seq(Packets(to)),
         entry' = [entry EXCEPT ![n] = e], inFlight' = [inFlight EXCEPT ![to] = queue],
         renewed' = {}, UNCHANGED <<start, recorded, reached>>
  PROVE  KeepaliveInv'
<1>1. \A d \in Daemons : Known(d)' = Known(d) /\ Packets(d)' = Packets(d)
  BY DEF Known, Packets
<1>2. \A d \in Daemons : /\ inFlight'[d] \in Seq(Packets(d)')
                         /\ entry'[d].auth \in Known(Peer(d))'
                         /\ recorded'[d] \in Known(Peer(d))'
  <2> SUFFICES ASSUME NEW d \in Daemons
               PROVE  /\ inFlight'[d] \in Seq(Packets(d))
                      /\ entry'[d].auth \in Known(Peer(d))
                      /\ recorded'[d] \in Known(Peer(d))
    BY <1>1, Peers
  <2>1. /\ inFlight[d] \in Seq(Packets(d)) /\ entry[d].auth \in Known(Peer(d))
        /\ recorded[d] \in Known(Peer(d))
    BY DEF KeepaliveInv
  <2>2. inFlight'[d] = IF d = to THEN queue ELSE inFlight[d]
    BY DEF KeepaliveInv
  <2>3. entry'[d] = IF d = n THEN e ELSE entry[d]
    BY DEF KeepaliveInv
  <2> QED BY <2>1, <2>2, <2>3
<1>3. inFlight' = [d \in Daemons |-> inFlight'[d]] /\ entry' \in [Daemons -> KnownEntry]
  BY DEF KeepaliveInv
<1> QED BY <1>2, <1>3 DEF KeepaliveInv, RenewedIsReached

LEMMA SendKeepalivesKeeps ==
  ASSUME KeepaliveInv, NEW n \in Daemons, SendKeepalives(n)
  PROVE  KeepaliveInv'
<1> DEFINE to == Peer(n)
           queue == Arriving(inFlight[to], <<KeepaliveAuth(n, entry[n].auth)>>)
<1>1. to \in Daemons
  BY Peers
<1>2. entry[n].auth \in Known(to) /\ entry[n] \in KnownEntry /\ inFlight[to] \in Seq(Packets(to))
  BY <1>1 DEF KeepaliveInv
<1>3. KeepaliveAuth(n, entry[n].auth) \in Packets(to)
  BY <1>2, SentIsPacket
<1>4. <<KeepaliveAuth(n, entry[n].auth)>> \in Seq(Packets(to))
  BY <1>3
<1>5. queue \in Seq(Packets(to))
  BY <1>2, <1>4, ArrivingPackets
<1>6. /\ inFlight' = [inFlight EXCEPT ![to] = queue] /\ entry' = [entry EXCEPT ![n] = entry[n]]
      /\ renewed' = {} /\ UNCHANGED <<start, recorded, reached>>
  BY DEF SendKeepalives, KeepaliveInv
<1> HIDE DEF queue
<1> QED BY <1>1, <1>2, <1>5, <1>6, SendingKeeps

LEMMA SendOutKeeps ==
  ASSUME KeepaliveInv, NEW n \in Daemons, SendOutFrom(n)
  PROVE  KeepaliveInv'
<1> DEFINE to == Peer(n)
<1>1. to \in Daemons
  BY Peers
<1>2. /\ entry[n].auth \in Known(to) /\ entry[n] \in KnownEntry /\ recorded[n] \in Known(to)
      /\ inFlight[to] \in Seq(Packets(to))
  BY <1>1 DEF KeepaliveInv
<1>3. PICK withKeepalives \in BOOLEAN :
        LET first == IF withKeepalives /\ InRoutingTable(n) THEN SendRoutingKeepalive(n) ELSE <<>>
            second == IF withKeepalives /\ entry[n] # NoEntry
                      THEN SendOneKeepalive(n, entry[n].auth) ELSE <<>>
        IN inFlight' = [inFlight EXCEPT ![to] = Arriving(@, first \o <<DataPacket>> \o second)]
  BY DEF SendOutFrom
<1> DEFINE first == IF withKeepalives /\ InRoutingTable(n) THEN SendRoutingKeepalive(n) ELSE <<>>
           second == IF withKeepalives /\ entry[n] # NoEntry
                     THEN SendOneKeepalive(n, entry[n].auth) ELSE <<>>
           packets == first \o <<DataPacket>> \o second
           queue == Arriving(inFlight[to], packets)
<1>4. /\ KeepaliveAuth(n, entry[n].auth) \in Packets(to) /\ KeepaliveAuth(n, recorded[n]) \in Packets(to)
      /\ DataPacket \in Packets(to)
  BY <1>1, <1>2, SentIsPacket, DataIsPacket
<1>5. /\ <<KeepaliveAuth(n, entry[n].auth)>> \in Seq(Packets(to))
      /\ <<KeepaliveAuth(n, recorded[n])>> \in Seq(Packets(to))
      /\ <<DataPacket>> \in Seq(Packets(to)) /\ <<>> \in Seq(Packets(to))
  BY <1>4
<1>6. first \in Seq(Packets(to)) /\ second \in Seq(Packets(to))
  BY <1>5 DEF SendRoutingKeepalive, SendOneKeepalive
<1>7. queue \in Seq(Packets(to))
  <2> HIDE DEF first, second
  <2>1. packets \in Seq(Packets(to))
    BY <1>5, <1>6
  <2> QED BY <2>1, <1>2, ArrivingPackets
<1>8. Charge(entry[n]) \in KnownEntry /\ Charge(entry[n]).auth \in Known(to)
  <2>1. NoAuth \in Known(to) /\ Known(to) \subseteq Nat
    BY <1>1 DEF KeepaliveInv, Known, NoAuth
  <2> QED BY <2>1, <1>2, ChargedIsKnown
<1>9. /\ inFlight' = [inFlight EXCEPT ![to] = queue] /\ entry' = [entry EXCEPT ![n] = Charge(entry[n])]
      /\ renewed' = {} /\ UNCHANGED <<start, recorded, reached>>
  BY <1>3 DEF SendOutFrom
<1> HIDE DEF queue
<1> QED BY <1>1, <1>7, <1>8, <1>9, SendingKeeps

LEMMA LoseKeeps ==
  ASSUME KeepaliveInv, NEW n \in Daemons, LoseKeepalive(n)
  PROVE  KeepaliveInv'
<1> DEFINE queue == Tail(inFlight[n])
<1>1. queue \in Seq(Packets(n))
  BY DEF KeepaliveInv, LoseKeepalive
<1>2. entry[n] \in KnownEntry /\ entry[n].auth \in Known(Peer(n))
  BY DEF KeepaliveInv
<1>3. /\ inFlight' = [inFlight EXCEPT ![n] = queue] /\ entry' = [entry EXCEPT ![n] = entry[n]]
      /\ renewed' = {} /\ UNCHANGED <<start, recorded, reached>>
  BY DEF LoseKeepalive, KeepaliveInv
<1> HIDE DEF queue
<1> QED BY <1>1, <1>2, <1>3, SendingKeeps

LEMMA RestartKeeps ==
  ASSUME KeepaliveInv, NEW n \in Daemons, Restart(n)
  PROVE  KeepaliveInv'
<1>1. /\ start' = [start EXCEPT ![n] = start[n] + 1] /\ inFlight' = inFlight
      /\ entry' = [entry EXCEPT ![n] = NoEntry] /\ recorded' = [recorded EXCEPT ![n] = NoAuth]
      /\ reached' = reached \ {n} /\ renewed' = {}
  BY DEF Restart
<1>2. start \in [Daemons -> Nat \ {0}]
  BY DEF KeepaliveInv
<1>3. ASSUME NEW d \in Daemons PROVE Known(d) \subseteq Known(d)' /\ NoAuth \in Known(d)'
  <2>1. start'[d] = (IF d = n THEN start[d] + 1 ELSE start[d]) /\ start[d] \in Nat \ {0}
    BY <1>1, <1>2
  <2>2. d # n => (d \in reached => d \in reached')
    BY <1>1
  <2> QED BY <2>1, <2>2 DEF Known, NoAuth
<1>4. ASSUME NEW d \in Daemons PROVE Packets(d) \subseteq Packets(d)'
  <2>1. start[Peer(d)] <= start'[Peer(d)] /\ start[Peer(d)] \in Nat /\ start'[Peer(d)] \in Nat
    BY <1>1, <1>2, Peers
  <2> QED BY <2>1, <1>3 DEF Packets
<1>5. ASSUME NEW d \in Daemons
      PROVE  /\ inFlight'[d] \in Seq(Packets(d)')
             /\ entry'[d].auth \in Known(Peer(d))' /\ recorded'[d] \in Known(Peer(d))'
  <2>1. /\ inFlight[d] \in Seq(Packets(d)) /\ entry[d].auth \in Known(Peer(d))
        /\ recorded[d] \in Known(Peer(d))
    BY DEF KeepaliveInv
  <2>2. Known(Peer(d)) \subseteq Known(Peer(d))' /\ NoAuth \in Known(Peer(d))'
    BY <1>3, Peers
  <2>3. /\ entry'[d] = IF d = n THEN NoEntry ELSE entry[d]
        /\ recorded'[d] = IF d = n THEN NoAuth ELSE recorded[d]
    BY <1>1 DEF KeepaliveInv
  <2>4. inFlight[d] \in Seq(Packets(d)')
    BY <2>1, <1>4, SeqGrows
  <2> QED BY <2>1, <2>2, <2>3, <2>4, <1>1 DEF NoEntry
<1>6. /\ start' \in [Daemons -> Nat \ {0}] /\ entry' \in [Daemons -> KnownEntry]
      /\ recorded' \in [Daemons -> Nat] /\ inFlight' = [d \in Daemons |-> inFlight'[d]]
  BY <1>1 DEF KeepaliveInv, NoEntry, NoAuth, KnownEntry
<1> QED BY <1>1, <1>5, <1>6 DEF KeepaliveInv, RenewedIsReached

\* (is_auth_keepalive, update_read) The authentication that renews a send limit is made from the
\* random secret of this start, so the peer that returns it has received what was sent since then:
\* whatever is lost, delayed beyond a new start of either, or sent again.
THEOREM RenewedAlwaysReached == KeepaliveSpec => []RenewedIsReached
<1>1. KeepaliveInit => KeepaliveInv
  BY InitKeepaliveInv
<1>2. KeepaliveInv /\ [KeepaliveNext]_keepalives => KeepaliveInv'
  <2> SUFFICES ASSUME KeepaliveInv, [KeepaliveNext]_keepalives
               PROVE  KeepaliveInv'
    OBVIOUS
  <2>1. ASSUME NEW n \in Daemons, Receive(n) PROVE KeepaliveInv'
    BY <2>1, ReceiveKeeps
  <2>2. ASSUME NEW n \in Daemons, SendKeepalives(n) PROVE KeepaliveInv'
    BY <2>2, SendKeepalivesKeeps
  <2>3. ASSUME NEW n \in Daemons, SendOutFrom(n) PROVE KeepaliveInv'
    BY <2>3, SendOutKeeps
  <2>4. ASSUME NEW n \in Daemons, LoseKeepalive(n) PROVE KeepaliveInv'
    BY <2>4, LoseKeeps
  <2>5. ASSUME NEW n \in Daemons, Restart(n) PROVE KeepaliveInv'
    BY <2>5, RestartKeeps
  <2>6. CASE UNCHANGED keepalives
    BY <2>6 DEF keepalives, KeepaliveInv, Packets, Known, RenewedIsReached
  <2> QED BY <2>1, <2>2, <2>3, <2>4, <2>5, <2>6 DEF KeepaliveNext
<1>3. KeepaliveInv => RenewedIsReached
  BY DEF KeepaliveInv
<1> QED BY <1>1, <1>2, <1>3, PTL DEF KeepaliveSpec
-----------------------------------------------------------------------------
(***************************************************************************)
(* The table of peers (Routing).                                           *)
(***************************************************************************)
Slot == [info : Infos, refreshed : BOOLEAN]
Slots(n) == [1 .. n -> Slot \cup {Vacant}]
TablesType == [peers : Slots(MaxPeers), pings : Slots(MaxPings)]

\* A peer is in the row of the bits that it shares with the own address.
InRow(a, i) == Row(a) < i /\ i <= Row(a) + PeersPerBit
InRows(p) == \A i \in 1 .. MaxPeers : p[i] # Vacant => InRow(p[i].info, i)
\* An address has one slot for each version.
OneSlot(p) ==
  \A i, j \in 1 .. MaxPeers :
    p[i] # Vacant /\ p[j] # Vacant /\ SamePeer(p[i].info, p[j].info) => i = j
PeersFit(p) == p \in Slots(MaxPeers) /\ InRows(p) /\ OneSlot(p)
RoutingInv == PeersFit(peers) /\ pings \in Slots(MaxPings)

LEMMA TableSizes ==
  AddressBits \in Nat /\ AddressBits > 0 /\ PeersPerBit \in Nat /\ PeersPerBit > 0
  /\ MaxPings \in Nat /\ MaxPings > 0 /\ MaxPeers \in Nat
<1>1. /\ AddressBits \in Nat /\ AddressBits > 0 /\ PeersPerBit \in Nat /\ PeersPerBit > 0
      /\ MaxPings \in Nat /\ MaxPings > 0
  BY RoutingAssumption
<1>2. MaxPeers \in Nat
  BY <1>1 DEF MaxPeers
<1> QED BY <1>1, <1>2

LEMMA LeastOf ==
  ASSUME NEW S \in SUBSET Nat, S # {}
  PROVE  Min(S) \in S /\ \A k \in S : Min(S) <= k
<1>1. \E n \in S : \A k \in S : n <= k
  BY Least
<1> QED BY <1>1 DEF Min

LEMMA MatchingIs ==
  ASSUME NEW x, NEW y
  PROVE  LET m == MatchingBits(x, y)
         IN  /\ m \in 0 .. AddressBits
             /\ \A k \in 0 .. AddressBits - 1 : k < m => x[k] = y[k]
             /\ m < AddressBits => x[m] # y[m]
<1> DEFINE differ == {k \in 0 .. AddressBits - 1 : x[k] # y[k]}
<1>1. CASE differ = {}
  BY <1>1, TableSizes DEF MatchingBits
<1>2. CASE differ # {}
  <2>1. MatchingBits(x, y) = Min(differ)
    BY <1>2 DEF MatchingBits
  <2>2. differ \in SUBSET Nat
    BY TableSizes
  <2>3. Min(differ) \in differ /\ \A k \in differ : Min(differ) <= k
    <3> HIDE DEF differ
    <3> QED BY <1>2, <2>2, LeastOf
  <2>4. Min(differ) \in 0 .. AddressBits - 1 /\ x[Min(differ)] # y[Min(differ)]
    BY <2>3
  <2>5. \A k \in 0 .. AddressBits - 1 : k < Min(differ) => k \notin differ
    <3> HIDE DEF differ
    <3> QED BY <2>3, <2>4, TableSizes
  <2>6. \A k \in 0 .. AddressBits - 1 : k < Min(differ) => x[k] = y[k]
    BY <2>5
  <2> HIDE DEF differ
  <2> QED BY <2>1, <2>4, <2>6, TableSizes
<1> QED BY <1>1, <1>2

\* Of three addresses, two share no more bits than the third shares with one of them.
LEMMA CloserSharesRow ==
  ASSUME NEW d, NEW x, NEW y, MatchingBits(d, x) > MatchingBits(d, y)
  PROVE  MatchingBits(x, y) = MatchingBits(d, y) /\ MatchingBits(d, y) < AddressBits
<1> DEFINE k == MatchingBits(d, x)  m == MatchingBits(d, y)  n == MatchingBits(x, y)
<1>1. /\ k \in 0 .. AddressBits /\ \A i \in 0 .. AddressBits - 1 : i < k => d[i] = x[i]
  BY MatchingIs
<1>2. /\ m \in 0 .. AddressBits /\ \A i \in 0 .. AddressBits - 1 : i < m => d[i] = y[i]
      /\ m < AddressBits => d[m] # y[m]
  BY MatchingIs
<1>3. /\ n \in 0 .. AddressBits /\ \A i \in 0 .. AddressBits - 1 : i < n => x[i] = y[i]
      /\ n < AddressBits => x[n] # y[n]
  BY MatchingIs
<1>4. k > m
  OBVIOUS
<1> HIDE DEF k, m, n
<1>5. m \in 0 .. AddressBits - 1 /\ x[m] # y[m]
  BY <1>1, <1>2, <1>4, TableSizes
<1>6. n <= m
  BY <1>3, <1>5, TableSizes
<1>7. ~ n < m
  <2> SUFFICES ASSUME n < m PROVE FALSE
    OBVIOUS
  <2>1. n \in 0 .. AddressBits - 1 /\ n < k
    BY <1>1, <1>2, <1>3, <1>4, TableSizes
  <2> QED BY <1>1, <1>2, <1>3, <2>1, TableSizes
<1>8. n = m
  BY <1>2, <1>3, <1>6, <1>7, TableSizes
<1> QED BY <1>5, <1>8, TableSizes DEF m, n

LEMMA FartherIsNoCloser ==
  ASSUME NEW d, NEW x, NEW y, MatchingBits(d, y) < AddressBits,
         MatchingBits(x, y) > MatchingBits(d, y)
  PROVE  MatchingBits(d, x) = MatchingBits(d, y)
<1> DEFINE k == MatchingBits(d, x)  m == MatchingBits(d, y)  n == MatchingBits(x, y)
<1>1. /\ k \in 0 .. AddressBits /\ \A i \in 0 .. AddressBits - 1 : i < k => d[i] = x[i]
      /\ k < AddressBits => d[k] # x[k]
  BY MatchingIs
<1>2. /\ m \in 0 .. AddressBits /\ \A i \in 0 .. AddressBits - 1 : i < m => d[i] = y[i]
      /\ m < AddressBits => d[m] # y[m]
  BY MatchingIs
<1>3. n \in 0 .. AddressBits /\ \A i \in 0 .. AddressBits - 1 : i < n => x[i] = y[i]
  BY MatchingIs
<1>4. m < AddressBits /\ n > m
  OBVIOUS
<1> HIDE DEF k, m, n
<1>5. m \in 0 .. AddressBits - 1 /\ d[m] # x[m]
  BY <1>2, <1>3, <1>4, TableSizes
<1>6. k <= m
  BY <1>1, <1>5, TableSizes
<1>7. ~ k < m
  <2> SUFFICES ASSUME k < m PROVE FALSE
    OBVIOUS
  <2>1. k \in 0 .. AddressBits - 1 /\ k < n
    BY <1>1, <1>2, <1>3, <1>4, TableSizes
  <2> QED BY <1>1, <1>2, <1>3, <2>1, TableSizes
<1>8. k = m
  BY <1>1, <1>2, <1>6, <1>7, TableSizes
<1> QED BY <1>8 DEF k, m

-----------------------------------------------------------------------------
LEMMA RowsAre ==
  ASSUME NEW a \in Infos
  PROVE  Row(a) \in Nat /\ \A b : b.dest = a.dest => Row(b) = Row(a)
<1>1. MatchingBits(a.dest, MyAddress) \in Nat
  BY MatchingIs, TableSizes
<1> QED BY <1>1, TableSizes DEF Row

\* Slots that lose their peer or only its mark keep the table in order.
LEMMA ClearedFits ==
  ASSUME NEW p, PeersFit(p), NEW q \in Slots(MaxPeers),
         \A i \in 1 .. MaxPeers : q[i] # Vacant => p[i] # Vacant /\ q[i].info = p[i].info
  PROVE  PeersFit(q)
<1>1. InRows(q)
  BY DEF PeersFit, InRows
<1>2. OneSlot(q)
  BY DEF PeersFit, OneSlot
<1> QED BY <1>1, <1>2 DEF PeersFit

LEMMA FreshFits ==
  ASSUME NEW a \in Infos PROVE Fresh(a) \in Slot /\ Fresh(a) # Vacant /\ Fresh(a).info = a
<1>1. Fresh(a) \in Slot /\ Fresh(a).info = a
  BY DEF Fresh, Slot
<1>2. Vacant \notin Slot
  BY RoutingAssumption DEF Slot
<1> QED BY <1>1, <1>2

\* A peer in front of its row, in the place of the slot that it had or of another.
LEMMA InFrontFits ==
  ASSUME NEW p, PeersFit(p), NEW a \in Infos, NEW last \in Row(a) + 1 .. Row(a) + PeersPerBit,
         \A i \in 1 .. MaxPeers : p[i] # Vacant /\ SamePeer(a, p[i].info) => i = last
  PROVE  PeersFit(InFront(p, Row(a) + 1, last, a))
<1> DEFINE first == Row(a) + 1
           q == InFront(p, first, last, a)
           Moved(i) == IF i > first /\ i <= last THEN i - 1 ELSE i
<1>0. Row(a) \in Nat /\ MaxPeers \in Nat /\ PeersPerBit \in Nat /\ last \in Nat /\ first \in Nat
  BY RowsAre, TableSizes
<1>1. p \in Slots(MaxPeers) /\ DOMAIN p = 1 .. MaxPeers
  BY DEF PeersFit, Slots
<1>2. \A i \in 1 .. MaxPeers : q[i] = IF i = first THEN Fresh(a) ELSE p[Moved(i)]
  BY <1>1 DEF InFront
<1>3. \A i \in 1 .. MaxPeers : i # first => Moved(i) \in 1 .. MaxPeers
  BY <1>0
<1>4. DOMAIN q = 1 .. MaxPeers /\ q = [i \in 1 .. MaxPeers |-> q[i]]
  BY <1>1 DEF InFront
<1> HIDE DEF q
<1>5. q \in Slots(MaxPeers)
  <2>1. \A i \in 1 .. MaxPeers : p[i] \in Slot \cup {Vacant}
    BY <1>1 DEF Slots
  <2>2. \A i \in 1 .. MaxPeers : q[i] \in Slot \cup {Vacant}
    <3> HIDE DEF first, Moved
    <3> QED BY <1>2, <1>3, <2>1, FreshFits
  <2> QED BY <1>4, <2>2 DEF Slots
<1>6. \A i \in 1 .. MaxPeers : p[i] # Vacant => p[i].info \in Infos
  BY <1>1 DEF Slots, Slot
<1>7. InRows(q)
  <2> SUFFICES ASSUME NEW i \in 1 .. MaxPeers, q[i] # Vacant PROVE InRow(q[i].info, i)
    BY DEF InRows
  <2>1. CASE i = first
    BY <1>0, <1>2, <2>1, FreshFits, TableSizes DEF InRow
  <2>2. CASE i # first /\ ~ (i > first /\ i <= last)
    BY <1>2, <2>2 DEF PeersFit, InRows
  <2>3. CASE i > first /\ i <= last
    <3>1. i - 1 \in 1 .. MaxPeers /\ q[i] = p[i - 1]
      BY <1>0, <1>2, <2>3
    <3>2. InRow(p[i - 1].info, i - 1) /\ p[i - 1].info \in Infos
      BY <1>6, <3>1 DEF PeersFit, InRows
    <3> DEFINE r == Row(p[i - 1].info)
    <3> DEFINE m == MatchingBits(p[i - 1].info.dest, MyAddress)
               n == MatchingBits(a.dest, MyAddress)
    <3>3. m \in Nat /\ n \in Nat /\ r = m * PeersPerBit /\ Row(a) = n * PeersPerBit
      BY MatchingIs, TableSizes DEF Row
    <3> HIDE DEF m, n
    <3>4. r < i - 1 /\ i - 1 <= r + PeersPerBit /\ Row(a) < i - 1 /\ i - 1 < Row(a) + PeersPerBit
      BY <1>0, <2>3, <3>2 DEF InRow
    <3>5. r = Row(a)
      <4> QED BY <1>0, <3>3, <3>4
    <3>6. r < i /\ i <= r + PeersPerBit
      BY <1>0, <2>3, <3>5
    <3> QED BY <3>1, <3>6 DEF InRow
  <2> QED BY <2>1, <2>2, <2>3
<1>8. OneSlot(q)
  <2> SUFFICES ASSUME NEW i \in 1 .. MaxPeers, NEW j \in 1 .. MaxPeers, q[i] # Vacant,
                      q[j] # Vacant, SamePeer(q[i].info, q[j].info)
               PROVE  i = j
    BY DEF OneSlot
  <2>1. \A k \in 1 .. MaxPeers : k # first => Moved(k) # last \/ k > last \/ last = first
    BY <1>0
  <2>2. ASSUME NEW k \in 1 .. MaxPeers, NEW l \in 1 .. MaxPeers, k = first, l # first,
               q[l] # Vacant, SamePeer(a, q[l].info)
        PROVE  FALSE
    <3>1. p[Moved(l)] # Vacant /\ SamePeer(a, p[Moved(l)].info) /\ Moved(l) \in 1 .. MaxPeers
      BY <1>2, <1>3, <2>2
    <3>2. Moved(l) = last
      <4> HIDE DEF Moved
      <4> QED BY <3>1
    <3> QED BY <1>0, <2>2, <3>2
  <2>3. CASE i = first /\ j # first
    <3>1. q[i].info = a
      BY <1>2, <2>3, FreshFits
    <3> QED BY <2>2, <2>3, <3>1
  <2>4. CASE i # first /\ j = first
    <3>1. q[j].info = a
      BY <1>2, <2>4, FreshFits
    <3> QED BY <2>2, <2>4, <3>1 DEF SamePeer
  <2>5. CASE i # first /\ j # first
    <3>1. Moved(i) = Moved(j)
      <4> HIDE DEF Moved
      <4> QED BY <1>2, <1>3, <2>5 DEF PeersFit, OneSlot
    <3> QED BY <1>0, <2>5, <3>1
  <2> QED BY <2>3, <2>4, <2>5
<1> QED BY <1>5, <1>7, <1>8 DEF PeersFit, q

FitTables == {t \in TablesType : PeersFit(t.peers)}

LEMMA FitTable ==
  ASSUME NEW p, NEW q, PeersFit(p), q \in Slots(MaxPings)
  PROVE  [peers |-> p, pings |-> q] \in FitTables
BY DEF FitTables, TablesType, PeersFit

LEMMA FitTableIs ==
  ASSUME NEW t \in FitTables
  PROVE  /\ PeersFit(t.peers) /\ t.peers \in Slots(MaxPeers) /\ t.pings \in Slots(MaxPings)
         /\ DOMAIN t.peers = 1 .. MaxPeers /\ DOMAIN t.pings = 1 .. MaxPings
         /\ \A i \in 1 .. MaxPeers : t.peers[i] # Vacant =>
              t.peers[i] \in Slot /\ t.peers[i].info \in Infos
         /\ t = [peers |-> t.peers, pings |-> t.pings]
BY DEF FitTables, TablesType, Slots, Slot

\* A new ping comes to the front.
LEMMA PingsFit ==
  ASSUME NEW q \in Slots(MaxPings), NEW a \in Infos, NEW last
  PROVE  InFront(q, 1, last, a) \in Slots(MaxPings)
<1>1. DOMAIN q = 1 .. MaxPings /\ \A i \in 1 .. MaxPings : q[i] \in Slot \cup {Vacant}
  BY DEF Slots
<1>2. \A i \in 1 .. MaxPings : i > 1 => i - 1 \in 1 .. MaxPings
  BY TableSizes
<1>3. \A i \in 1 .. MaxPings :
        (IF i = 1 THEN Fresh(a) ELSE IF i > 1 /\ i <= last THEN q[i - 1] ELSE q[i])
          \in Slot \cup {Vacant}
  BY <1>1, <1>2, FreshFits
<1> QED BY <1>1, <1>3 DEF InFront, Slots

LEMMA AddPingFits ==
  ASSUME NEW t \in FitTables, NEW a \in Infos
  PROVE  RoutingAddPing(t, a) \in FitTables /\ RoutingAddPing(t, a).peers = t.peers
<1> DEFINE q == InFront(t.pings, 1,
                        IF FindPing(t, a) = {} THEN MaxPings ELSE Min(FindPing(t, a)), a)
<1>1. q \in Slots(MaxPings)
  BY PingsFit, FitTableIs
<1>2. RoutingAddPing(t, a) = t \/ RoutingAddPing(t, a) = [peers |-> t.peers, pings |-> q]
  <2>1. [t EXCEPT !.pings = q] = [peers |-> t.peers, pings |-> q]
    <3> HIDE DEF q
    <3> QED BY FitTableIs
  <2> QED BY <2>1 DEF RoutingAddPing
<1> HIDE DEF q
<1> QED BY <1>1, <1>2, FitTable, FitTableIs

\* The slots that find_peer gives are in the row of the address.
LEMMA FoundInRow ==
  ASSUME NEW t \in FitTables, NEW a \in Infos
  PROVE  /\ FindPeer(t, a) = {i \in 1 .. MaxPeers : t.peers[i] # Vacant /\ SamePeer(a, t.peers[i].info)}
         /\ FindPeer(t, a) \subseteq Row(a) + 1 .. Row(a) + PeersPerBit
         /\ \A i, j \in FindPeer(t, a) : i = j
<1>1. FindPeer(t, a) = {i \in 1 .. MaxPeers : t.peers[i] # Vacant /\ SamePeer(a, t.peers[i].info)}
  BY FitTableIs DEF FindPeer, SlotsWith
<1>2. ASSUME NEW i \in FindPeer(t, a) PROVE i \in Row(a) + 1 .. Row(a) + PeersPerBit
  <2>1. i \in 1 .. MaxPeers /\ t.peers[i] # Vacant /\ SamePeer(a, t.peers[i].info)
    BY <1>1
  <2>2. InRow(t.peers[i].info, i)
    BY <2>1, FitTableIs DEF PeersFit, InRows
  <2>3. Row(t.peers[i].info) = Row(a) /\ Row(a) \in Nat
    BY <2>1, RowsAre DEF SamePeer
  <2> QED BY <2>1, <2>2, <2>3, TableSizes DEF InRow
<1>3. \A i, j \in FindPeer(t, a) : i = j
  <2> SUFFICES ASSUME NEW i \in FindPeer(t, a), NEW j \in FindPeer(t, a) PROVE i = j
    OBVIOUS
  <2>1. SamePeer(t.peers[i].info, t.peers[j].info) /\ i \in 1 .. MaxPeers /\ j \in 1 .. MaxPeers
        /\ t.peers[i] # Vacant /\ t.peers[j] # Vacant
    BY <1>1 DEF SamePeer
  <2> QED BY <2>1, FitTableIs DEF PeersFit, OneSlot
<1> QED BY <1>1, <1>2, <1>3

LEMMA AddDhtFits ==
  ASSUME NEW t \in FitTables, NEW a \in Infos PROVE RoutingAddDht(t, a) \in FitTables
<1> DEFINE inRow == FindPeer(t, a) \cap (Row(a) + 1 .. Row(a) + PeersPerBit)
           cleared == [i \in DOMAIN t.peers |->
                         IF i \in OthersWithIp(t, a) THEN Vacant ELSE t.peers[i]]
           left == [i \in DOMAIN t.pings |-> IF i \in Waiting(t, a) THEN Vacant ELSE t.pings[i]]
           p == InFront(t.peers, Row(a) + 1, Min(inRow), a)
           q == InFront(cleared, Row(a) + 1, Row(a) + PeersPerBit, a)
<1>1. RoutingAddDht(t, a) = IF inRow # {} THEN [t EXCEPT !.peers = p] ELSE [peers |-> q, pings |-> left]
  BY DEF RoutingAddDht
<1>2. inRow = FindPeer(t, a)
  BY FoundInRow
<1> HIDE DEF inRow
<1>3. CASE inRow # {}
  <2>1. [t EXCEPT !.peers = p] = [peers |-> p, pings |-> t.pings]
    <3> HIDE DEF p
    <3> QED BY FitTableIs
  <2>2. inRow \in SUBSET Nat
    BY <1>2, FoundInRow, TableSizes
  <2>3. Min(inRow) \in inRow
    BY <1>3, <2>2, LeastOf
  <2>4. Min(inRow) \in Row(a) + 1 .. Row(a) + PeersPerBit
    BY <1>2, <2>3, FoundInRow
  <2>5. \A i \in 1 .. MaxPeers : t.peers[i] # Vacant /\ SamePeer(a, t.peers[i].info) => i = Min(inRow)
    BY <1>2, <2>3, FoundInRow
  <2>6. PeersFit(p)
    BY <2>4, <2>5, FitTableIs, InFrontFits
  <2> QED BY <1>1, <1>3, <2>1, <2>6, FitTable, FitTableIs
<1>4. CASE inRow = {}
  <2>1. PeersFit(cleared)
    <3>1. cleared \in Slots(MaxPeers)
      BY FitTableIs DEF Slots
    <3>2. \A i \in 1 .. MaxPeers : cleared[i] # Vacant => t.peers[i] # Vacant /\ cleared[i].info = t.peers[i].info
      BY FitTableIs
    <3> HIDE DEF cleared
    <3> QED BY <3>1, <3>2, FitTableIs, ClearedFits
  <2>2. \A i \in 1 .. MaxPeers : cleared[i] # Vacant => cleared[i] = t.peers[i]
    BY FitTableIs
  <2> HIDE DEF cleared
  <2>3. \A i \in 1 .. MaxPeers : ~ (cleared[i] # Vacant /\ SamePeer(a, cleared[i].info))
    BY <1>2, <1>4, <2>2, FoundInRow
  <2>4. Row(a) + PeersPerBit \in Row(a) + 1 .. Row(a) + PeersPerBit
    BY RowsAre, TableSizes
  <2>5. PeersFit(q)
    BY <2>1, <2>3, <2>4, InFrontFits
  <2>6. left \in Slots(MaxPings)
    BY FitTableIs DEF Slots
  <2> HIDE DEF left
  <2> QED BY <1>1, <1>4, <2>5, <2>6, FitTable
<1> QED BY <1>3, <1>4

\* The slots of peers that are asked again, and those that lose their mark.
LEMMA VacatedFits ==
  ASSUME NEW t \in FitTables, NEW i \in 1 .. MaxPeers
  PROVE  /\ [t EXCEPT !.peers[i] = Vacant] =
              [peers |-> [t.peers EXCEPT ![i] = Vacant], pings |-> t.pings]
         /\ [t EXCEPT !.peers[i] = Vacant] \in FitTables
<1> DEFINE p == [t.peers EXCEPT ![i] = Vacant]
<1>1. [t EXCEPT !.peers[i] = Vacant] = [peers |-> p, pings |-> t.pings]
  BY FitTableIs
<1>2. p \in Slots(MaxPeers)
  BY FitTableIs DEF Slots
<1>3. \A j \in 1 .. MaxPeers : p[j] # Vacant => t.peers[j] # Vacant /\ p[j].info = t.peers[j].info
  BY FitTableIs
<1> HIDE DEF p
<1>4. PeersFit(p)
  BY <1>2, <1>3, FitTableIs, ClearedFits
<1> QED BY <1>1, <1>4, FitTable, FitTableIs DEF p

LEMMA Unmarked ==
  ASSUME NEW S, NEW x \in [info : S, refreshed : BOOLEAN]
  PROVE  /\ [x EXCEPT !.refreshed = FALSE] = [info |-> x.info, refreshed |-> FALSE]
         /\ [x EXCEPT !.refreshed = FALSE] \in [info : S, refreshed : BOOLEAN]
<1> DEFINE y == [x EXCEPT !.refreshed = FALSE]
<1>1. y \in [info : S, refreshed : BOOLEAN]
  OBVIOUS
<1>2. y.info = x.info
  OBVIOUS
<1>3. y.refreshed = FALSE
  OBVIOUS
<1> HIDE DEF y
<1>4. y = [info |-> y.info, refreshed |-> y.refreshed]
  BY <1>1
<1> QED BY <1>1, <1>2, <1>3, <1>4 DEF y

LEMMA UnmarkedFits ==
  ASSUME NEW t \in FitTables, NEW i \in 1 .. MaxPeers, t.peers[i] # Vacant
  PROVE  /\ [t EXCEPT !.peers[i].refreshed = FALSE] =
              [peers |-> [t.peers EXCEPT ![i] = [info |-> t.peers[i].info, refreshed |-> FALSE]],
               pings |-> t.pings]
         /\ [t EXCEPT !.peers[i].refreshed = FALSE] \in FitTables
<1> DEFINE s == [info |-> t.peers[i].info, refreshed |-> FALSE]
           p == [t.peers EXCEPT ![i] = s]
<1>1. t.peers[i] \in Slot
  BY FitTableIs
<1>2. [t.peers[i] EXCEPT !.refreshed = FALSE] = s /\ s \in Slot /\ s.info = t.peers[i].info
  <2>1. t.peers[i] \in [info : Infos, refreshed : BOOLEAN]
    BY <1>1 DEF Slot
  <2> QED BY <2>1, Unmarked DEF Slot
<1>3. [t EXCEPT !.peers[i].refreshed = FALSE] = [peers |-> p, pings |-> t.pings]
  <2>1. [t EXCEPT !.peers[i].refreshed = FALSE] =
          [t EXCEPT !.peers = [t.peers EXCEPT ![i] = [t.peers[i] EXCEPT !.refreshed = FALSE]]]
    OBVIOUS
  <2>2. [t EXCEPT !.peers = p] = [peers |-> p, pings |-> t.pings]
    <3> HIDE DEF p
    <3> QED BY FitTableIs
  <2> QED BY <1>2, <2>1, <2>2
<1> HIDE DEF s
<1>4. p \in Slots(MaxPeers)
  BY <1>2, FitTableIs DEF Slots
<1>5. \A j \in 1 .. MaxPeers : p[j] # Vacant => t.peers[j] # Vacant /\ p[j].info = t.peers[j].info
  BY <1>2, FitTableIs
<1> HIDE DEF p
<1>6. PeersFit(p)
  BY <1>4, <1>5, FitTableIs, ClearedFits
<1>7. t.pings \in Slots(MaxPings)
  BY FitTableIs
<1>8. [peers |-> p, pings |-> t.pings] \in FitTables
  BY <1>6, <1>7, FitTable
<1> QED BY <1>3, <1>8 DEF p, s

LEMMA ExpirePeerFits ==
  ASSUME NEW t \in FitTables, NEW i \in 1 .. MaxPeers PROVE ExpirePeer(t, i) \in FitTables
<1>1. CASE Stale(t.peers, i)
  <2>1. t.peers[i].info \in Infos
    BY <1>1, FitTableIs DEF Stale
  <2> QED BY <1>1, <2>1, VacatedFits, AddPingFits DEF ExpirePeer, MovedToPings
<1>2. CASE ~ Stale(t.peers, i) /\ t.peers[i] # Vacant
  BY <1>2, UnmarkedFits DEF ExpirePeer
<1>3. CASE ~ Stale(t.peers, i) /\ t.peers[i] = Vacant
  BY <1>3 DEF ExpirePeer
<1> QED BY <1>1, <1>2, <1>3

(***************************************************************************)
(* The loop of routing_expire_dht over the slots, and the loops of         *)
(* dht_process over the entries of a packet.                               *)
(***************************************************************************)
ExpireLoop(t, s) ==
  t = [i \in 0 .. MaxPeers |-> IF i = 0 THEN s ELSE ExpirePeer(t[i - 1], i)]

LEMMA ExpireLoops ==
  ASSUME NEW s \in FitTables
  PROVE  LET c == CHOOSE t : ExpireLoop(t, s)
         IN  /\ c[0] = s /\ \A i \in 0 .. MaxPeers : c[i] \in FitTables
             /\ \A i \in 1 .. MaxPeers : c[i] = ExpirePeer(c[i - 1], i)
<1> DEFINE n == MaxPeers
           Step(t, i) == IF i = 0 THEN s ELSE ExpirePeer(t[i - 1], i)
           c == CHOOSE t : ExpireLoop(t, s)
<1>1. n \in Nat
  BY TableSizes
<1>2. \A t : ExpireLoop(t, s) <=> t = [i \in 0 .. n |-> Step(t, i)]
  BY Zenon DEF ExpireLoop
<1>3. \A t : Step(t, 0) = s
  OBVIOUS
<1>4. \A t : \A i \in 1 .. n : Step(t, i) = ExpirePeer(t[i - 1], i)
  BY <1>1
<1> HIDE DEF Step, n
<1>5. \E f : ExpireLoop(f, s)
  <2> DEFINE g == [x \in FitTables \X (1 .. n) |-> ExpirePeer(x[1], x[2])]
  <2>1. g \in [FitTables \X (1 .. n) -> FitTables]
    BY ExpirePeerFits DEF n
  <2>2. \A t \in FitTables, i \in 1 .. n : g[<<t, i>>] = ExpirePeer(t, i)
    OBVIOUS
  <2> HIDE DEF g
  <2>3. PICK f : Iterates(f, FitTables, s, g, n)
    BY <1>1, <2>1, Iteration, Zenon
  <2>4. ASSUME NEW i \in 0 .. n PROVE f[i] = Step(f, i)
    <3>1. CASE i = 0
      BY <1>3, <2>3, <3>1 DEF Iterates
    <3>2. CASE i # 0
      <4>1. i \in 1 .. n /\ i - 1 \in 0 .. n
        BY <1>1, <3>2
      <4>2. f[i - 1] \in FitTables /\ f[i] = g[<<f[i - 1], i>>]
        BY <2>3, <4>1 DEF Iterates
      <4>3. g[<<f[i - 1], i>>] = Step(f, i)
        BY <1>4, <2>2, <4>1, <4>2, Zenon
      <4> QED BY <4>2, <4>3
    <3> QED BY <3>1, <3>2
  <2>5. f = [i \in 0 .. n |-> Step(f, i)]
    BY <2>3, <2>4 DEF Iterates
  <2> QED BY <1>2, <2>5
<1>6. ExpireLoop(c, s)
  BY <1>5
<1> HIDE DEF c
<1>7. \A i \in 0 .. n : c[i] = Step(c, i)
  <2>1. c = [i \in 0 .. n |-> Step(c, i)]
    BY <1>2, <1>6
  <2> QED BY <2>1
<1>8. c[0] = s /\ \A i \in 1 .. n : c[i] = ExpirePeer(c[i - 1], i)
  <2>1. 0 \in 0 .. n /\ \A i \in 1 .. n : i \in 0 .. n
    BY <1>1
  <2> QED BY <1>3, <1>4, <1>7, <2>1
<1>9. \A i \in 1 .. n : c[i - 1] \in FitTables => c[i] \in FitTables
  BY <1>8, ExpirePeerFits DEF n
<1>10. \A i \in 0 .. n : c[i] \in FitTables
  <2>1. c[0] \in FitTables
    BY <1>8
  <2> QED BY <1>1, <1>9, <2>1, IterationStays
<1> QED BY <1>8, <1>10 DEF n, c

SenderLoop(t, s, list) ==
  t = [i \in 0 .. Len(list) |-> IF i = 0 THEN s ELSE AddSender(t[i - 1], list[i])]
NodeLoop(t, s, list) ==
  t = [i \in 0 .. Len(list) |-> IF i = 0 THEN s ELSE AddNode(t[i - 1], list[i])]

LEMMA AddSenderFits ==
  ASSUME NEW t \in FitTables, NEW a \in Infos
  PROVE  AddSender(t, a) \in FitTables /\ AddNode(t, a) \in FitTables
BY AddDhtFits, AddPingFits DEF AddSender, AddNode

LEMMA SenderLoops ==
  ASSUME NEW s \in FitTables, NEW list \in Seq(Infos)
  PROVE  (CHOOSE t : SenderLoop(t, s, list))[Len(list)] \in FitTables
<1> DEFINE n == Len(list)
           Step(t, i) == IF i = 0 THEN s ELSE AddSender(t[i - 1], list[i])
           c == CHOOSE t : SenderLoop(t, s, list)
<1>1. n \in Nat /\ \A i \in 1 .. n : list[i] \in Infos
  OBVIOUS
<1>2. \A t : SenderLoop(t, s, list) <=> t = [i \in 0 .. n |-> Step(t, i)]
  BY Zenon DEF SenderLoop
<1>3. \A t : Step(t, 0) = s
  OBVIOUS
<1>4. \A t : \A i \in 1 .. n : Step(t, i) = AddSender(t[i - 1], list[i])
  BY <1>1
<1> HIDE DEF Step, n
<1>5. \E f : SenderLoop(f, s, list)
  <2> DEFINE g == [x \in FitTables \X (1 .. n) |-> AddSender(x[1], list[x[2]])]
  <2>1. g \in [FitTables \X (1 .. n) -> FitTables]
    BY <1>1, AddSenderFits
  <2>2. \A t \in FitTables, i \in 1 .. n : g[<<t, i>>] = AddSender(t, list[i])
    OBVIOUS
  <2> HIDE DEF g
  <2>3. PICK f : Iterates(f, FitTables, s, g, n)
    BY <1>1, <2>1, Iteration, Zenon
  <2>4. ASSUME NEW i \in 0 .. n PROVE f[i] = Step(f, i)
    <3>1. CASE i = 0
      BY <1>3, <2>3, <3>1 DEF Iterates
    <3>2. CASE i # 0
      <4>1. i \in 1 .. n /\ i - 1 \in 0 .. n
        BY <1>1, <3>2
      <4>2. f[i - 1] \in FitTables /\ f[i] = g[<<f[i - 1], i>>]
        BY <2>3, <4>1 DEF Iterates
      <4>3. g[<<f[i - 1], i>>] = Step(f, i)
        BY <1>4, <2>2, <4>1, <4>2, Zenon
      <4> QED BY <4>2, <4>3
    <3> QED BY <3>1, <3>2
  <2>5. f = [i \in 0 .. n |-> Step(f, i)]
    BY <2>3, <2>4 DEF Iterates
  <2> QED BY <1>2, <2>5
<1>6. SenderLoop(c, s, list)
  BY <1>5
<1> HIDE DEF c
<1>7. \A i \in 0 .. n : c[i] = Step(c, i)
  <2>1. c = [i \in 0 .. n |-> Step(c, i)]
    BY <1>2, <1>6
  <2> QED BY <2>1
<1>8. c[0] = s /\ \A i \in 1 .. n : c[i] = AddSender(c[i - 1], list[i])
  <2>1. 0 \in 0 .. n /\ \A i \in 1 .. n : i \in 0 .. n
    BY <1>1
  <2> QED BY <1>3, <1>4, <1>7, <2>1
<1>9. \A i \in 1 .. n : c[i - 1] \in FitTables => c[i] \in FitTables
  BY <1>1, <1>8, AddSenderFits
<1>10. \A i \in 0 .. n : c[i] \in FitTables
  <2>1. c[0] \in FitTables
    BY <1>8
  <2> QED BY <1>1, <1>9, <2>1, IterationStays
<1> QED BY <1>1, <1>10 DEF n, c
LEMMA NodeLoops ==
  ASSUME NEW s \in FitTables, NEW list \in Seq(Infos)
  PROVE  (CHOOSE t : NodeLoop(t, s, list))[Len(list)] \in FitTables
<1> DEFINE n == Len(list)
           Step(t, i) == IF i = 0 THEN s ELSE AddNode(t[i - 1], list[i])
           c == CHOOSE t : NodeLoop(t, s, list)
<1>1. n \in Nat /\ \A i \in 1 .. n : list[i] \in Infos
  OBVIOUS
<1>2. \A t : NodeLoop(t, s, list) <=> t = [i \in 0 .. n |-> Step(t, i)]
  BY Zenon DEF NodeLoop
<1>3. \A t : Step(t, 0) = s
  OBVIOUS
<1>4. \A t : \A i \in 1 .. n : Step(t, i) = AddNode(t[i - 1], list[i])
  BY <1>1
<1> HIDE DEF Step, n
<1>5. \E f : NodeLoop(f, s, list)
  <2> DEFINE g == [x \in FitTables \X (1 .. n) |-> AddNode(x[1], list[x[2]])]
  <2>1. g \in [FitTables \X (1 .. n) -> FitTables]
    BY <1>1, AddSenderFits
  <2>2. \A t \in FitTables, i \in 1 .. n : g[<<t, i>>] = AddNode(t, list[i])
    OBVIOUS
  <2> HIDE DEF g
  <2>3. PICK f : Iterates(f, FitTables, s, g, n)
    BY <1>1, <2>1, Iteration, Zenon
  <2>4. ASSUME NEW i \in 0 .. n PROVE f[i] = Step(f, i)
    <3>1. CASE i = 0
      BY <1>3, <2>3, <3>1 DEF Iterates
    <3>2. CASE i # 0
      <4>1. i \in 1 .. n /\ i - 1 \in 0 .. n
        BY <1>1, <3>2
      <4>2. f[i - 1] \in FitTables /\ f[i] = g[<<f[i - 1], i>>]
        BY <2>3, <4>1 DEF Iterates
      <4>3. g[<<f[i - 1], i>>] = Step(f, i)
        BY <1>4, <2>2, <4>1, <4>2, Zenon
      <4> QED BY <4>2, <4>3
    <3> QED BY <3>1, <3>2
  <2>5. f = [i \in 0 .. n |-> Step(f, i)]
    BY <2>3, <2>4 DEF Iterates
  <2> QED BY <1>2, <2>5
<1>6. NodeLoop(c, s, list)
  BY <1>5
<1> HIDE DEF c
<1>7. \A i \in 0 .. n : c[i] = Step(c, i)
  <2>1. c = [i \in 0 .. n |-> Step(c, i)]
    BY <1>2, <1>6
  <2> QED BY <2>1
<1>8. c[0] = s /\ \A i \in 1 .. n : c[i] = AddNode(c[i - 1], list[i])
  <2>1. 0 \in 0 .. n /\ \A i \in 1 .. n : i \in 0 .. n
    BY <1>1
  <2> QED BY <1>3, <1>4, <1>7, <2>1
<1>9. \A i \in 1 .. n : c[i - 1] \in FitTables => c[i] \in FitTables
  BY <1>1, <1>8, AddSenderFits
<1>10. \A i \in 0 .. n : c[i] \in FitTables
  <2>1. c[0] \in FitTables
    BY <1>8
  <2> QED BY <1>1, <1>9, <2>1, IterationStays
<1> QED BY <1>1, <1>10 DEF n, c

-----------------------------------------------------------------------------
LEMMA TablesAre == ASSUME RoutingInv PROVE [peers |-> peers, pings |-> pings] \in FitTables
BY FitTable DEF RoutingInv

LEMMA InvOf == ASSUME NEW t \in FitTables, peers' = t.peers, pings' = t.pings PROVE RoutingInv'
<1>1. PeersFit(t.peers) /\ t.pings \in Slots(MaxPings)
  BY FitTableIs
<1>2. PeersFit(peers') /\ pings' \in Slots(MaxPings)
  BY <1>1
<1> QED BY <1>2 DEF RoutingInv, PeersFit, InRows, OneSlot

LEMMA AgedFits == ASSUME NEW q \in Slots(MaxPings) PROVE Aged(q) \in Slots(MaxPings)
<1>1. ASSUME NEW i \in 1 .. MaxPings, q[i] # Vacant PROVE [q[i] EXCEPT !.refreshed = FALSE] \in Slot
  <2>1. q[i] \in [info : Infos, refreshed : BOOLEAN]
    BY <1>1 DEF Slots, Slot
  <2> QED BY <2>1, Unmarked DEF Slot
<1>2. DOMAIN q = 1 .. MaxPings
  BY DEF Slots
<1> QED BY <1>1, <1>2 DEF Aged, Slots

LEMMA ExpireSteps ==
  ASSUME RoutingInv, RoutingExpireDht
  PROVE  \E c : /\ c[0] = [peers |-> peers, pings |-> Aged(pings)]
                /\ \A i \in 0 .. MaxPeers : c[i] \in FitTables
                /\ \A i \in 1 .. MaxPeers : c[i] = ExpirePeer(c[i - 1], i)
                /\ peers' = c[MaxPeers].peers /\ pings' = c[MaxPeers].pings
<1> DEFINE s == [peers |-> peers, pings |-> Aged(pings)]
           c == CHOOSE t : ExpireLoop(t, s)
<1>1. s \in FitTables
  BY FitTable, AgedFits DEF RoutingInv
<1>2. peers' = c[MaxPeers].peers /\ pings' = c[MaxPeers].pings
  BY Zenon DEF RoutingExpireDht, ExpireLoop
<1> HIDE DEF s
<1>3. /\ c[0] = s /\ \A i \in 0 .. MaxPeers : c[i] \in FitTables
      /\ \A i \in 1 .. MaxPeers : c[i] = ExpirePeer(c[i - 1], i)
  BY <1>1, ExpireLoops
<1> HIDE DEF c
<1> QED BY <1>2, <1>3 DEF s

LEMMA DhtProcessFits ==
  ASSUME RoutingInv, NEW senders \in Seq(Infos), NEW nodes \in Seq(Infos), DhtProcess(senders, nodes)
  PROVE  RoutingInv'
<1> DEFINE s0 == [peers |-> peers, pings |-> pings]
           s == (CHOOSE t : SenderLoop(t, s0, senders))[Len(senders)]
           c == (CHOOSE t : NodeLoop(t, s, nodes))[Len(nodes)]
<1>1. s0 \in FitTables
  BY TablesAre
<1>2. peers' = c.peers /\ pings' = c.pings
  BY Zenon DEF DhtProcess, SenderLoop, NodeLoop
<1> HIDE DEF s0
<1>3. s \in FitTables
  BY <1>1, SenderLoops
<1> HIDE DEF s
<1>4. c \in FitTables
  BY <1>3, NodeLoops
<1> HIDE DEF c
<1> QED BY <1>2, <1>4, InvOf

LEMMA LoadFits == ASSUME RoutingInv, LoadPeers PROVE RoutingInv'
<1> DEFINE K == {pings[i] : i \in DOMAIN pings} \ {Vacant}
           file == Only(pings, K)
           p == [i \in DOMAIN peers |-> IF i \in {j \in DOMAIN peers : peers[j] # Vacant}
                                        THEN LoadPeer(peers[i]) ELSE Vacant]
           q == [i \in DOMAIN pings |-> IF i > Len(file) THEN Vacant ELSE LoadPeer(file[i])]
<1>1. peers' = p /\ pings' = q
  BY DEF LoadPeers, SavedPeers
<1>2. PeersFit(peers) /\ DOMAIN peers = 1 .. MaxPeers
      /\ \A i \in 1 .. MaxPeers : peers[i] # Vacant => peers[i].info \in Infos
  BY DEF RoutingInv, PeersFit, Slots, Slot
<1>3. DOMAIN pings = 1 .. MaxPings /\ \A i \in 1 .. MaxPings : pings[i] \in Slot \cup {Vacant}
  BY DEF RoutingInv, Slots
<1>4. K \subseteq Slot
  BY <1>3
<1>5. pings \in Seq(Slot \cup {Vacant})
  BY <1>3, TableSizes, IsASeq DEF RoutingInv, Slots
<1>6. file \in Seq((Slot \cup {Vacant}) \cap K)
  <2> HIDE DEF K
  <2>1. LeftOf(Only(pings, K), pings, K, Slot \cup {Vacant})
    BY <1>5, OnlyKeeps
  <2> QED BY <2>1 DEF LeftOf
<1>7. \A s \in Slot : LoadPeer(s) \in Slot /\ LoadPeer(s) # Vacant /\ LoadPeer(s).info = s.info
  BY FreshFits DEF LoadPeer, Slot
<1>8. q \in Slots(MaxPings)
  <2>1. \A i \in 1 .. MaxPings : ~ i > Len(file) => file[i] \in Slot
    <3>1. (Slot \cup {Vacant}) \cap K \subseteq Slot
      BY <1>4
    <3> HIDE DEF K, file
    <3>2. \A i \in 1 .. MaxPings : ~ i > Len(file) => i \in 1 .. Len(file)
      BY <1>6, TableSizes
    <3> QED BY <1>6, <3>1, <3>2
  <2> HIDE DEF file
  <2> QED BY <1>3, <1>7, <2>1 DEF Slots
<1>9. PeersFit(p)
  <2>0. \A i \in 1 .. MaxPeers : peers[i] # Vacant => peers[i] \in Slot
    BY DEF RoutingInv, PeersFit, Slots
  <2>1. p \in Slots(MaxPeers)
    BY <1>2, <1>7, <2>0 DEF Slots
  <2>2. \A i \in 1 .. MaxPeers : p[i] # Vacant => peers[i] # Vacant /\ p[i].info = peers[i].info
    BY <1>2, <1>7, <2>0
  <2> HIDE DEF p
  <2> QED BY <1>2, <2>1, <2>2, ClearedFits
<1> HIDE DEF p, q
<1>10. [peers |-> p, pings |-> q] \in FitTables
  BY <1>8, <1>9, FitTable
<1>11. peers' = [peers |-> p, pings |-> q].peers /\ pings' = [peers |-> p, pings |-> q].pings
  BY <1>1
<1> QED BY <1>10, <1>11, InvOf

LEMMA RoutingStart == RoutingInit => RoutingInv
<1> SUFFICES ASSUME RoutingInit PROVE RoutingInv
  OBVIOUS
<1>1. peers \in Slots(MaxPeers) /\ pings \in Slots(MaxPings)
  BY DEF RoutingInit, Slots
<1>2. \A i \in 1 .. MaxPeers : peers[i] = Vacant
  BY DEF RoutingInit
<1> QED BY <1>1, <1>2 DEF RoutingInv, PeersFit, InRows, OneSlot

LEMMA RoutingStep == RoutingInv /\ [RoutingNext]_tables => RoutingInv'
<1> SUFFICES ASSUME RoutingInv, [RoutingNext]_tables PROVE RoutingInv'
  OBVIOUS
<1>1. ASSUME NEW a \in Infos, NEW b \in Infos, DhtProcess(IF a = b THEN <<a>> ELSE <<a, b>>, <<>>)
      PROVE  RoutingInv'
  <2>1. (IF a = b THEN <<a>> ELSE <<a, b>>) \in Seq(Infos) /\ <<>> \in Seq(Infos)
    OBVIOUS
  <2> QED BY <1>1, <2>1, DhtProcessFits
<1>2. ASSUME NEW a \in Infos, NEW b \in Infos, DhtProcess(<<a>>, <<b>>) PROVE RoutingInv'
  <2>1. <<a>> \in Seq(Infos) /\ <<b>> \in Seq(Infos)
    OBVIOUS
  <2> QED BY <1>2, <2>1, DhtProcessFits
<1>3. CASE RoutingExpireDht
  <2>1. PICK c : /\ \A i \in 0 .. MaxPeers : c[i] \in FitTables
                 /\ peers' = c[MaxPeers].peers /\ pings' = c[MaxPeers].pings
    BY <1>3, ExpireSteps
  <2>2. c[MaxPeers] \in FitTables
    BY <2>1, TableSizes
  <2> QED BY <2>1, <2>2, InvOf
<1>4. CASE LoadPeers
  BY <1>4, LoadFits
<1>5. CASE UNCHANGED tables
  BY <1>5 DEF tables, RoutingInv, PeersFit, InRows, OneSlot
<1> QED BY <1>1, <1>2, <1>3, <1>4, <1>5 DEF RoutingNext

-----------------------------------------------------------------------------
(***************************************************************************)
(* routing_top_dht_matches, for an address d of which m bits are those of  *)
(* the own address: no peer of the rows above is closer, and in row m      *)
(* there are no more peers than the list has room for.                     *)
(***************************************************************************)
SlotAt(k) == SearchOrder[k]
Closer(d, i) ==
  peers[i] # Vacant /\ MatchingBits(d, peers[i].info.dest) > MatchingBits(d, MyAddress)
Listed(list, x) == \E j \in DOMAIN list : list[j].dest = x

LEMMA Divided ==
  ASSUME NEW n \in Nat, n > 0, NEW r \in Nat, NEW c \in 0 .. n - 1
  PROVE  (r * n + c) \div n = r /\ (r * n + c) % n = c
<1> DEFINE x == r * n + c
           q == x \div n
           e == x % n
<1>1. x \in Nat /\ r * n \in Nat
  OBVIOUS
<1>2. q \in Nat /\ e \in 0 .. n - 1 /\ x = n * q + e
  <2> HIDE DEF x
  <2> QED BY <1>1
<1>3. x = n * r + c
  OBVIOUS
<1> HIDE DEF x, q, e
<1>4. n * q - n * r < n /\ n * r - n * q < n
  BY <1>2, <1>3
<1>5. q = r
  BY <1>2, <1>4
<1>6. e = c
  BY <1>2, <1>3, <1>5
<1> QED BY <1>5, <1>6 DEF q, e, x

\* The slots in the order of the search: slot c of row r.
LEMMA SearchSlot ==
  ASSUME NEW r \in 0 .. AddressBits - 1, NEW c \in 1 .. PeersPerBit
  PROVE  LET k == (AddressBits - 1 - r) * PeersPerBit + c
         IN  k \in 1 .. MaxPeers /\ SlotAt(k) = r * PeersPerBit + c
<1> DEFINE n == PeersPerBit
           u == AddressBits - 1 - r
           k == u * n + c
<1>1. n \in Nat /\ n > 0 /\ u \in Nat /\ u + 1 <= AddressBits /\ AddressBits \in Nat /\ c \in Nat /\ r \in Nat
      /\ c >= 1 /\ c <= n
  BY TableSizes
<1>2. AddressBits - 1 - u = r
  BY <1>1
<1> HIDE DEF n, u
<1>3. u * n \in Nat /\ (u + 1) * n <= AddressBits * n /\ (u + 1) * n = u * n + n
  BY <1>1
<1>4. k \in 1 .. AddressBits * n
  BY <1>1, <1>3
<1>5. k - 1 = u * n + (c - 1) /\ c - 1 \in 0 .. n - 1
  BY <1>1, <1>3
<1>6. (k - 1) \div n = u /\ (k - 1) % n = c - 1
  BY <1>1, <1>5, Divided
<1>7. SearchOrder[k] = (AddressBits - 1 - ((k - 1) \div n)) * n + ((k - 1) % n) + 1
  BY <1>4 DEF SearchOrder, Rows, n
<1>8. SearchOrder[k] = r * n + (c - 1) + 1
  BY <1>2, <1>6, <1>7
<1>9. r * n + (c - 1) + 1 = r * n + c
  BY <1>1
<1> QED BY <1>4, <1>8, <1>9 DEF MaxPeers, SlotAt, n, u

\* Every step of the search is at a slot of some row.
LEMMA SearchStep ==
  ASSUME NEW k \in 1 .. MaxPeers
  PROVE  \E r \in 0 .. AddressBits - 1, c \in 1 .. PeersPerBit :
           k = (AddressBits - 1 - r) * PeersPerBit + c
<1> DEFINE n == PeersPerBit
           u == (k - 1) \div n
           c == ((k - 1) % n) + 1
<1>1. n \in Nat /\ n > 0 /\ AddressBits \in Nat /\ AddressBits > 0 /\ k - 1 \in Nat
      /\ k <= AddressBits * n /\ k \in Nat
  BY TableSizes DEF MaxPeers
<1> HIDE DEF n
<1>2. u \in Nat /\ c \in 1 .. n /\ k - 1 = n * u + (c - 1)
  BY <1>1
<1> HIDE DEF u, c
<1>3. k = u * n + c
  BY <1>1, <1>2
<1>4. u < AddressBits
  <2> SUFFICES ASSUME u >= AddressBits PROVE FALSE
    BY <1>1, <1>2
  <2>1. u * n >= AddressBits * n
    BY <1>1, <1>2
  <2> QED BY <1>1, <1>2, <1>3, <2>1
<1>5. AddressBits - 1 - u \in 0 .. AddressBits - 1 /\ AddressBits - 1 - (AddressBits - 1 - u) = u
  BY <1>1, <1>2, <1>4
<1> QED BY <1>2, <1>3, <1>5 DEF n

\* A peer in slot c of row r shares r bits with the own address.
LEMMA RowOfSlot ==
  ASSUME RoutingInv, NEW r \in 0 .. AddressBits - 1, NEW c \in 1 .. PeersPerBit,
         r * PeersPerBit + c \in 1 .. MaxPeers, peers[r * PeersPerBit + c] # Vacant
  PROVE  MatchingBits(peers[r * PeersPerBit + c].info.dest, MyAddress) = r
<1> DEFINE i == r * PeersPerBit + c
           m == MatchingBits(peers[i].info.dest, MyAddress)
           n == PeersPerBit
<1>1. InRow(peers[i].info, i)
  BY DEF RoutingInv, PeersFit, InRows
<1>2. m \in Nat
  BY MatchingIs, TableSizes
<1>3. m * n < r * n + c /\ r * n + c <= m * n + n
  BY <1>1 DEF InRow, Row
<1>4. n \in Nat /\ n > 0 /\ r \in Nat /\ c \in 1 .. n
  BY TableSizes
<1> HIDE DEF i, m, n
<1>5. m = r
  BY <1>2, <1>3, <1>4
<1> QED BY <1>5 DEF m, i

LEMMA SlotInTable ==
  ASSUME NEW k \in 1 .. MaxPeers PROVE SlotAt(k) \in 1 .. MaxPeers
<1>1. PICK r \in 0 .. AddressBits - 1, e \in 1 .. PeersPerBit :
        k = (AddressBits - 1 - r) * PeersPerBit + e
  BY SearchStep
<1>2. SlotAt(k) = r * PeersPerBit + e
  BY <1>1, SearchSlot
<1> DEFINE u == AddressBits - 1 - r
<1>3. u \in 0 .. AddressBits - 1 /\ AddressBits - 1 - u = r
  BY TableSizes
<1>4. (AddressBits - 1 - u) * PeersPerBit + e \in 1 .. MaxPeers
  BY <1>3, SearchSlot
<1> QED BY <1>2, <1>3, <1>4

Take(d, list, i) ==
  IF /\ Len(list) < PeersPerBit /\ peers[i] # Vacant
     /\ AddrCloser(d, AddressBits, peers[i].info.dest)
     /\ \A k \in DOMAIN list : list[k].dest # peers[i].info.dest
  THEN Append(list, peers[i].info) ELSE list
TakeLoop(f, d) ==
  f = [k \in 0 .. Rows * PeersPerBit |-> IF k = 0 THEN <<>> ELSE Take(d, f[k - 1], SearchOrder[k])]

LEMMA CloserIs ==
  ASSUME NEW d, NEW x
  PROVE  AddrCloser(d, AddressBits, x) <=>
           MatchingBits(d, MyAddress) < MatchingBits(d, x) \/ MatchingBits(d, x) = AddressBits
<1>1. ASSUME NEW y PROVE Matched(d, AddressBits, y) = MatchingBits(d, y)
  <2> DEFINE m == MatchingBits(d, y)
             S == {AddressBits, m}
  <2>1. m \in Nat /\ m <= AddressBits /\ AddressBits \in Nat
    BY MatchingIs, TableSizes
  <2> HIDE DEF m
  <2>2. S \in SUBSET Nat /\ S # {}
    BY <2>1
  <2>3. Min(S) \in S /\ \A k \in S : Min(S) <= k
    <3> HIDE DEF S
    <3> QED BY <2>2, LeastOf
  <2>4. Min(S) = m
    BY <2>1, <2>3
  <2> QED BY <2>4 DEF Matched, m
<1> QED BY <1>1 DEF AddrCloser

LEMMA TakeIs ==
  ASSUME RoutingInv, NEW d, NEW list \in Seq(Infos), NEW i \in 1 .. MaxPeers
  PROVE  /\ Take(d, list, i) \in Seq(Infos) /\ Len(Take(d, list, i)) <= Len(list) + 1
         /\ \A x : Listed(list, x) => Listed(Take(d, list, i), x)
         /\ Closer(d, i) /\ Len(list) < PeersPerBit => Listed(Take(d, list, i), peers[i].info.dest)
<1> DEFINE a == peers[i].info
           new == Append(list, a)
<1>1. Take(d, list, i) = list \/ (Take(d, list, i) = new /\ peers[i] # Vacant)
  BY DEF Take
<1>2. peers[i] # Vacant => a \in Infos
  BY DEF RoutingInv, PeersFit, Slots, Slot
<1>3. ASSUME a \in Infos
      PROVE  /\ new \in Seq(Infos) /\ Len(new) = Len(list) + 1
             /\ \A j \in DOMAIN list : j \in DOMAIN new /\ new[j] = list[j]
             /\ Len(list) + 1 \in DOMAIN new /\ new[Len(list) + 1] = a
  <2> HIDE DEF a
  <2> QED BY <1>3
<1>4. Len(list) \in Nat
  OBVIOUS
<1>5. ASSUME Closer(d, i), Len(list) < PeersPerBit
      PROVE  Take(d, list, i) = new \/ Listed(list, peers[i].info.dest)
  <2>1. AddrCloser(d, AddressBits, peers[i].info.dest) /\ peers[i] # Vacant
    <3>1. MatchingBits(d, MyAddress) < MatchingBits(d, peers[i].info.dest)
      BY <1>5, MatchingIs, TableSizes DEF Closer
    <3> QED BY <1>5, <3>1, CloserIs DEF Closer
  <2> QED BY <1>5, <2>1 DEF Take, Listed
<1> HIDE DEF new
<1>6. CASE Take(d, list, i) = list
  <2>1. Closer(d, i) /\ Len(list) < PeersPerBit => Listed(list, peers[i].info.dest)
    <3> SUFFICES ASSUME Closer(d, i), Len(list) < PeersPerBit, list = new PROVE FALSE
      BY <1>5, <1>6
    <3> QED BY <1>2, <1>3, <1>4 DEF Closer
  <2> QED BY <1>4, <1>6, <2>1
<1>7. CASE Take(d, list, i) = new /\ peers[i] # Vacant
  BY <1>2, <1>3, <1>4, <1>7 DEF Listed, a
<1> QED BY <1>1, <1>6, <1>7

LEMMA TakeNone ==
  ASSUME RoutingInv, NEW d, NEW list, NEW i \in 1 .. MaxPeers,
         MatchingBits(d, MyAddress) < AddressBits,
         peers[i] # Vacant => MatchingBits(peers[i].info.dest, MyAddress) > MatchingBits(d, MyAddress)
  PROVE  Take(d, list, i) = list
<1> SUFFICES ASSUME peers[i] # Vacant PROVE ~ AddrCloser(d, AddressBits, peers[i].info.dest)
  BY DEF Take
<1>1. MatchingBits(d, peers[i].info.dest) = MatchingBits(d, MyAddress)
  BY FartherIsNoCloser
<1>2. MatchingBits(d, MyAddress) \in Nat
  BY MatchingIs, TableSizes
<1> QED BY <1>1, <1>2, CloserIs

LEMMA TakeLoops ==
  ASSUME RoutingInv, NEW d
  PROVE  LET f == CHOOSE t : TakeLoop(t, d)
         IN  /\ f[0] = <<>> /\ \A k \in 0 .. MaxPeers : f[k] \in Seq(Infos)
             /\ \A k \in 1 .. MaxPeers : f[k] = Take(d, f[k - 1], SlotAt(k))
<1> DEFINE n == MaxPeers
           Step(t, k) == IF k = 0 THEN <<>> ELSE Take(d, t[k - 1], SearchOrder[k])
           c == CHOOSE t : TakeLoop(t, d)
<1>1. n \in Nat /\ \A k \in 1 .. n : SlotAt(k) \in 1 .. MaxPeers
  BY SlotInTable, TableSizes
<1>2. \A t : TakeLoop(t, d) <=> t = [k \in 0 .. n |-> Step(t, k)]
  BY Zenon DEF TakeLoop, MaxPeers, Rows
<1>3. \A t : Step(t, 0) = <<>>
  OBVIOUS
<1>4. \A t : \A k \in 1 .. n : Step(t, k) = Take(d, t[k - 1], SlotAt(k))
  BY <1>1 DEF SlotAt
<1> HIDE DEF Step
<1>5. \E f : TakeLoop(f, d)
  <2> DEFINE g == [x \in Seq(Infos) \X (1 .. n) |-> Take(d, x[1], SlotAt(x[2]))]
  <2>1. g \in [Seq(Infos) \X (1 .. n) -> Seq(Infos)]
    <3>1. \A s \in Seq(Infos), k \in 1 .. n : Take(d, s, SlotAt(k)) \in Seq(Infos)
      BY <1>1, TakeIs
    <3> HIDE DEF n
    <3> QED BY <3>1
  <2>2. \A t \in Seq(Infos), k \in 1 .. n : g[<<t, k>>] = Take(d, t, SlotAt(k))
    OBVIOUS
  <2>3. <<>> \in Seq(Infos)
    OBVIOUS
  <2> HIDE DEF g, n
  <2>4. PICK f : Iterates(f, Seq(Infos), <<>>, g, n)
    BY <1>1, <2>1, <2>3, Iteration, Zenon
  <2>5. ASSUME NEW k \in 0 .. n PROVE f[k] = Step(f, k)
    <3>1. CASE k = 0
      BY <1>3, <2>4, <3>1 DEF Iterates
    <3>2. CASE k # 0
      <4>1. k \in 1 .. n /\ k - 1 \in 0 .. n
        BY <1>1, <3>2
      <4>2. f[k - 1] \in Seq(Infos) /\ f[k] = g[<<f[k - 1], k>>]
        BY <2>4, <4>1 DEF Iterates
      <4>3. g[<<f[k - 1], k>>] = Step(f, k)
        BY <1>4, <2>2, <4>1, <4>2, Zenon
      <4> QED BY <4>2, <4>3
    <3> QED BY <3>1, <3>2
  <2>6. f = [k \in 0 .. n |-> Step(f, k)]
    BY <2>4, <2>5 DEF Iterates
  <2> QED BY <1>2, <2>6
<1>6. TakeLoop(c, d)
  BY <1>5
<1> HIDE DEF c, n
<1>7. \A k \in 0 .. n : c[k] = Step(c, k)
  <2>1. c = [k \in 0 .. n |-> Step(c, k)]
    BY <1>2, <1>6
  <2> QED BY <2>1
<1>8. c[0] = <<>> /\ \A k \in 1 .. n : c[k] = Take(d, c[k - 1], SlotAt(k))
  <2>1. 0 \in 0 .. n /\ \A k \in 1 .. n : k \in 0 .. n
    BY <1>1
  <2> QED BY <1>3, <1>4, <1>7, <2>1
<1>9. \A k \in 1 .. n : c[k - 1] \in Seq(Infos) => c[k] \in Seq(Infos)
  BY <1>1, <1>8, TakeIs
<1>10. \A k \in 0 .. n : c[k] \in Seq(Infos)
  <2>1. c[0] \in Seq(Infos)
    BY <1>8
  <2> HIDE DEF Step
  <2> QED BY <1>1, <1>9, <2>1, IterationStays
<1> QED BY <1>8, <1>10 DEF n, c

LEMMA CloserListed ==
  ASSUME RoutingInv, NEW d, NEW i \in 1 .. MaxPeers, Closer(d, i)
  PROVE  Listed(RoutingTopDhtMatches(d, AddressBits, PeersPerBit), peers[i].info.dest)
<1> DEFINE m == MatchingBits(d, MyAddress)
           n == PeersPerBit
           before == (AddressBits - 1 - m) * n
           f == CHOOSE t : TakeLoop(t, d)
           x == peers[i].info.dest
<1>1. /\ f[0] = <<>> /\ \A k \in 0 .. MaxPeers : f[k] \in Seq(Infos)
      /\ \A k \in 1 .. MaxPeers : f[k] = Take(d, f[k - 1], SlotAt(k))
  BY TakeLoops
<1>2. RoutingTopDhtMatches(d, AddressBits, PeersPerBit) = f[MaxPeers]
  BY Zenon DEF RoutingTopDhtMatches, TakeLoop, Take, MaxPeers, Rows
<1> HIDE DEF f
<1>3. peers[i] # Vacant /\ MatchingBits(x, MyAddress) = m /\ m < AddressBits
  BY CloserSharesRow DEF Closer
<1>4. m \in 0 .. AddressBits - 1 /\ n \in Nat /\ n > 0 /\ AddressBits \in Nat /\ MaxPeers \in Nat
  BY <1>3, MatchingIs, TableSizes
<1>5. PICK c \in 1 .. n : i = m * n + c
  <2>1. m * n < i /\ i <= m * n + n
    BY <1>3 DEF RoutingInv, PeersFit, InRows, InRow, Row
  <2>2. m * n \in Nat
    BY <1>4
  <2>3. i - m * n \in 1 .. n /\ i = m * n + (i - m * n)
    <3> HIDE DEF m, n
    <3> QED BY <1>4, <2>1, <2>2
  <2> QED BY <2>3
<1>6. before \in Nat
  <2> DEFINE u == AddressBits - 1 - m
  <2>1. u \in Nat
    BY <1>4
  <2> HIDE DEF u, n
  <2> QED BY <1>4, <2>1 DEF u
<1>7. \A e \in 1 .. n : before + e \in 1 .. MaxPeers /\ SlotAt(before + e) = m * n + e
  BY <1>4, SearchSlot
<1>8. \A k \in 1 .. MaxPeers : k <= before => Take(d, f[k - 1], SlotAt(k)) = f[k - 1]
  <2> SUFFICES ASSUME NEW k \in 1 .. MaxPeers, k <= before
               PROVE  Take(d, f[k - 1], SlotAt(k)) = f[k - 1]
    OBVIOUS
  <2>1. PICK r \in 0 .. AddressBits - 1, e \in 1 .. PeersPerBit :
          k = (AddressBits - 1 - r) * PeersPerBit + e
    BY SearchStep
  <2>2. SlotAt(k) = r * PeersPerBit + e /\ SlotAt(k) \in 1 .. MaxPeers
    BY <2>1, SearchSlot, SlotInTable
  <2>3. r > m
    <3> DEFINE u == AddressBits - 1 - r  v == AddressBits - 1 - m
    <3>1. u \in Nat /\ v \in Nat /\ u * n + e <= v * n /\ e >= 1 /\ e \in Nat
      BY <1>4, <2>1
    <3>2. u < v
      <4> HIDE DEF u, v, n
      <4>1. u * n < v * n
        BY <1>4, <3>1
      <4> SUFFICES ASSUME u >= v PROVE FALSE
        BY <3>1
      <4>2. u * n >= v * n
        BY <1>4, <3>1
      <4> QED BY <1>4, <3>1, <4>1, <4>2
    <3> HIDE DEF m
    <3> QED BY <1>4, <3>2
  <2>4. peers[SlotAt(k)] # Vacant => MatchingBits(peers[SlotAt(k)].info.dest, MyAddress) > m
    BY <2>2, <2>3, RowOfSlot
  <2> HIDE DEF m
  <2> QED BY <1>3, <2>2, <2>4, TakeNone DEF m
<1> HIDE DEF m, n, before, x
<1>9. \A k \in Nat : k <= before /\ k <= MaxPeers => f[k] = <<>>
  <2> DEFINE D == {k \in Nat : k <= before /\ k <= MaxPeers => f[k] = <<>>}
  <2>1. 0 \in D
    BY <1>1
  <2>2. ASSUME NEW k \in D PROVE k + 1 \in D
    <3> SUFFICES ASSUME k + 1 <= before, k + 1 <= MaxPeers PROVE f[k + 1] = <<>>
      OBVIOUS
    <3>1. f[k] = <<>> /\ k + 1 \in 1 .. MaxPeers /\ (k + 1) - 1 = k
      BY <1>4, <1>6
    <3> QED BY <1>1, <1>8, <3>1
  <2> HIDE DEF D
  <2>3. D = Nat
    <3>1. D \in SUBSET Nat
      BY DEF D
    <3> QED BY <2>1, <2>2, <3>1, Induction
  <2> QED BY <2>3 DEF D
<1>10. \A e \in Nat : e <= n => Len(f[before + e]) <= e
  <2> DEFINE D == {e \in Nat : e <= n => Len(f[before + e]) <= e}
  <2>1. 0 \in D
    <3>1. before <= MaxPeers
      <4>1. before + 1 \in 1 .. MaxPeers
        BY <1>4, <1>7
      <4> QED BY <1>4, <1>6, <4>1
    <3>2. f[before] = <<>> /\ before + 0 = before
      BY <1>6, <1>9, <3>1
    <3>3. Len(f[before + 0]) <= 0
      BY <3>2
    <3> QED BY <3>3
  <2>2. ASSUME NEW e \in D PROVE e + 1 \in D
    <3> SUFFICES ASSUME e + 1 <= n PROVE Len(f[before + (e + 1)]) <= e + 1
      OBVIOUS
    <3>1. e \in Nat /\ Len(f[before + e]) <= e /\ e + 1 \in 1 .. n
      BY <1>4
    <3> HIDE DEF D
    <3> DEFINE k == before + (e + 1)
    <3>2. k \in 1 .. MaxPeers /\ k - 1 = before + e /\ k - 1 \in 0 .. MaxPeers
      BY <1>4, <1>6, <1>7, <3>1
    <3> HIDE DEF k
    <3>3. f[k] = Take(d, f[k - 1], SlotAt(k)) /\ f[k - 1] \in Seq(Infos) /\ SlotAt(k) \in 1 .. MaxPeers
          /\ f[k] \in Seq(Infos)
      <4>1. k \in 0 .. MaxPeers
        BY <1>4, <3>2
      <4> QED BY <1>1, <3>2, <4>1, SlotInTable
    <3>4. Len(f[k]) <= Len(f[k - 1]) + 1
      BY <3>3, TakeIs
    <3>5. Len(f[k - 1]) \in Nat /\ Len(f[k]) \in Nat
      BY <3>3
    <3>6. Len(f[k]) <= e + 1
      BY <3>1, <3>2, <3>4, <3>5
    <3> QED BY <3>6 DEF k
  <2> HIDE DEF D
  <2>3. D = Nat
    <3>1. D \in SUBSET Nat
      BY DEF D
    <3> QED BY <2>1, <2>2, <3>1, Induction
  <2> QED BY <2>3 DEF D
<1> DEFINE at == before + c
<1>11. at \in 1 .. MaxPeers /\ SlotAt(at) = i /\ at - 1 = before + (c - 1) /\ at - 1 \in 0 .. MaxPeers
  BY <1>4, <1>5, <1>6, <1>7
<1>12. Listed(f[at], x)
  <2>1. Len(f[at - 1]) <= c - 1 /\ c - 1 < n
    BY <1>4, <1>5, <1>10, <1>11
  <2>2. Len(f[at - 1]) < PeersPerBit
    <3>1. Len(f[at - 1]) \in Nat
      <4>1. f[at - 1] \in Seq(Infos)
        BY <1>1, <1>11
      <4> QED BY <4>1
    <3> QED BY <1>4, <1>5, <2>1, <3>1 DEF n
  <2> HIDE DEF at
  <2>3. f[at] = Take(d, f[at - 1], i) /\ f[at - 1] \in Seq(Infos)
    BY <1>1, <1>11
  <2> QED BY <2>2, <2>3, TakeIs DEF x
<1>13. \A k \in Nat : k >= at /\ k <= MaxPeers => Listed(f[k], x)
  <2> HIDE DEF at
  <2> DEFINE D == {k \in Nat : k >= at /\ k <= MaxPeers => Listed(f[k], x)}
  <2>1. 0 \in D
    BY <1>11
  <2>2. ASSUME NEW k \in D PROVE k + 1 \in D
    <3> SUFFICES ASSUME k + 1 >= at, k + 1 <= MaxPeers PROVE Listed(f[k + 1], x)
      OBVIOUS
    <3>1. CASE k + 1 = at
      BY <1>12, <3>1
    <3>2. CASE k + 1 # at
      <4>1. k \in Nat /\ k >= at /\ k <= MaxPeers /\ k + 1 \in 1 .. MaxPeers /\ (k + 1) - 1 = k /\ k \in 0 .. MaxPeers
        BY <1>4, <1>11, <3>2
      <4>2. Listed(f[k], x)
        BY <4>1
      <4> HIDE DEF D
      <4>3. f[k + 1] = Take(d, f[k], SlotAt(k + 1)) /\ f[k] \in Seq(Infos) /\ SlotAt(k + 1) \in 1 .. MaxPeers
        BY <1>1, <4>1, SlotInTable
      <4> QED BY <4>2, <4>3, TakeIs
    <3> QED BY <3>1, <3>2
  <2> HIDE DEF D
  <2>3. D = Nat
    <3>1. D \in SUBSET Nat
      BY DEF D
    <3> QED BY <2>1, <2>2, <3>1, Induction
  <2> QED BY <2>3 DEF D
<1>14. Listed(f[MaxPeers], x)
  BY <1>4, <1>11, <1>13
<1> QED BY <1>2, <1>14 DEF x

(* (routing_top_dht_matches) A message that goes to as many addresses as a row has *)
(* slots goes to every peer that is closer to its destination than this system,    *)
(* for any table, addresses and packets.                                           *)
THEOREM CloserAlwaysFound == RoutingSpec => []CloserPeersFound
<1>1. RoutingInv => CloserPeersFound
  BY CloserListed DEF CloserPeersFound, Closer, Listed
<1> QED BY <1>1, RoutingStart, RoutingStep, PTL DEF RoutingSpec

-----------------------------------------------------------------------------
(***************************************************************************)
(* routing_expire_dht: the n-th silent peer that is moved is the n-th ping *)
(* at most, when all have been moved.                                      *)
(***************************************************************************)
PingWithin(q, n, x) == \E j \in 1 .. MaxPings : j <= n /\ q[j] # Vacant /\ q[j].info.dest = x
Silent == {i \in 1 .. MaxPeers : Stale(peers, i)}
SilentTo(k) == {i \in Silent : i <= k}
SharesIp(i) == \E j \in 1 .. MaxPeers \ {i} : peers[j] # Vacant /\ peers[j].info.ip = peers[i].info.ip

LEMMA PingMoves ==
  ASSUME NEW t \in FitTables, NEW a \in Infos, NEW n \in Nat, n + 1 <= MaxPings,
         FindPeer(t, a) \cup FindIp(t, a) = {}
  PROVE  LET u == RoutingAddPing(t, a)
         IN  /\ PingWithin(u.pings, n + 1, a.dest)
             /\ \A x : PingWithin(t.pings, n, x) => PingWithin(u.pings, n + 1, x)
<1> DEFINE S == FindPing(t, a)
           last == IF S = {} THEN MaxPings ELSE Min(S)
           q == InFront(t.pings, 1, last, a)
<1>1. RoutingAddPing(t, a).pings = q
  <2>1. RoutingAddPing(t, a) = [t EXCEPT !.pings = q]
    BY DEF RoutingAddPing
  <2>2. [t EXCEPT !.pings = q] = [peers |-> t.peers, pings |-> q]
    <3> HIDE DEF q
    <3> QED BY FitTableIs
  <2> HIDE DEF q
  <2> QED BY <2>1, <2>2
<1>2. DOMAIN t.pings = 1 .. MaxPings /\ MaxPings \in Nat /\ MaxPings > 0
  BY FitTableIs, TableSizes
<1>3. S = {i \in 1 .. MaxPings : t.pings[i] # Vacant /\ a.dest = t.pings[i].info.dest}
  BY <1>2 DEF FindPing, SlotsWith
<1>4. last \in 1 .. MaxPings /\ (last # MaxPings => t.pings[last].info.dest = a.dest)
  <2>1. CASE S = {}
    BY <1>2, <2>1
  <2>2. CASE S # {}
    <3>1. S \in SUBSET Nat
      BY <1>3, <1>2
    <3>2. Min(S) \in S
      <4> HIDE DEF S
      <4> QED BY <2>2, <3>1, LeastOf
    <3> QED BY <1>3, <2>2, <3>2
  <2> QED BY <2>1, <2>2
<1> HIDE DEF last
<1>5. \A i \in 1 .. MaxPings : q[i] = IF i = 1 THEN Fresh(a) ELSE IF i > 1 /\ i <= last THEN t.pings[i - 1]
                                       ELSE t.pings[i]
  BY <1>2 DEF InFront
<1> HIDE DEF q, S
<1>6. PingWithin(q, n + 1, a.dest)
  <2>1. 1 \in 1 .. MaxPings /\ 1 <= n + 1 /\ q[1] = Fresh(a)
    BY <1>2, <1>5
  <2> QED BY <2>1, FreshFits DEF PingWithin
<1>7. ASSUME NEW x, PingWithin(t.pings, n, x) PROVE PingWithin(q, n + 1, x)
  <2>1. PICK j \in 1 .. MaxPings : j <= n /\ t.pings[j] # Vacant /\ t.pings[j].info.dest = x
    BY <1>7 DEF PingWithin
  <2>2. CASE j < last
    <3>1. j + 1 \in 1 .. MaxPings /\ j + 1 <= n + 1 /\ q[j + 1] = t.pings[j]
      BY <1>2, <1>4, <1>5, <2>1, <2>2
    <3> QED BY <2>1, <3>1 DEF PingWithin
  <2>3. CASE j > last
    <3>1. j <= n + 1 /\ q[j] = t.pings[j]
      BY <1>2, <1>4, <1>5, <2>1, <2>3
    <3> QED BY <2>1, <3>1 DEF PingWithin
  <2>4. CASE j = last
    <3>1. x = a.dest
      BY <1>2, <1>4, <2>1, <2>4
    <3> QED BY <1>6, <3>1
  <2> QED BY <1>2, <1>4, <2>2, <2>3, <2>4
<1> QED BY <1>1, <1>6, <1>7

\* After k slots the others are as they were, and the silent peers are pings.
ExpiredTo(t, k) ==
  /\ \A j \in 1 .. MaxPeers : j > k => t.peers[j] = peers[j]
  /\ \A j \in 1 .. MaxPeers : t.peers[j] # Vacant => peers[j] # Vacant /\ t.peers[j].info = peers[j].info
  /\ \A i \in SilentTo(k) :
       SharesIp(i) \/ PingWithin(t.pings, Cardinality(SilentTo(k)), peers[i].info.dest)

LEMMA SilentCounted ==
  ASSUME NEW k \in Nat
  PROVE  /\ IsFiniteSet(SilentTo(k)) /\ Cardinality(SilentTo(k)) \in Nat
         /\ IsFiniteSet(Silent) /\ Cardinality(SilentTo(k)) <= Cardinality(Silent)
         /\ k + 1 \notin Silent => SilentTo(k + 1) = SilentTo(k)
         /\ k + 1 \in Silent => /\ SilentTo(k + 1) = SilentTo(k) \cup {k + 1}
                                /\ Cardinality(SilentTo(k + 1)) = Cardinality(SilentTo(k)) + 1
<1>1. IsFiniteSet(1 .. MaxPeers)
  BY TableSizes, FS_Interval
<1>2. Silent \subseteq 1 .. MaxPeers /\ SilentTo(k) \subseteq Silent
  BY DEF Silent, SilentTo
<1>3. IsFiniteSet(Silent)
  BY <1>1, <1>2, FS_Subset
<1>4. IsFiniteSet(SilentTo(k)) /\ Cardinality(SilentTo(k)) <= Cardinality(Silent)
  BY <1>2, <1>3, FS_Subset
<1>5. Cardinality(SilentTo(k)) \in Nat
  BY <1>4, FS_CardinalityType
<1>6. \A i \in Silent : i \in Nat
  BY <1>2, TableSizes
<1>7. k + 1 \notin Silent => SilentTo(k + 1) = SilentTo(k)
  BY <1>6 DEF SilentTo
<1>8. ASSUME k + 1 \in Silent
      PROVE  SilentTo(k + 1) = SilentTo(k) \cup {k + 1} /\ k + 1 \notin SilentTo(k)
  BY <1>6, <1>8 DEF SilentTo
<1>9. k + 1 \in Silent => Cardinality(SilentTo(k + 1)) = Cardinality(SilentTo(k)) + 1
  BY <1>4, <1>8, FS_AddElement
<1> QED BY <1>3, <1>4, <1>5, <1>7, <1>8, <1>9

LEMMA ExpireOne ==
  ASSUME RoutingInv, NEW t \in FitTables, NEW k \in Nat, k + 1 \in 1 .. MaxPeers, ExpiredTo(t, k),
         Cardinality(Silent) <= MaxPings
  PROVE  ExpiredTo(ExpirePeer(t, k + 1), k + 1)
<1> DEFINE i == k + 1
           u == ExpirePeer(t, i)
           n == Cardinality(SilentTo(k))
<1>1. t.peers[i] = peers[i] /\ (Stale(t.peers, i) <=> i \in Silent) /\ i \in 1 .. MaxPeers
  BY DEF ExpiredTo, Stale, Silent
<1>2. n \in Nat
  BY SilentCounted
<1>3. CASE i \notin Silent
  <2>1. SilentTo(i) = SilentTo(k)
    BY <1>3, SilentCounted
  <2>2. u.pings = t.pings /\ \A j \in 1 .. MaxPeers :
          /\ j # i => u.peers[j] = t.peers[j]
          /\ u.peers[j] # Vacant => t.peers[j] # Vacant /\ u.peers[j].info = t.peers[j].info
    <3>1. CASE t.peers[i] = Vacant
      BY <1>1, <1>3, <3>1 DEF ExpirePeer
    <3>2. CASE t.peers[i] # Vacant
      <4> DEFINE p == [t.peers EXCEPT ![i] = [info |-> t.peers[i].info, refreshed |-> FALSE]]
      <4>1. u = [peers |-> p, pings |-> t.pings]
        BY <1>1, <1>3, <3>2, UnmarkedFits DEF ExpirePeer
      <4>2. \A j \in 1 .. MaxPeers :
              p[j] = IF j = i THEN [info |-> t.peers[i].info, refreshed |-> FALSE] ELSE t.peers[j]
        BY FitTableIs
      <4> HIDE DEF p, u
      <4>3. u.peers = p /\ u.pings = t.pings
        BY <4>1
      <4> QED BY <3>2, <4>2, <4>3
    <3> QED BY <3>1, <3>2
  <2> HIDE DEF u
  <2>3. \A j \in 1 .. MaxPeers : j > i => u.peers[j] = peers[j]
    <3> SUFFICES ASSUME NEW j \in 1 .. MaxPeers, j > i PROVE u.peers[j] = peers[j]
      OBVIOUS
    <3>1. j > k /\ j # i
      BY TableSizes
    <3> QED BY <2>2, <3>1 DEF ExpiredTo
  <2>4. \A j \in 1 .. MaxPeers : u.peers[j] # Vacant => peers[j] # Vacant /\ u.peers[j].info = peers[j].info
    BY <2>2 DEF ExpiredTo
  <2>5. \A j \in SilentTo(i) :
          SharesIp(j) \/ PingWithin(u.pings, Cardinality(SilentTo(i)), peers[j].info.dest)
    BY <2>1, <2>2 DEF ExpiredTo
  <2> QED BY <2>3, <2>4, <2>5 DEF ExpiredTo, u
<1>4. CASE i \in Silent
  <2> DEFINE v == [t EXCEPT !.peers[i] = Vacant]
             a == t.peers[i].info
  <2>1. u = RoutingAddPing(v, a) /\ v \in FitTables /\ v = [peers |-> [t.peers EXCEPT ![i] = Vacant], pings |-> t.pings]
    BY <1>1, <1>4, VacatedFits DEF ExpirePeer, MovedToPings
  <2>2. a \in Infos /\ a = peers[i].info /\ peers[i] # Vacant
    BY <1>1, <1>4, FitTableIs DEF Silent, Stale
  <2>3. \A j \in 1 .. MaxPeers : v.peers[j] = IF j = i THEN Vacant ELSE t.peers[j]
    <3>1. v.peers = [t.peers EXCEPT ![i] = Vacant]
      BY <2>1
    <3> HIDE DEF v
    <3> QED BY <3>1, FitTableIs
  <2>4. v.pings = t.pings
    BY <2>1
  <2> HIDE DEF u, v, a
  <2>5. u.peers = v.peers
    BY <2>1, <2>2, AddPingFits
  <2>6. SilentTo(i) = SilentTo(k) \cup {i} /\ Cardinality(SilentTo(i)) = n + 1 /\ n + 1 <= MaxPings
    <3>1. SilentTo(i) = SilentTo(k) \cup {i} /\ Cardinality(SilentTo(i)) = n + 1
      BY <1>4, SilentCounted
    <3>2. Cardinality(SilentTo(i)) <= Cardinality(Silent) /\ Cardinality(Silent) \in Nat
      <4>1. i \in Nat
        OBVIOUS
      <4>2. IsFiniteSet(Silent) /\ Cardinality(SilentTo(i)) <= Cardinality(Silent)
        BY <4>1, SilentCounted
      <4> QED BY <4>2, FS_CardinalityType
    <3> HIDE DEF n, i
    <3> QED BY <1>2, <3>1, <3>2, TableSizes
  <2>7. FindPeer(v, a) = {}
    <3> SUFFICES ASSUME NEW j \in FindPeer(v, a) PROVE FALSE
      OBVIOUS
    <3>1. j \in 1 .. MaxPeers /\ v.peers[j] # Vacant /\ SamePeer(a, v.peers[j].info)
      <4>1. v \in FitTables /\ a \in Infos
        BY <2>1, <2>2
      <4>2. FindPeer(v, a) = {h \in 1 .. MaxPeers : v.peers[h] # Vacant /\ SamePeer(a, v.peers[h].info)}
        BY <4>1, FoundInRow
      <4> QED BY <4>2
    <3>2. j # i /\ peers[j] # Vacant /\ v.peers[j].info = peers[j].info
      BY <2>3, <3>1 DEF ExpiredTo
    <3>3. SamePeer(peers[i].info, peers[j].info)
      BY <2>2, <3>1, <3>2
    <3> QED BY <1>1, <2>2, <3>1, <3>2, <3>3 DEF RoutingInv, PeersFit, OneSlot
  <2>8. FindIp(v, a) # {} => SharesIp(i)
    <3> SUFFICES ASSUME NEW j \in FindIp(v, a) PROVE SharesIp(i)
      OBVIOUS
    <3>1. j \in 1 .. MaxPeers /\ v.peers[j] # Vacant /\ a.ip = v.peers[j].info.ip
      BY <2>1, FitTableIs DEF FindIp, SlotsWith
    <3>2. j # i /\ peers[j] # Vacant /\ v.peers[j].info = peers[j].info
      BY <2>3, <3>1 DEF ExpiredTo
    <3> QED BY <2>2, <3>1, <3>2 DEF SharesIp
  <2>9. \A x : PingWithin(t.pings, n, x) => PingWithin(u.pings, n + 1, x)
    <3>1. CASE FindIp(v, a) = {}
      <4>1. FindPeer(v, a) \cup FindIp(v, a) = {}
        BY <2>7, <3>1
      <4> HIDE DEF n
      <4>2. \A x : PingWithin(v.pings, n, x) => PingWithin(u.pings, n + 1, x)
        BY <1>2, <2>1, <2>2, <2>6, <4>1, PingMoves
      <4> QED BY <2>4, <4>2
    <3>2. CASE FindIp(v, a) # {}
      <4>1. u = v
        BY <2>1, <3>2 DEF RoutingAddPing
      <4>2. \A x : PingWithin(t.pings, n, x) => PingWithin(t.pings, n + 1, x)
        BY <1>2 DEF PingWithin
      <4> QED BY <2>4, <4>1, <4>2
    <3> QED BY <3>1, <3>2
  <2>10. SharesIp(i) \/ PingWithin(u.pings, n + 1, a.dest)
    <3>1. CASE FindIp(v, a) = {}
      <4>1. FindPeer(v, a) \cup FindIp(v, a) = {}
        BY <2>7, <3>1
      <4> HIDE DEF n
      <4> QED BY <1>2, <2>1, <2>2, <2>6, <4>1, PingMoves
    <3> QED BY <2>8, <3>1
  <2>11. \A j \in SilentTo(i) : SharesIp(j) \/ PingWithin(u.pings, Cardinality(SilentTo(i)), peers[j].info.dest)
    <3> HIDE DEF n, i
    <3>1. ASSUME NEW j \in SilentTo(k) PROVE SharesIp(j) \/ PingWithin(u.pings, n + 1, peers[j].info.dest)
      BY <2>9 DEF ExpiredTo, n
    <3> QED BY <2>2, <2>6, <2>10, <3>1
  <2>12. \A j \in 1 .. MaxPeers : j > i => u.peers[j] = peers[j]
    BY <2>3, <2>5 DEF ExpiredTo
  <2>13. \A j \in 1 .. MaxPeers : u.peers[j] # Vacant => peers[j] # Vacant /\ u.peers[j].info = peers[j].info
    BY <2>3, <2>5 DEF ExpiredTo
  <2> QED BY <2>11, <2>12, <2>13 DEF ExpiredTo, u
<1> QED BY <1>3, <1>4

LEMMA ExpireAll ==
  ASSUME RoutingInv, RoutingExpireDht, Cardinality(Silent) <= MaxPings, NEW i \in Silent
  PROVE  \/ \E j \in 1 .. MaxPings : pings'[j] # Vacant /\ pings'[j].info.dest = peers[i].info.dest
         \/ SharesIp(i)
<1>1. PICK c : /\ c[0] = [peers |-> peers, pings |-> Aged(pings)]
               /\ \A k \in 0 .. MaxPeers : c[k] \in FitTables
               /\ \A k \in 1 .. MaxPeers : c[k] = ExpirePeer(c[k - 1], k)
               /\ pings' = c[MaxPeers].pings
  BY ExpireSteps
<1>2. MaxPeers \in Nat
  BY TableSizes
<1> DEFINE D == {k \in Nat : k <= MaxPeers => ExpiredTo(c[k], k)}
<1>3. 0 \in D
  <2>1. c[0].peers = peers
    BY <1>1
  <2>2. SilentTo(0) = {}
    BY <1>2 DEF SilentTo, Silent
  <2>3. ExpiredTo(c[0], 0)
    BY <2>1, <2>2 DEF ExpiredTo
  <2> QED BY <2>3
<1>4. ASSUME NEW k \in D PROVE k + 1 \in D
  <2> SUFFICES ASSUME k + 1 <= MaxPeers PROVE ExpiredTo(c[k + 1], k + 1)
    OBVIOUS
  <2>1. k \in Nat /\ k <= MaxPeers /\ ExpiredTo(c[k], k)
    BY <1>2
  <2> HIDE DEF D
  <2>2. k + 1 \in 1 .. MaxPeers /\ (k + 1) - 1 = k /\ k \in 0 .. MaxPeers
    BY <1>2, <2>1
  <2>3. c[k + 1] = ExpirePeer(c[k], k + 1) /\ c[k] \in FitTables
    BY <1>1, <2>2
  <2>4. ExpiredTo(ExpirePeer(c[k], k + 1), k + 1)
    BY <2>1, <2>2, <2>3, ExpireOne
  <2> QED BY <2>3, <2>4
<1>5. ExpiredTo(c[MaxPeers], MaxPeers)
  <2> HIDE DEF D
  <2>1. D = Nat
    <3>1. D \in SUBSET Nat
      BY DEF D
    <3> QED BY <1>3, <1>4, <3>1, Induction
  <2> QED BY <1>2, <2>1 DEF D
<1>6. i \in SilentTo(MaxPeers)
  BY <1>2 DEF SilentTo, Silent
<1> HIDE DEF D
<1>7. SharesIp(i) \/ PingWithin(c[MaxPeers].pings, Cardinality(SilentTo(MaxPeers)), peers[i].info.dest)
  BY <1>5, <1>6 DEF ExpiredTo
<1> QED BY <1>1, <1>7 DEF PingWithin

(* (routing_expire_dht) Every peer that is silent is asked again, in the list of   *)
(* pings, before it is forgotten, unless another has its internet address or there *)
(* are more silent ones than places, for any table and list.                       *)
THEOREM SilentAlwaysPinged == RoutingSpec => SilentPeersArePinged
<1>1. RoutingInv /\ [RoutingNext]_tables =>
        [RoutingExpireDht =>
           LET silent == {i \in 1 .. MaxPeers : Stale(peers, i)}
           IN  \A i \in silent :
                 \/ \E j \in 1 .. MaxPings : pings'[j] # Vacant /\ pings'[j].info.dest = peers[i].info.dest
                 \/ \E j \in 1 .. MaxPeers \ {i} : peers[j] # Vacant /\ peers[j].info.ip = peers[i].info.ip
                 \/ Cardinality(silent) > MaxPings]_tables
  <2> SUFFICES ASSUME RoutingInv, RoutingExpireDht, NEW i \in Silent
               PROVE  \/ \E j \in 1 .. MaxPings :
                           pings'[j] # Vacant /\ pings'[j].info.dest = peers[i].info.dest
                      \/ SharesIp(i)
                      \/ Cardinality(Silent) > MaxPings
    BY DEF Silent, SharesIp
  <2>1. Cardinality(Silent) \in Nat
    <3>1. 0 \in Nat
      OBVIOUS
    <3> QED BY <3>1, SilentCounted, FS_CardinalityType
  <2>2. CASE Cardinality(Silent) <= MaxPings
    BY <2>2, ExpireAll
  <2>3. CASE Cardinality(Silent) > MaxPings
    BY <2>3
  <2> QED BY <2>1, <2>2, <2>3, TableSizes
<1> QED BY <1>1, RoutingStart, RoutingStep, PTL DEF RoutingSpec, SilentPeersArePinged
=============================================================================
