---------------------------- MODULE LedgerProofs -----------------------------
(***************************************************************************)
(* The two ledgers beside the execution gate: the file of events and the   *)
(* nonces of handoff contracts.                                            *)
(*                                                                         *)
(* However many goroutines append, whatever saves fail, however often the  *)
(* ledger is loaded anew over the same file and whenever the process       *)
(* crashes, the file is a prefix of one of the ledgers and carries an      *)
(* intact hash chain; and what an append reported as saved is on disk for  *)
(* good unless a snapshot without it came after it.                        *)
(*                                                                         *)
(* For any number of concurrent validations, contracts and resets: the     *)
(* nonce ledger is exact, and a nonce is accepted twice only by            *)
(* validations that overlapped.                                            *)
(***************************************************************************)
EXTENDS LedgerPersistence, HandoffValidator, TLAPS

\* A prefix, element by element.
Below(s, t) == Len(s) <= Len(t) /\ \A i \in 1 .. Len(s) : s[i] = t[i]

\* The library's IsPrefix is the element-wise one.
LEMMA PrefixIsBelow ==
    ASSUME NEW s \in Logs, NEW t \in Logs
    PROVE  IsPrefix(s, t) <=> Below(s, t)
BY DEF Logs, IsPrefix, Below

\* What a writer under way carries: a ledger that is loaded, an event that
\* was appended, and a snapshot that lies below its ledger.
WriterInv(w) ==
    pc[w] # "idle" => /\ led[w] \in 1 .. loaded /\ own[w] \in 1 .. born
                      /\ Below(snap[w], mem[led[w]])

\* An idle writer holds no snapshot.
SnapDropped == \A w \in Writers : pc[w] \in {"idle", "snapshot"} => snap[w] = <<>>

\* The inductive invariant: the chain of every ledger is intact; while the
\* process is up the file lies below one of them, and while it is down the
\* file stands alone.
PersistenceInv ==
    /\ TypeOK
    /\ \A g \in Ledgers : Accepts(mem[g])
    /\ ChainIntact
    /\ status = "up" => file # Absent /\ \E g \in 1 .. loaded : Below(file, mem[g])
    /\ \A w \in Writers : WriterInv(w)
    /\ SnapDropped
    /\ status # "up" => loaded = 0

\* Appending a correctly linked event keeps the chain intact.
LEMMA AppendKeepsChain ==
    ASSUME NEW log \in Logs, NEW e \in LedgerEvent, Accepts(log), e.prev = LastHash(log)
    PROVE  /\ Append(log, e) \in Logs
           /\ Accepts(Append(log, e))
           /\ \A s \in Logs : Below(s, log) => Below(s, Append(log, e))
<1>1. Append(log, e) \in Logs
    BY DEF Logs
<1>2. Accepts(Append(log, e))
  <2> DEFINE new == Append(log, e)
  <2>1. /\ Len(log) \in Nat /\ DOMAIN log = 1 .. Len(log)
        /\ DOMAIN new = 1 .. (Len(log) + 1)
        /\ \A i \in 1 .. Len(log) : new[i] = log[i]
        /\ new[Len(log) + 1] = e
      BY DEF Logs
  <2>2. log = <<>> <=> Len(log) = 0
      BY DEF Logs
  <2> HIDE DEF new
  <2>3. ASSUME NEW i \in DOMAIN new
        PROVE  new[i].prev = IF i = 1 THEN NoHash ELSE new[i - 1].hash
    <3>1. CASE i \in DOMAIN log
        BY <2>1, <3>1 DEF Accepts
    <3>2. CASE i = Len(log) + 1
        BY <2>1, <2>2, <3>2 DEF LastHash
    <3>3. QED
        BY <2>1, <3>1, <3>2
  <2>4. QED
      BY <2>3 DEF Accepts, new
<1>3. \A s \in Logs : Below(s, log) => Below(s, Append(log, e))
    BY DEF Logs, Below
<1>4. QED
    BY <1>1, <1>2, <1>3

\* Below an intact chain every log is intact.
LEMMA BelowIsIntact ==
    ASSUME NEW s \in Logs, NEW t \in Logs, Below(s, t), Accepts(t)
    PROVE  Accepts(s)
<1>1. /\ Len(s) \in Nat /\ Len(t) \in Nat
      /\ DOMAIN s = 1 .. Len(s) /\ DOMAIN t = 1 .. Len(t)
    BY DEF Logs
<1>2. QED
    BY <1>1 DEF Below, Accepts

\* Nothing lies below the empty log but itself, and it is below everything.
LEMMA EmptyLog ==
    /\ <<>> \in Logs /\ Accepts(<<>>)
    /\ \A t \in Logs : Below(<<>>, t) /\ Below(t, t)
BY DEF Logs, Accepts, Below

\* Init satisfies the inductive invariant.
LEMMA PersistenceInit == Init => PersistenceInv
<1> SUFFICES ASSUME Init PROVE PersistenceInv
    OBVIOUS
<1>1. TypeOK
  <2>1. /\ file \in Logs \cup {Absent} /\ mem \in [Ledgers -> Logs]
        /\ snap \in [Writers -> Logs]
      BY EmptyLog, PersistenceAssumption DEF Init
  <2>2. /\ own \in [Writers -> 0..MaxEvents] /\ born \in 0..MaxEvents
        /\ crashes \in 0..MaxCrashes /\ loaded \in 0..MaxLoads
        /\ led \in [Writers -> 0..MaxLoads]
      BY PersistenceAssumption DEF Init, NoHash
  <2>3. QED
      BY <2>1, <2>2 DEF Init, TypeOK
<1>2. ChainIntact
    BY EmptyLog, PersistenceAssumption DEF Init, ChainIntact
<1>3. QED
    BY <1>1, <1>2, EmptyLog DEF Init, PersistenceInv, WriterInv, SnapDropped

\* A new ledger is the file itself.
LEMMA StartSafe == ASSUME PersistenceInv, Start PROVE PersistenceInv'
<1> USE PersistenceAssumption DEF PersistenceInv
<1>1. CASE file # Absent /\ Accepts(file)
  <2> DEFINE new == loaded + 1
  <2>1. /\ file \in Logs /\ new \in Ledgers /\ new \in 1 .. loaded' /\ loaded' = new
        /\ status' = "up" /\ mem' = [mem EXCEPT ![new] = file]
      BY <1>1 DEF Start, TypeOK, Ledgers
  <2>2. \A w \in Writers : WriterInv(w)'
    <3> SUFFICES ASSUME NEW w \in Writers, pc[w] # "idle" PROVE WriterInv(w)'
        BY DEF Start, writerVars, WriterInv
    <3>1. /\ led[w] \in 1 .. loaded /\ own[w] \in 1 .. born /\ Below(snap[w], mem[led[w]])
        BY DEF WriterInv
    <3>2. mem'[led[w]] = mem[led[w]] /\ led[w] \in 1 .. loaded'
        BY <2>1, <3>1 DEF TypeOK, Ledgers
    <3>3. QED
        BY <3>1, <3>2 DEF Start, writerVars, WriterInv
  <2>3. \A g \in Ledgers : Accepts(mem'[g])
      BY <1>1, <2>1 DEF TypeOK
  <2>4. Below(file, mem'[new])
      BY <2>1, EmptyLog DEF TypeOK
  <2>5. TypeOK'
    <3>1. mem' \in [Ledgers -> Logs]
        BY <2>1 DEF TypeOK
    <3>2. missed' \in [Ledgers -> SUBSET (1..MaxEvents)]
      <4>1. (1..born) \ (saved \ exposed) \in SUBSET (1..MaxEvents)
          BY DEF TypeOK
      <4>2. QED
          BY <1>1, <4>1 DEF Start, TypeOK
    <3>3. QED
        BY <2>1, <3>1, <3>2 DEF Start, diskVars, writerVars, TypeOK, Ledgers
  <2>6. file' = file
      BY DEF Start, diskVars
  <2>7. QED
      BY <1>1, <2>1, <2>2, <2>3, <2>4, <2>5, <2>6
         DEF Start, writerVars, ChainIntact, Accepts, SnapDropped
<1>2. CASE ~(file # Absent /\ Accepts(file))
  <2>1. /\ UNCHANGED <<diskVars, loaded, mem, lastError, writerVars, history>>
        /\ status' \in {status, "panicked"} /\ (status' # status => status = "down")
      BY <1>2 DEF Start, history
  <2>2. QED
      BY <2>1 DEF TypeOK, ChainIntact, WriterInv, diskVars, writerVars, history, Accepts,
                     SnapDropped
<1>3. QED
    BY <1>1, <1>2

\* The event is linked to the last one of its own ledger.
LEMMA AppendSafe ==
    ASSUME PersistenceInv, NEW w \in Writers, NEW g \in 1 .. loaded, AppendEvent(w, g)
    PROVE  /\ PersistenceInv'
           /\ \E e \in LedgerEvent : /\ e.hash = born + 1
                                     /\ mem' = [mem EXCEPT ![g] = Append(mem[g], e)]
<1> USE PersistenceAssumption DEF PersistenceInv
<1> DEFINE e == [hash |-> born + 1, prev |-> LastHash(mem[g])]
<1>0. g \in Ledgers /\ mem[g] \in Logs
    BY DEF TypeOK, Ledgers
<1>1. LastHash(mem[g]) \in 0..MaxEvents
  <2>1. CASE mem[g] = <<>>
      BY <2>1 DEF LastHash, NoHash
  <2>2. CASE mem[g] # <<>>
    <3>1. mem[g][Len(mem[g])] \in LedgerEvent
        BY <1>0, <2>2 DEF Logs
    <3>2. QED
        BY <2>2, <3>1 DEF LastHash, LedgerEvent
  <2>3. QED
      BY <2>1, <2>2
<1>2. e \in LedgerEvent /\ e.prev = LastHash(mem[g]) /\ e.hash = born + 1
    BY <1>1 DEF AppendEvent, TypeOK, LedgerEvent
<1>3. mem' = [mem EXCEPT ![g] = Append(mem[g], e)]
    BY <1>0 DEF AppendEvent, TypeOK
<1> HIDE DEF e
<1>4. /\ Append(mem[g], e) \in Logs /\ Accepts(Append(mem[g], e))
      /\ \A s \in Logs : Below(s, mem[g]) => Below(s, Append(mem[g], e))
    BY <1>0, <1>2, AppendKeepsChain
<1>5. /\ mem' \in [Ledgers -> Logs]
      /\ \A h \in Ledgers : /\ Accepts(mem'[h])
                            /\ \A s \in Logs : Below(s, mem[h]) => Below(s, mem'[h])
    BY <1>0, <1>3, <1>4 DEF TypeOK
<1>6. status = "up"
    BY DEF TypeOK
<1>7. TypeOK'
  <2>1. /\ exposed' \subseteq 1..MaxEvents /\ saved' = saved
        /\ missed' \in [Ledgers -> SUBSET (1..MaxEvents)]
    <3>1. born + 1 \in 1..MaxEvents /\ missed[g] \subseteq 1..MaxEvents
        BY <1>0 DEF AppendEvent, TypeOK
    <3>2. QED
        BY <3>1 DEF AppendEvent, Expose, TypeOK
  <2>2. /\ born' \in 0..MaxEvents /\ own' \in [Writers -> 0..MaxEvents]
        /\ led' \in [Writers -> 0..MaxLoads]
        /\ pc' \in [Writers -> {"idle", "snapshot", "commit", "saved", "failed"}]
      BY DEF AppendEvent, TypeOK
  <2>3. QED
      BY <1>5, <2>1, <2>2 DEF AppendEvent, diskVars, TypeOK
<1>8. ASSUME NEW x \in Writers PROVE WriterInv(x)'
  <2>1. CASE x = w
    <3>1. /\ led'[w] = g /\ own'[w] = born + 1 /\ born' = born + 1 /\ loaded' = loaded
          /\ snap' = snap /\ snap[w] \in Logs
        BY DEF AppendEvent, TypeOK
    <3>2. Below(snap[w], mem'[g])
      <4>1. snap[w] = <<>>
          BY DEF AppendEvent, PersistenceInv, SnapDropped
      <4>2. QED
          BY <1>0, <1>5, <4>1, EmptyLog
    <3>3. QED
        BY <2>1, <3>1, <3>2 DEF WriterInv, TypeOK
  <2>2. CASE x # w
    <3>1. /\ pc'[x] = pc[x] /\ led'[x] = led[x] /\ own'[x] = own[x] /\ snap' = snap
          /\ loaded' = loaded /\ born' = born + 1
        BY <2>2 DEF AppendEvent, TypeOK
    <3>2. pc[x] # "idle" => Below(snap[x], mem'[led[x]])
        BY <1>5 DEF WriterInv, TypeOK, Ledgers
    <3>3. QED
        BY <3>1, <3>2 DEF WriterInv, TypeOK
  <2>3. QED
      BY <2>1, <2>2
<1>9. /\ status' = status /\ loaded' = loaded /\ file' = file
    BY DEF AppendEvent, diskVars
<1>10. \E h \in 1 .. loaded : Below(file, mem'[h])
  <2>1. PICK h \in 1 .. loaded : Below(file, mem[h])
      BY <1>6
  <2>2. file \in Logs /\ h \in Ledgers
      BY <1>6 DEF TypeOK, Ledgers
  <2>3. QED
      BY <1>5, <2>1, <2>2
<1>11. SnapDropped'
    BY DEF AppendEvent, SnapDropped, TypeOK
<1>12. QED
    BY <1>2, <1>3, <1>5, <1>6, <1>7, <1>8, <1>9, <1>10, <1>11 DEF ChainIntact, Accepts

\* Every step preserves it.
LEMMA PersistenceNext == PersistenceInv /\ [Next]_vars => PersistenceInv'
<1> SUFFICES ASSUME PersistenceInv, [Next]_vars PROVE PersistenceInv'
    OBVIOUS
<1> USE PersistenceAssumption DEF PersistenceInv
<1>a. Absent \notin Logs
    BY DEF Logs
<1>b. \A w \in Writers : pc[w] # "idle" =>
        /\ status = "up" /\ led[w] \in Ledgers /\ mem[led[w]] \in Logs /\ snap[w] \in Logs
    BY DEF WriterInv, TypeOK, Ledgers
<1>1. CASE Start
    BY <1>1, StartSafe
<1>2. CASE Crash
  <2>1. TypeOK'
      BY <1>2, EmptyLog DEF Crash, TypeOK, NoHash
  <2>2. QED
      BY <1>2, <2>1, EmptyLog DEF Crash, ChainIntact, WriterInv, SnapDropped
<1>3. ASSUME NEW w \in Writers, NEW g \in 1 .. loaded, AppendEvent(w, g) PROVE PersistenceInv'
    BY <1>3, AppendSafe
<1>4. ASSUME NEW w \in Writers, TakeSnapshot(w) PROVE PersistenceInv'
  <2>1. /\ mem[led[w]] \in Logs /\ Below(mem[led[w]], mem[led[w]])
        /\ UNCHANGED <<diskVars, logVars, led, own, born, history>>
      BY <1>4, <1>b, EmptyLog DEF TakeSnapshot
  <2>2. \A x \in Writers : snap'[x] = IF x = w THEN mem[led[w]] ELSE snap[x]
      BY <1>4 DEF TakeSnapshot, TypeOK
  <2>3. \A x \in Writers : pc'[x] = IF x = w THEN "commit" ELSE pc[x]
      BY <1>4 DEF TakeSnapshot, TypeOK
  <2>4. TypeOK'
      BY <1>4, <2>1 DEF TakeSnapshot, TypeOK, diskVars, logVars, history
  <2>5. \A x \in Writers : WriterInv(x)'
      BY <1>4, <2>1, <2>2, <2>3 DEF TakeSnapshot, WriterInv, logVars
  <2>6. QED
      BY <2>1, <2>2, <2>3, <2>4, <2>5 DEF ChainIntact, diskVars, logVars, SnapDropped
<1>5. ASSUME NEW w \in Writers, CommitSnapshot(w) PROVE PersistenceInv'
  <2>1. /\ status = "up" /\ led[w] \in 1 .. loaded /\ Below(snap[w], mem[led[w]])
        /\ snap[w] \in Logs /\ Accepts(mem[led[w]])
        /\ UNCHANGED <<crashes, logVars, led, snap, own, born, history>> /\ file' = snap[w]
      BY <1>5, <1>b DEF CommitSnapshot, WriterInv
  <2>2. Accepts(snap[w])
      BY <1>5, <1>b, <2>1, BelowIsIntact DEF CommitSnapshot
  <2>3. \A x \in Writers : pc'[x] = IF x = w THEN "saved" ELSE pc[x]
      BY <1>5 DEF CommitSnapshot, TypeOK
  <2>4. TypeOK'
      BY <1>5, <2>1 DEF CommitSnapshot, TypeOK, logVars, history
  <2>5. \A x \in Writers : WriterInv(x)'
      BY <1>5, <2>1, <2>3 DEF CommitSnapshot, WriterInv, logVars
  <2>6. QED
      BY <1>5, <1>a, <2>1, <2>2, <2>3, <2>4, <2>5
         DEF CommitSnapshot, ChainIntact, logVars, Accepts, SnapDropped
<1>6. ASSUME NEW w \in Writers, SaveFails(w) PROVE PersistenceInv'
  <2>1. /\ UNCHANGED <<diskVars, logVars, led, snap, own, born, history>> /\ pc[w] = "commit"
        /\ \A x \in Writers : pc'[x] = IF x = w THEN "failed" ELSE pc[x]
      BY <1>6 DEF SaveFails, TypeOK
  <2>2. TypeOK'
      BY <1>6, <2>1 DEF SaveFails, TypeOK, diskVars, logVars, history
  <2>3. \A x \in Writers : WriterInv(x)'
      BY <2>1 DEF WriterInv, logVars
  <2>4. QED
      BY <2>1, <2>2, <2>3 DEF ChainIntact, diskVars, logVars, SnapDropped
<1>7. ASSUME NEW w \in Writers, StoreOutcome(w) PROVE PersistenceInv'
  <2>1. /\ UNCHANGED <<diskVars, status, loaded, mem, born, missed, exposed>>
        /\ \A x \in Writers : pc'[x] = IF x = w THEN "idle" ELSE pc[x]
        /\ \A x \in Writers : x # w => led'[x] = led[x] /\ snap'[x] = snap[x] /\ own'[x] = own[x]
        /\ snap'[w] = <<>>
      BY <1>7 DEF StoreOutcome, Return, TypeOK
  <2>2. TypeOK'
    <3>1. lastError' \in [Ledgers -> BOOLEAN]
        BY <1>7 DEF StoreOutcome, TypeOK
    <3>2. saved' \subseteq 1..MaxEvents
      <4>1. own[w] \in 1 .. born /\ born \in 0..MaxEvents /\ saved \subseteq 1..MaxEvents
          BY <1>7 DEF StoreOutcome, WriterInv, TypeOK
      <4>2. own[w] \in 1..MaxEvents
          BY <4>1
      <4>3. QED
          BY <1>7, <4>1, <4>2 DEF StoreOutcome, Return
    <3>3. /\ led' \in [Writers -> 0..MaxLoads] /\ snap' \in [Writers -> Logs]
          /\ own' \in [Writers -> 0..MaxEvents]
          /\ pc' \in [Writers -> {"idle", "snapshot", "commit", "saved", "failed"}]
        BY <1>7, EmptyLog DEF StoreOutcome, Return, TypeOK, NoHash
    <3>4. QED
        BY <2>1, <3>1, <3>2, <3>3 DEF TypeOK, diskVars
  <2>3. \A x \in Writers : WriterInv(x)'
      BY <2>1 DEF WriterInv
  <2>4. QED
      BY <2>1, <2>2, <2>3 DEF ChainIntact, diskVars, SnapDropped
<1>8. CASE UNCHANGED vars
    BY <1>8 DEF vars, diskVars, logVars, writerVars, history, TypeOK, ChainIntact, WriterInv,
                SnapDropped
<1>9. QED
    BY <1>1, <1>2, <1>3, <1>4, <1>5, <1>6, <1>7, <1>8 DEF Next

\* The inductive invariant holds in every reachable state.
THEOREM PersistenceSafe == Spec => []PersistenceInv
BY PersistenceInit, PersistenceNext, PTL DEF Spec

\* A restart never refuses the ledger's own file (LoadLedger).
THEOREM RestartAccepted == Spec => []ChainIntact
<1>1. PersistenceInv => ChainIntact
    BY DEF PersistenceInv
<1>2. QED
    BY <1>1, PersistenceSafe, PTL

\* The file is a prefix of one of the ledgers, and the snapshots on their way
\* are prefixes of their own (Save).
THEOREM FileNeverAhead == Spec => []FileIsPrefix
<1>1. PersistenceInv => FileIsPrefix
  <2> SUFFICES ASSUME PersistenceInv, status = "up" PROVE FileIsPrefix
      BY DEF FileIsPrefix
  <2>1. file \in Logs /\ \A g \in 1 .. loaded : mem[g] \in Logs
      BY PersistenceAssumption DEF PersistenceInv, TypeOK, Ledgers
  <2>2. \E g \in 1 .. loaded : IsPrefix(file, mem[g])
      BY <2>1, PrefixIsBelow DEF PersistenceInv
  <2>3. \A w \in Writers : pc[w] # "idle" => IsPrefix(snap[w], mem[led[w]])
      BY <2>1, PrefixIsBelow DEF PersistenceInv, WriterInv, TypeOK
  <2>4. QED
      BY <2>2, <2>3 DEF FileIsPrefix
<1>2. QED
    BY <1>1, PersistenceSafe, PTL
-----------------------------------------------------------------------------
\* The events no snapshot without them came after.
Safe == (1 .. born) \ exposed

\* Is event e of ledger g on its way to the file, or its failure to be stored?
OnItsWay(g, e) ==
    \E w \in Writers : /\ pc[w] \in {"snapshot", "commit", "failed"}
                       /\ led[w] = g /\ own[w] = e

\* A ledger has the safe events it has not missed.
HasSafe(g) == Safe \subseteq HashesOf(mem[g]) \cup missed[g]

\* Every save under way brings the safe events along, and leaves them there.
Brings(w) ==
    /\ pc[w] = "snapshot" => Safe \subseteq HashesOf(mem[led[w]])
    /\ pc[w] = "commit" => Safe \subseteq HashesOf(snap[w])
    /\ pc[w] = "saved" => Safe \subseteq HashesOf(file)

\* A ledger without an error has its safe events in the file or on their way.
Reports(g) ==
    ~lastError[g] => \A e \in HashesOf(mem[g]) \ exposed :
                       e \in HashesOf(file) \/ OnItsWay(g, e)

\* What durability rests on.
ExposureInv ==
    /\ saved \subseteq 1 .. born /\ SavedUnlessExposed
    /\ file # Absent => HashesOf(file) \subseteq 1 .. born
    /\ \A g \in Ledgers : HashesOf(mem[g]) \subseteq 1 .. born
    /\ \A g \in 1 .. loaded : HasSafe(g) /\ Reports(g)
    /\ \A w \in Writers : Brings(w)

\* A longer log has the hashes of a shorter one, and that of its last event.
LEMMA HashesGrow ==
    /\ \A s, t \in Logs : Below(s, t) => HashesOf(s) \subseteq HashesOf(t)
    /\ \A s \in Logs, e \in LedgerEvent :
         HashesOf(Append(s, e)) = HashesOf(s) \cup {e.hash}
<1>1. ASSUME NEW s \in Logs, NEW t \in Logs, Below(s, t)
      PROVE  HashesOf(s) \subseteq HashesOf(t)
  <2>1. DOMAIN s = 1 .. Len(s) /\ DOMAIN t = 1 .. Len(t) /\ Len(s) \in Nat /\ Len(t) \in Nat
      BY DEF Logs
  <2>2. \A i \in DOMAIN s : i \in DOMAIN t /\ s[i] = t[i]
      BY <1>1, <2>1 DEF Below
  <2>3. QED
      BY <2>2 DEF HashesOf
<1>2. ASSUME NEW s \in Logs, NEW e \in LedgerEvent
      PROVE  HashesOf(Append(s, e)) = HashesOf(s) \cup {e.hash}
  <2> DEFINE t == Append(s, e)
  <2>1. /\ DOMAIN s = 1 .. Len(s) /\ Len(s) \in Nat
        /\ DOMAIN t = 1 .. (Len(s) + 1)
        /\ \A i \in 1 .. Len(s) : t[i] = s[i]
        /\ t[Len(s) + 1] = e
      BY DEF Logs
  <2> HIDE DEF t
  <2>2. HashesOf(t) \subseteq HashesOf(s) \cup {e.hash}
    <3> SUFFICES ASSUME NEW i \in DOMAIN t PROVE t[i].hash \in HashesOf(s) \cup {e.hash}
        BY DEF HashesOf
    <3>1. i \in DOMAIN s \/ i = Len(s) + 1
        BY <2>1
    <3>2. QED
        BY <2>1, <3>1 DEF HashesOf
  <2>3. HashesOf(s) \subseteq HashesOf(t)
    <3> SUFFICES ASSUME NEW i \in DOMAIN s PROVE s[i].hash \in HashesOf(t)
        BY DEF HashesOf
    <3>1. i \in DOMAIN t /\ t[i] = s[i]
        BY <2>1
    <3>2. QED
        BY <3>1 DEF HashesOf
  <2>4. e.hash \in HashesOf(t)
    <3>1. Len(s) + 1 \in DOMAIN t
        BY <2>1
    <3>2. QED
        BY <2>1, <3>1 DEF HashesOf
  <2>5. QED
      BY <2>2, <2>3, <2>4 DEF t
<1>3. QED
    BY <1>1, <1>2

\* Nothing is saved at the first start.
LEMMA ExposureInit == Init => ExposureInv
<1> SUFFICES ASSUME Init PROVE ExposureInv
    OBVIOUS
<1>1. HashesOf(<<>>) = {}
    BY DEF HashesOf
<1>2. QED
    BY <1>1, PersistenceAssumption DEF Init, ExposureInv, SavedUnlessExposed, Brings

\* A new ledger has what is promised to be in the file.
LEMMA StartExposes == ASSUME PersistenceInv, ExposureInv, Start PROVE ExposureInv'
<1> USE PersistenceAssumption DEF PersistenceInv, ExposureInv
<1>0. UNCHANGED <<file, lastError, pc, led, snap, own, born, saved, exposed>>
    BY DEF Start, diskVars, writerVars
<1>1. CASE file # Absent /\ Accepts(file)
  <2> DEFINE new == loaded + 1
  <2>1. /\ new \in Ledgers /\ loaded' = new /\ loaded \in Nat
        /\ mem' = [mem EXCEPT ![new] = file]
        /\ missed' = [missed EXCEPT ![new] = (1..born) \ (saved \ exposed)]
      BY <1>1 DEF Start, TypeOK, Ledgers
  <2> HIDE DEF new
  <2>2. \A g \in Ledgers : mem'[g] = IF g = new THEN file ELSE mem[g]
      BY <2>1 DEF TypeOK
  <2>3. \A g \in Ledgers : missed'[g] = IF g = new THEN (1..born) \ (saved \ exposed) ELSE missed[g]
      BY <2>1 DEF TypeOK
  <2>4. \A g \in 1 .. loaded' : g \in Ledgers /\ (g = new \/ (g \in 1 .. loaded /\ g # new))
      BY <2>1 DEF new, TypeOK, Ledgers
  <2>5. ASSUME NEW g \in 1 .. loaded' PROVE HasSafe(g)' /\ Reports(g)'
    <3>1. CASE g = new
        BY <1>0, <2>2, <2>3, <2>4, <3>1 DEF HasSafe, Reports, Safe, SavedUnlessExposed
    <3>2. CASE g # new
        BY <1>0, <2>2, <2>3, <2>4, <3>2 DEF HasSafe, Reports, Safe, OnItsWay
    <3>3. QED
        BY <3>1, <3>2
  <2>6. ASSUME NEW w \in Writers PROVE Brings(w)'
    <3>1. pc[w] # "idle" => mem'[led[w]] = mem[led[w]]
        BY <2>2, <2>1 DEF WriterInv, TypeOK, Ledgers, new
    <3>2. QED
        BY <1>0, <3>1 DEF Brings, Safe
  <2>7. QED
      BY <1>0, <1>1, <2>2, <2>5, <2>6 DEF SavedUnlessExposed
<1>2. CASE ~(file # Absent /\ Accepts(file))
    BY <1>0, <1>2 DEF Start, SavedUnlessExposed, HasSafe, Reports, Brings, Safe, OnItsWay
<1>3. QED
    BY <1>1, <1>2

\* An append to g exposes what g has missed and, when somebody is behind, its
\* own event; whatever is still safe is in g.
LEMMA AppendExposes ==
    ASSUME PersistenceInv, ExposureInv, NEW w \in Writers, NEW g \in 1 .. loaded,
           AppendEvent(w, g)
    PROVE  ExposureInv'
<1> USE PersistenceAssumption DEF PersistenceInv, ExposureInv
<1>0. g \in Ledgers /\ mem[g] \in Logs /\ born \in Nat /\ status = "up"
    BY DEF TypeOK, Ledgers
<1>1. PICK e \in LedgerEvent : /\ e.hash = born + 1
                               /\ mem' = [mem EXCEPT ![g] = Append(mem[g], e)]
    BY AppendSafe
<1>2. /\ HashesOf(mem'[g]) = HashesOf(mem[g]) \cup {born + 1}
      /\ \A h \in Ledgers : h # g => mem'[h] = mem[h]
  <2>1. HashesOf(Append(mem[g], e)) = HashesOf(mem[g]) \cup {e.hash}
      BY <1>0, HashesGrow
  <2>2. mem'[g] = Append(mem[g], e) /\ \A h \in Ledgers : h # g => mem'[h] = mem[h]
      BY <1>0, <1>1 DEF TypeOK
  <2>3. QED
      BY <1>1, <2>1, <2>2
<1>3. /\ UNCHANGED <<file, loaded, lastError, snap, saved>> /\ born' = born + 1
      /\ pc[w] = "idle" /\ pc'[w] = "snapshot" /\ led'[w] = g /\ own'[w] = born + 1
      /\ \A x \in Writers : x # w => pc'[x] = pc[x] /\ led'[x] = led[x] /\ own'[x] = own[x]
    BY DEF AppendEvent, Expose, diskVars, TypeOK
<1>4. /\ exposed \subseteq exposed' /\ missed[g] \subseteq exposed'
      /\ (\E x \in Writers : Behind(x, g)) => born + 1 \in exposed'
      /\ missed'[g] = missed[g]
      /\ \A h \in 1 .. loaded : h # g => missed'[h] = missed[h] \cup {born + 1}
    BY <1>0 DEF AppendEvent, Expose, TypeOK, Ledgers
<1>5. \A h \in Safe' : (h \in Safe /\ h \notin missed[g]) \/ h = born + 1
    BY <1>0, <1>3, <1>4 DEF Safe
<1>6. (1 .. born) \subseteq (1 .. born')
    BY <1>0, <1>3
<1>7. Safe' \subseteq HashesOf(mem'[g])
    BY <1>2, <1>5 DEF HasSafe
<1>8. ASSUME NEW h \in 1 .. loaded' PROVE HasSafe(h)'
  <2>1. CASE h = g
      BY <1>7, <2>1 DEF HasSafe
  <2>2. CASE h # g
    <3>1. h \in 1 .. loaded /\ h \in Ledgers
        BY <1>3 DEF TypeOK, Ledgers
    <3>2. mem'[h] = mem[h] /\ missed'[h] = missed[h] \cup {born + 1}
        BY <1>2, <1>4, <2>2, <3>1
    <3>3. Safe \subseteq HashesOf(mem[h]) \cup missed[h]
        BY <3>1 DEF HasSafe
    <3>4. Safe' \subseteq HashesOf(mem'[h]) \cup missed'[h]
        BY <1>5, <3>2, <3>3
    <3>5. QED
        BY <3>4 DEF HasSafe
  <2>3. QED
      BY <2>1, <2>2
<1>9. ASSUME NEW h \in 1 .. loaded' PROVE Reports(h)'
  <2>1. \A n : OnItsWay(h, n) => OnItsWay(h, n)'
      BY <1>3 DEF OnItsWay
  <2>2. CASE h = g
    <3>1. OnItsWay(g, e.hash)'
        BY <1>1, <1>3 DEF OnItsWay
    <3>2. \A n \in HashesOf(mem'[g]) : n \in HashesOf(mem[g]) \/ n = e.hash
        BY <1>1, <1>2
    <3>3. QED
        BY <1>3, <1>4, <2>1, <2>2, <3>1, <3>2 DEF Reports
  <2>3. CASE h # g
    <3>1. mem'[h] = mem[h]
        BY <1>2, <1>3, <2>3 DEF Ledgers, TypeOK
    <3>2. QED
        BY <1>3, <1>4, <2>1, <2>3, <3>1 DEF Reports
  <2>4. QED
      BY <2>2, <2>3
<1>10. ASSUME NEW x \in Writers PROVE Brings(x)'
  <2>1. CASE x = w
      BY <1>3, <1>7, <2>1 DEF Brings
  <2>2. CASE x # w
    <3>1. CASE pc[x] = "snapshot" /\ led[x] = g
        BY <1>3, <1>7, <2>2, <3>1 DEF Brings
    <3>2. CASE Behind(x, g)
      <4>1. Safe' \subseteq Safe
          BY <1>4, <1>5, <3>2 DEF Safe
      <4>2. pc[x] = "snapshot" => mem'[led[x]] = mem[led[x]]
          BY <1>2, <3>2 DEF Behind, WriterInv, TypeOK, Ledgers
      <4>3. QED
          BY <1>3, <2>2, <4>1, <4>2 DEF Brings
    <3>3. CASE pc[x] \in {"idle", "failed"}
        BY <1>3, <2>2, <3>3 DEF Brings
    <3>4. QED
        BY <3>1, <3>2, <3>3 DEF Behind, TypeOK
  <2>3. QED
      BY <2>1, <2>2
<1>11. \A h \in Ledgers : HashesOf(mem'[h]) \subseteq 1 .. born'
  <2>1. born + 1 \in 1 .. born'
      BY <1>0, <1>3
  <2>2. QED
      BY <1>2, <1>6, <2>1
<1>12. SavedUnlessExposed'
    BY <1>3, <1>4 DEF SavedUnlessExposed
<1>13. saved' \subseteq 1 .. born' /\ (file' # Absent => HashesOf(file') \subseteq 1 .. born')
    BY <1>3, <1>6
<1>14. QED
    BY <1>8, <1>9, <1>10, <1>11, <1>12, <1>13

\* Every step keeps it.
LEMMA ExposureNext == PersistenceInv /\ ExposureInv /\ [Next]_vars => ExposureInv'
<1> SUFFICES ASSUME PersistenceInv, ExposureInv, [Next]_vars PROVE ExposureInv'
    OBVIOUS
<1> USE PersistenceAssumption DEF PersistenceInv, ExposureInv
<1>1. CASE Crash
  <2>1. HashesOf(<<>>) = {}
      BY DEF HashesOf
  <2>2. QED
      BY <1>1, <2>1 DEF Crash, SavedUnlessExposed, Brings
<1>2. ASSUME NEW w \in Writers, TakeSnapshot(w) PROVE ExposureInv'
  <2>1. /\ UNCHANGED <<file, mem, lastError, loaded, led, own, born, saved, missed, exposed>>
        /\ pc[w] = "snapshot" /\ pc'[w] = "commit" /\ snap'[w] = mem[led[w]]
        /\ \A x \in Writers : x # w => pc'[x] = pc[x] /\ snap'[x] = snap[x]
      BY <1>2 DEF TakeSnapshot, diskVars, logVars, history, TypeOK
  <2>2. \A g, e : OnItsWay(g, e) => OnItsWay(g, e)'
      BY <2>1 DEF OnItsWay
  <2>3. \A g \in 1 .. loaded : HasSafe(g)' /\ Reports(g)'
      BY <2>1, <2>2 DEF HasSafe, Reports, Safe
  <2>4. \A x \in Writers : Brings(x)'
      BY <2>1 DEF Brings, Safe
  <2>5. QED
      BY <2>1, <2>3, <2>4 DEF SavedUnlessExposed
<1>3. ASSUME NEW w \in Writers, CommitSnapshot(w) PROVE ExposureInv'
  <2>1. /\ UNCHANGED <<mem, lastError, loaded, snap, led, own, born, saved, missed, exposed>>
        /\ pc[w] = "commit" /\ pc'[w] = "saved" /\ file' = snap[w]
        /\ \A x \in Writers : x # w => pc'[x] = pc[x]
      BY <1>3 DEF CommitSnapshot, logVars, history, TypeOK
  <2>2. Safe' \subseteq HashesOf(file') /\ Safe' = Safe
      BY <2>1 DEF Brings, Safe
  <2>3. HashesOf(file') \subseteq 1 .. born
    <3>1. /\ led[w] \in Ledgers /\ snap[w] \in Logs /\ mem[led[w]] \in Logs
          /\ Below(snap[w], mem[led[w]])
        BY <2>1 DEF WriterInv, TypeOK, Ledgers
    <3>2. QED
        BY <2>1, <3>1, HashesGrow
  <2>4. \A g \in 1 .. loaded : HasSafe(g)' /\ Reports(g)'
      BY <2>1, <2>2 DEF HasSafe, Reports, Safe, TypeOK, Ledgers
  <2>5. \A x \in Writers : Brings(x)'
      BY <2>1, <2>2 DEF Brings
  <2>6. SavedUnlessExposed'
      BY <2>1, <2>2 DEF SavedUnlessExposed, Safe
  <2>7. QED
      BY <2>1, <2>3, <2>4, <2>5, <2>6
<1>4. ASSUME NEW w \in Writers, SaveFails(w) PROVE ExposureInv'
  <2>1. /\ UNCHANGED <<file, mem, lastError, loaded, snap, led, own, born, saved, missed, exposed>>
        /\ pc[w] = "commit" /\ pc'[w] = "failed"
        /\ \A x \in Writers : x # w => pc'[x] = pc[x]
      BY <1>4 DEF SaveFails, diskVars, logVars, history, TypeOK
  <2>2. \A g, e : OnItsWay(g, e) => OnItsWay(g, e)'
      BY <2>1 DEF OnItsWay
  <2>3. \A g \in 1 .. loaded : HasSafe(g)' /\ Reports(g)'
      BY <2>1, <2>2 DEF HasSafe, Reports, Safe
  <2>4. \A x \in Writers : Brings(x)'
      BY <2>1 DEF Brings, Safe
  <2>5. QED
      BY <2>1, <2>3, <2>4 DEF SavedUnlessExposed
<1>5. ASSUME NEW w \in Writers, StoreOutcome(w) PROVE ExposureInv'
  <2>1. /\ UNCHANGED <<file, mem, loaded, born, missed, exposed>> /\ pc'[w] = "idle"
        /\ pc[w] \in {"saved", "failed"} /\ Safe' = Safe
        /\ \A x \in Writers : x # w => /\ pc'[x] = pc[x] /\ snap'[x] = snap[x]
                                       /\ led'[x] = led[x] /\ own'[x] = own[x]
      BY <1>5 DEF StoreOutcome, Return, diskVars, TypeOK, Safe
  <2>2. /\ led[w] \in 1 .. loaded /\ led[w] \in Ledgers /\ own[w] \in 1 .. born
        /\ \A g \in Ledgers : lastError'[g] = IF g = led[w] THEN pc[w] = "failed" ELSE lastError[g]
      BY <1>5, <2>1 DEF StoreOutcome, WriterInv, TypeOK, Ledgers
  <2>3. ASSUME NEW g \in 1 .. loaded PROVE Reports(g)'
    <3>1. CASE g = led[w] /\ pc[w] = "saved"
        BY <2>1, <2>2, <3>1 DEF Reports, Brings, Safe
    <3>2. CASE g = led[w] /\ pc[w] = "failed"
        BY <2>2, <3>2 DEF Reports
    <3>3. CASE g # led[w]
      <4>1. \A e : OnItsWay(g, e) => OnItsWay(g, e)'
          BY <2>1, <3>3 DEF OnItsWay
      <4>2. lastError'[g] = lastError[g]
          BY <2>2, <3>3 DEF TypeOK, Ledgers
      <4>3. QED
          BY <2>1, <4>1, <4>2 DEF Reports
    <3>4. QED
        BY <2>1, <3>1, <3>2, <3>3
  <2>4. \A g \in 1 .. loaded : HasSafe(g)'
      BY <2>1 DEF HasSafe
  <2>5. \A x \in Writers : Brings(x)'
      BY <2>1 DEF Brings
  <2>6. saved' \subseteq 1 .. born /\ SavedUnlessExposed'
    <3>1. CASE pc[w] = "saved"
      <4>1. saved' = saved \cup {own[w]} /\ (own[w] \in Safe => own[w] \in HashesOf(file))
          BY <1>5, <3>1 DEF StoreOutcome, Return, Brings
      <4>2. QED
          BY <2>1, <2>2, <4>1 DEF SavedUnlessExposed, Safe
    <3>2. CASE pc[w] # "saved"
        BY <1>5, <2>1, <3>2 DEF StoreOutcome, Return, SavedUnlessExposed
    <3>3. QED
        BY <3>1, <3>2
  <2>7. QED
      BY <2>1, <2>3, <2>4, <2>5, <2>6
<1>6. CASE UNCHANGED vars
    BY <1>6 DEF vars, diskVars, logVars, writerVars, history, SavedUnlessExposed, HasSafe,
                Reports, Brings, Safe, OnItsWay
<1>7. QED
    BY <1>1, <1>2, <1>3, <1>4, <1>5, <1>6, StartExposes, AppendExposes DEF Next

\* The invariant holds in every state.
LEMMA ExposureAlways == Spec => []ExposureInv
BY ExposureInit, ExposureNext, PersistenceSafe, PTL DEF Spec

\* An event whose Append reported a successful Save stays on disk, across
\* failed saves, resets, crashes and restarts, unless a snapshot without it
\* came after it.
THEOREM SavedIsDurable == Spec => []SavedUnlessExposed
<1>1. ExposureInv => SavedUnlessExposed
    BY DEF ExposureInv
<1>2. QED
    BY <1>1, ExposureAlways, PTL

\* PersistenceError is nil in a quiet ledger only when the file holds every
\* event of it that is not exposed.
THEOREM FailuresAreReported == Spec => []ErrorReported
<1>1. ExposureInv => ErrorReported
    BY DEF ExposureInv, ErrorReported, Reports, OnItsWay
<1>2. QED
    BY <1>1, ExposureAlways, PTL
-----------------------------------------------------------------------------
Stages == {"idle", "lookup", "record", "finish"}

\* The nonce a validator works on, and whether a Reset came since it began.
Holds(v, n) == stage[v] # "idle" /\ job[v].contract.nonce = n
Current(v) == job[v].epoch = resets

\* v is between the lookup and the record, or on its way there; v will accept
\* its contract unless a Reset comes first.
Pending(v, n) == stage[v] \in {"lookup", "record"} /\ Holds(v, n)
WillAccept(v, n) == stage[v] = "finish" /\ Holds(v, n) /\ Current(v) /\ job[v].errors = {}

Errors == {"version", "signature", "expired", "digest", "widening", "provenance", "replay"}
Job == [contract : Contracts, errors : SUBSET Errors, epoch : Nat]

\* The types, with what a validation under way carries.
NonceTypeOK ==
    /\ seen \subseteq Nonces /\ presented \subseteq Nonces /\ raced \subseteq Nonces
    /\ stage \in [Validators -> Stages] /\ accepted \in [Nonces -> Nat]
    /\ DOMAIN job = Validators /\ job = [v \in Validators |-> job[v]] /\ resets \in Nat
    /\ \A v \in Validators : stage[v] # "idle" => job[v] \in Job /\ job[v].epoch <= resets

\* The ledger.  What is under way has been presented; a validation that has
\* passed the record without being refused has its nonce in the ledger.
LedgerInv ==
    /\ NonceLedgerExact
    /\ \A v \in Validators, n \in Nonces :
           /\ Holds(v, n) => n \in presented
           /\ WillAccept(v, n) => n \in seen

\* Replays.  Of a nonce that did not race since the last Reset, at most one
\* validation is between lookup and record if one of them began after it; past
\* the lookup nothing was or will be accepted but its own contract.
RaceInv ==
    \A n \in Nonces : n \notin raced =>
        /\ accepted[n] <= 1
        /\ \A v, x \in Validators : Pending(v, n) /\ Pending(x, n) /\ Current(v) => v = x
        /\ \A v \in Validators : stage[v] = "record" /\ Holds(v, n) /\ Current(v) =>
               accepted[n] = 0 /\ \A x \in Validators : ~WillAccept(x, n)
        /\ \A v, x \in Validators : WillAccept(v, n) /\ WillAccept(x, n) => v = x
        /\ \A v \in Validators : WillAccept(v, n) => accepted[n] = 0

HandoffInv == NonceTypeOK /\ LedgerInv /\ RaceInv
-----------------------------------------------------------------------------
\* A contract's nonce is a nonce, and the checks report known errors.
LEMMA ContractFacts ==
    ASSUME NEW k \in Contracts, NEW now
    PROVE  k.nonce \in Nonces /\ StaticErrors(k, now) \subseteq Errors
BY HandoffAssumption DEF Contract, StaticErrors, Errors

\* The empty validator satisfies the invariant.
LEMMA HandoffInvInit == HandoffInit => HandoffInv
BY DEF HandoffInit, HandoffInv, NonceTypeOK, LedgerInv, RaceInv, NonceLedgerExact, Stages,
       Holds, Pending, WillAccept

\* A validation that begins with a nonce that is being looked up marks the
\* nonce as raced; otherwise it is the only one between lookup and record.
LEMMA BeginStep ==
    ASSUME HandoffInv, NEW v \in Validators, NEW k \in Contracts, Begin(v, k)
    PROVE  HandoffInv'
<1>1. k.nonce \in Nonces /\ StaticErrors(k, clock) \in SUBSET Errors
    BY ContractFacts
<1>2. /\ stage' = [stage EXCEPT ![v] = "lookup"] /\ stage[v] = "idle"
      /\ \A x \in Validators : x # v => stage'[x] = stage[x] /\ job'[x] = job[x]
      /\ stage'[v] = "lookup" /\ job'[v] \in Job /\ job'[v].contract.nonce = k.nonce
      /\ job'[v].epoch = resets
    BY <1>1 DEF Begin, HandoffInv, NonceTypeOK, Job, Stages
<1>3. NonceTypeOK'
  <2>1. NonceTypeOK /\ UNCHANGED <<seen, accepted, resets>>
        /\ presented' = presented \cup {k.nonce} /\ raced' \in {raced, raced \cup {k.nonce}}
      BY DEF Begin, HandoffInv
  <2>2. DOMAIN job' = Validators /\ job' = [x \in Validators |-> job'[x]]
      BY <2>1 DEF Begin, NonceTypeOK
  <2>3. stage' \in [Validators -> Stages]
      BY <1>2, <2>1 DEF NonceTypeOK, Stages
  <2>4. \A x \in Validators : stage'[x] # "idle" => job'[x] \in Job /\ job'[x].epoch <= resets'
      BY <1>2, <2>1 DEF NonceTypeOK
  <2>5. QED
      BY <1>1, <2>1, <2>2, <2>3, <2>4 DEF NonceTypeOK
<1>4. /\ \A x \in Validators, n \in Nonces : WillAccept(x, n)' => WillAccept(x, n)
      /\ \A x \in Validators, n \in Nonces : x # v => (Pending(x, n)' <=> Pending(x, n))
      /\ \A n \in Nonces : Pending(v, n)' <=> n = k.nonce
    BY <1>2 DEF Begin, WillAccept, Pending, Holds, Current
<1>5. LedgerInv'
    BY <1>2, <1>4 DEF Begin, HandoffInv, NonceTypeOK, LedgerInv, NonceLedgerExact, Holds
<1>6. RaceInv'
  <2> SUFFICES ASSUME NEW n \in Nonces, n \notin raced' PROVE
        /\ accepted'[n] <= 1
        /\ \A y, x \in Validators : (Pending(y, n) /\ Pending(x, n) /\ Current(y))' => y = x
        /\ \A y \in Validators : (stage[y] = "record" /\ Holds(y, n) /\ Current(y))' =>
               accepted'[n] = 0 /\ \A x \in Validators : ~WillAccept(x, n)'
        /\ \A y, x \in Validators : (WillAccept(y, n) /\ WillAccept(x, n))' => y = x
        /\ \A y \in Validators : WillAccept(y, n)' => accepted'[n] = 0
      BY DEF RaceInv
  <2>1. n \notin raced /\ accepted' = accepted /\ resets' = resets
      BY DEF Begin
  <2>2. n = k.nonce => \A x \in Validators : ~Pending(x, n)
      BY DEF Begin, Pending, Holds
  <2>3. \A y, x \in Validators : (Pending(y, n) /\ Pending(x, n) /\ Current(y))' => y = x
      BY <1>2, <1>4, <2>1, <2>2 DEF HandoffInv, RaceInv, Current
  <2>4. \A y \in Validators : (stage[y] = "record" /\ Holds(y, n) /\ Current(y))' =>
               accepted'[n] = 0 /\ \A x \in Validators : ~WillAccept(x, n)'
      BY <1>2, <1>4, <2>1 DEF HandoffInv, RaceInv, Current, Holds
  <2>5. QED
      BY <1>4, <2>1, <2>3, <2>4 DEF HandoffInv, RaceInv
<1>7. QED
    BY <1>3, <1>5, <1>6 DEF HandoffInv

\* A nonce that is not in the ledger has not been accepted, and no validation
\* is about to accept it.
LEMMA LookupStep ==
    ASSUME HandoffInv, NEW v \in Validators, LookupNonce(v)
    PROVE  HandoffInv'
<1> DEFINE n0 == job[v].contract.nonce
<1>1. n0 \in Nonces /\ job[v] \in Job
    BY ContractFacts DEF LookupNonce, HandoffInv, NonceTypeOK, Job
<1>2. /\ stage[v] = "lookup" /\ stage'[v] \in {"finish", "record"}
      /\ stage'[v] = "record" => n0 \notin seen /\ job' = job
      /\ stage'[v] = "finish" => job'[v].errors # {}
      /\ \A x \in Validators : x # v => stage'[x] = stage[x] /\ job'[x] = job[x]
      /\ job'[v] \in Job /\ job'[v].contract = job[v].contract
      /\ job'[v].epoch = job[v].epoch
      /\ stage' \in [Validators -> Stages]
      /\ DOMAIN job' = Validators /\ job' = [x \in Validators |-> job'[x]]
    BY <1>1 DEF LookupNonce, HandoffInv, NonceTypeOK, Job, Stages, Errors
<1>3. UNCHANGED <<seen, accepted, presented, raced, resets>>
    BY DEF LookupNonce
<1>4. NonceTypeOK'
    BY <1>2, <1>3 DEF HandoffInv, NonceTypeOK
<1>5. \A x \in Validators, n \in Nonces :
        /\ Holds(x, n)' <=> Holds(x, n)
        /\ Current(x)' <=> Current(x)
        /\ Pending(x, n)' => Pending(x, n)
        /\ WillAccept(x, n)' => WillAccept(x, n)
        /\ (stage[x] = "record" /\ Holds(x, n))' =>
              (stage[x] = "record" /\ Holds(x, n)) \/ (x = v /\ n \notin seen)
    BY <1>2, <1>3 DEF Holds, Current, Pending, WillAccept
<1>6. LedgerInv'
    BY <1>3, <1>5 DEF HandoffInv, LedgerInv, NonceLedgerExact
<1>7. \A n \in Nonces : n \notin seen =>
        accepted[n] = 0 /\ \A x \in Validators : ~WillAccept(x, n)
    BY DEF HandoffInv, LedgerInv, NonceLedgerExact, NonceTypeOK
<1>8. RaceInv'
    BY <1>3, <1>5, <1>7 DEF HandoffInv, RaceInv
<1>9. QED
    BY <1>4, <1>6, <1>8 DEF HandoffInv

\* Recording the nonce makes its own validation the one that may accept it.
LEMMA RecordStep ==
    ASSUME HandoffInv, NEW v \in Validators, RecordNonce(v)
    PROVE  HandoffInv'
<1> DEFINE n0 == job[v].contract.nonce
<1>1. n0 \in Nonces /\ job[v] \in Job
    BY ContractFacts DEF RecordNonce, HandoffInv, NonceTypeOK, Job
<1>2. /\ stage[v] = "record" /\ stage'[v] = "finish"
      /\ \A x \in Validators : x # v => stage'[x] = stage[x]
      /\ stage' \in [Validators -> Stages]
      /\ seen' = seen \cup {n0}
      /\ UNCHANGED <<job, accepted, presented, raced, resets>>
    BY DEF RecordNonce, HandoffInv, NonceTypeOK, Stages
<1>3. NonceTypeOK'
    BY <1>1, <1>2 DEF HandoffInv, NonceTypeOK
<1>4. \A x \in Validators, n \in Nonces :
        /\ Holds(x, n)' <=> Holds(x, n)
        /\ Current(x)' <=> Current(x)
        /\ Pending(x, n)' => Pending(x, n) /\ x # v
        /\ WillAccept(x, n)' => WillAccept(x, n) \/ (x = v /\ n = n0 /\ Holds(v, n) /\ Current(v))
        /\ (stage[x] = "record" /\ Holds(x, n))' => stage[x] = "record" /\ Holds(x, n) /\ x # v
    BY <1>2 DEF Holds, Current, Pending, WillAccept
<1>5. Holds(v, n0)
    BY <1>2 DEF Holds
<1>6. LedgerInv'
    BY <1>1, <1>2, <1>4, <1>5 DEF HandoffInv, LedgerInv, NonceLedgerExact
<1>7. \A n \in Nonces, x \in Validators :
        stage[x] = "record" /\ Holds(x, n) => Pending(x, n)
    BY DEF Pending
<1>8. RaceInv'
    BY <1>2, <1>4, <1>5, <1>7 DEF HandoffInv, RaceInv
<1>9. QED
    BY <1>3, <1>6, <1>8 DEF HandoffInv

\* The validation that finishes without an error is the only acceptance.
LEMMA FinishStep ==
    ASSUME HandoffInv, NEW v \in Validators, Finish(v)
    PROVE  HandoffInv'
<1> DEFINE n0 == job[v].contract.nonce
<1>1. n0 \in Nonces /\ job[v] \in Job
    BY ContractFacts DEF Finish, HandoffInv, NonceTypeOK, Job
<1>2. /\ stage[v] = "finish" /\ stage'[v] = "idle"
      /\ \A x \in Validators : x # v => stage'[x] = stage[x] /\ job'[x] = job[x]
      /\ stage' \in [Validators -> Stages]
      /\ DOMAIN job' = Validators /\ job' = [x \in Validators |-> job'[x]]
      /\ UNCHANGED <<seen, presented, raced, resets>>
    BY DEF Finish, HandoffInv, NonceTypeOK, Stages
<1>3. /\ accepted' \in [Nonces -> Nat]
      /\ \A n \in Nonces : accepted'[n] = accepted[n]
                          \/ (n = n0 /\ WillAccept(v, n) /\ accepted'[n] = accepted[n] + 1)
    BY <1>1 DEF Finish, HandoffInv, NonceTypeOK, WillAccept, Holds, Current
<1>4. NonceTypeOK'
    BY <1>2, <1>3 DEF HandoffInv, NonceTypeOK
<1>5. \A x \in Validators, n \in Nonces :
        /\ Holds(x, n)' => Holds(x, n) /\ x # v
        /\ x # v => (Current(x)' <=> Current(x))
        /\ Pending(x, n)' => Pending(x, n) /\ x # v
        /\ WillAccept(x, n)' => WillAccept(x, n) /\ x # v
        /\ (stage[x] = "record" /\ Holds(x, n))' => stage[x] = "record" /\ Holds(x, n) /\ x # v
    BY <1>2 DEF Holds, Current, Pending, WillAccept
<1>6. LedgerInv'
    BY <1>2, <1>3, <1>5 DEF HandoffInv, NonceTypeOK, LedgerInv, NonceLedgerExact
<1>7. RaceInv'
    BY <1>2, <1>3, <1>5 DEF HandoffInv, NonceTypeOK, RaceInv
<1>8. QED
    BY <1>4, <1>6, <1>7 DEF HandoffInv

\* After a Reset no validation under way counts as begun since.
LEMMA ResetStep == ASSUME HandoffInv, Reset PROVE HandoffInv'
<1>1. \A x \in Validators : stage[x] # "idle" => ~Current(x)'
    BY DEF Reset, HandoffInv, NonceTypeOK, Job, Current
<1>2. InFlight \subseteq Nonces
    BY ContractFacts DEF InFlight, HandoffInv, NonceTypeOK, Job
<1>3. NonceTypeOK'
    BY <1>2 DEF Reset, HandoffInv, NonceTypeOK, Job
<1>4. \A x \in Validators, n \in Nonces :
        /\ ~WillAccept(x, n)' /\ (Holds(x, n)' => n \in InFlight)
        /\ (Holds(x, n)' => ~Current(x)') /\ (Pending(x, n)' => ~Current(x)')
    BY <1>1 DEF Reset, WillAccept, Holds, Pending, InFlight
<1>5. LedgerInv'
    BY <1>4 DEF Reset, LedgerInv, NonceLedgerExact
<1>6. RaceInv'
    BY <1>4 DEF Reset, RaceInv
<1>7. QED
    BY <1>3, <1>5, <1>6 DEF HandoffInv

\* Every step of every interleaving keeps the invariant.
LEMMA HandoffInvStep == HandoffInv /\ [HandoffNext]_handoffVars => HandoffInv'
<1> SUFFICES ASSUME HandoffInv, [HandoffNext]_handoffVars PROVE HandoffInv'
    OBVIOUS
<1>1. CASE Tick \/ UNCHANGED handoffVars
    BY <1>1 DEF Tick, handoffVars, HandoffInv, NonceTypeOK, LedgerInv, RaceInv, NonceLedgerExact,
                Holds, Current, Pending, WillAccept
<1>2. QED
    BY <1>1, BeginStep, LookupStep, RecordStep, FinishStep, ResetStep DEF HandoffNext

\* However many validations, contracts and resets there are, the invariant
\* holds in every state.
LEMMA HandoffInvAlways == HandoffSpec => []HandoffInv
BY HandoffInvInit, HandoffInvStep, PTL DEF HandoffSpec

\* ValidateHandoff accepts a nonce twice only when two validations of it
\* overlapped between isReplayedNonce and recordNonce.
THEOREM ReplayNeedsRaceThm == HandoffSpec => []ReplayNeedsRace
<1>1. HandoffInv => ReplayNeedsRace
    BY DEF HandoffInv, NonceTypeOK, RaceInv, ReplayNeedsRace
<1>2. QED
    BY <1>1, HandoffInvAlways, PTL

\* The nonce ledger holds presented nonces only, and every accepted one until
\* the next Reset.
THEOREM NonceLedgerExactThm == HandoffSpec => []NonceLedgerExact
<1>1. HandoffInv => NonceLedgerExact
    BY DEF HandoffInv, LedgerInv
<1>2. QED
    BY <1>1, HandoffInvAlways, PTL
=============================================================================
