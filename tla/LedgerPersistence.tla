------------------------- MODULE LedgerPersistence -------------------------
(***************************************************************************)
(* Snapshot persistence of the control-plane ledger: Ledger.Append, Save   *)
(* and LoadLedger (internal/controlplane/ledger.go), and                   *)
(* SetupDemoEnvironment (internal/investordemo/scenarios.go), which loads  *)
(* the ledger when the process starts and again, over the same file, when  *)
(* handleReset or handleInvestorDemo (api_server.go) replaces it live.     *)
(*                                                                         *)
(* Append writes the event under the ledger's lock, and releases it before *)
(* Save: taking the snapshot, renaming the temporary file over the ledger  *)
(* file and storing the outcome are separate steps, and any number of      *)
(* appends run concurrently.  A request that took the setup before it was  *)
(* replaced goes on appending to the old ledger, which still saves to the  *)
(* file.  SHA-256 is taken to be injective: the hash of an event is a      *)
(* number no other event has.                                              *)
(***************************************************************************)
EXTENDS Integers, Sequences, SequencesExt

CONSTANTS Writers,       \* goroutines that append
          Absent,        \* the file does not exist
          InitialFile,   \* the ledger file found at the first start
          MaxEvents,     \* bound on the events ever appended
          MaxLoads,      \* bound on the ledgers one process loads
          MaxCrashes     \* bound on the crashes

NoHash == 0
LedgerEvent == [hash : 1..MaxEvents, prev : 0..MaxEvents]
Ledgers == 1..MaxLoads

ASSUME PersistenceAssumption ==
    /\ MaxEvents \in Nat /\ MaxLoads \in Nat \ {0} /\ MaxCrashes \in Nat
    /\ InitialFile \in {Absent, <<>>}
    /\ Absent \notin Seq(LedgerEvent)

VARIABLES status,      \* "down", "up", or "panicked" at startup
          loaded,      \* ledgers this process has loaded; the last is in use
          mem,         \* per ledger: Ledger.events
          lastError,   \* per ledger: lastPersistenceError # nil
          file,        \* the ledger file: Absent or a sequence of events
          pc,          \* per writer: idle, snapshot, commit, saved, failed
          led,         \* per writer: the ledger it appends to
          snap,        \* per writer: the copy of the events being saved
          own,         \* per writer: the hash of the event being appended
          born,        \* events ever appended
          crashes

\* History of what the properties speak of, all of it sets of hashes.
VARIABLES saved,       \* the Append returned with its Save successful
          missed,      \* per ledger: not promised to be in the file when it was
                       \* loaded, or appended to another ledger since
          exposed      \* a snapshot without the event was, or had just been, on
                       \* its way to the file after the event was appended

diskVars == <<file, crashes>>
logVars == <<status, loaded, mem, lastError>>
writerVars == <<pc, led, snap, own, born>>
history == <<saved, missed, exposed>>
vars == <<diskVars, logVars, writerVars, history>>

Init ==
    /\ status = "down" /\ loaded = 0
    /\ mem = [g \in Ledgers |-> <<>>] /\ lastError = [g \in Ledgers |-> FALSE]
    /\ file = InitialFile
    /\ pc = [w \in Writers |-> "idle"] /\ led = [w \in Writers |-> 0]
    /\ snap = [w \in Writers |-> <<>>] /\ own = [w \in Writers |-> NoHash]
    /\ born = 0 /\ crashes = 0
    /\ saved = {} /\ missed = [g \in Ledgers |-> {}] /\ exposed = {}
-----------------------------------------------------------------------------
\* The chain LoadLedger accepts: each event links to the one before it.
Accepts(log) ==
    \A i \in DOMAIN log : log[i].prev = IF i = 1 THEN NoHash ELSE log[i - 1].hash

\* Mutant: the restored events are dropped.
Start_startsEmpty ==
    /\ status # "panicked" /\ loaded < MaxLoads
    /\ IF file # Absent /\ Accepts(file)
       THEN /\ status' = "up" /\ loaded' = loaded + 1
            /\ missed' = [missed EXCEPT ![loaded + 1] = (1..born) \ (saved \ exposed)]
            /\ UNCHANGED mem
       ELSE /\ status' = IF status = "down" THEN "panicked" ELSE status
            /\ UNCHANGED <<loaded, mem, missed>>
    /\ UNCHANGED <<diskVars, lastError, writerVars, saved, exposed>>

\* SetupDemoEnvironment, at the start of the process and for a reset: a new
\* ledger is restored from the file.  If that fails it panics, which ends the
\* process at its start and only the request later.  The error of LoadLedger
\* wraps the one of os.ReadFile and os.IsNotExist does not unwrap it, so a
\* missing file panics too.
Start ==
    /\ status # "panicked" /\ loaded < MaxLoads
    /\ IF file # Absent /\ Accepts(file)
       THEN /\ status' = "up" /\ loaded' = loaded + 1
            /\ mem' = [mem EXCEPT ![loaded + 1] = file]
            /\ missed' = [missed EXCEPT ![loaded + 1] = (1..born) \ (saved \ exposed)]
       ELSE /\ status' = IF status = "down" THEN "panicked" ELSE status
            /\ UNCHANGED <<loaded, mem, missed>>
    /\ UNCHANGED <<diskVars, lastError, writerVars, saved, exposed>>

\* The process dies: everything but the file is lost.
Crash ==
    /\ status = "up" /\ crashes < MaxCrashes
    /\ status' = "down" /\ loaded' = 0
    /\ mem' = [g \in Ledgers |-> <<>>] /\ lastError' = [g \in Ledgers |-> FALSE]
    /\ pc' = [w \in Writers |-> "idle"] /\ led' = [w \in Writers |-> 0]
    /\ snap' = [w \in Writers |-> <<>>] /\ own' = [w \in Writers |-> NoHash]
    /\ missed' = [g \in Ledgers |-> {}]
    /\ crashes' = crashes + 1
    /\ UNCHANGED <<file, born, saved, exposed>>

LastHash(log) == IF log = <<>> THEN NoHash ELSE log[Len(log)].hash

\* Is an older snapshot under way, or one of another ledger, when an event is
\* appended to g?
Behind(x, g) == pc[x] \in {"commit", "saved"} \/ (pc[x] = "snapshot" /\ led[x] # g)

\* An append to g puts the events g has missed at risk, and its own one if
\* somebody is behind; the other ledgers miss it.
Expose(g) ==
    /\ exposed' = exposed \cup missed[g]
                    \cup {n \in {born + 1} : \E x \in Writers : Behind(x, g)}
    /\ missed' = [h \in Ledgers |-> IF h \in 1..loaded \ {g} THEN missed[h] \cup {born + 1}
                                                             ELSE missed[h]]
    /\ UNCHANGED saved

\* Mutant: the link is taken from the snapshot on disk.
AppendEvent_linkToFile(w, g) ==
    /\ pc[w] = "idle" /\ born < MaxEvents
    /\ born' = born + 1
    /\ mem' = [mem EXCEPT ![g] = Append(@, [hash |-> born + 1, prev |-> LastHash(file)])]
    /\ own' = [own EXCEPT ![w] = born + 1] /\ led' = [led EXCEPT ![w] = g]
    /\ pc' = [pc EXCEPT ![w] = "snapshot"]
    /\ Expose(g)
    /\ UNCHANGED <<diskVars, status, loaded, lastError, snap>>

\* Append, under the lock, to the ledger in use or to one that was replaced
\* while the request was under way.
AppendEvent(w, g) ==
    /\ pc[w] = "idle" /\ born < MaxEvents
    /\ born' = born + 1
    /\ mem' = [mem EXCEPT ![g] = Append(@, [hash |-> born + 1, prev |-> LastHash(@)])]
    /\ own' = [own EXCEPT ![w] = born + 1] /\ led' = [led EXCEPT ![w] = g]
    /\ pc' = [pc EXCEPT ![w] = "snapshot"]
    /\ Expose(g)
    /\ UNCHANGED <<diskVars, status, loaded, lastError, snap>>

\* Save takes its copy of the events (Events(), under the read lock).
TakeSnapshot(w) ==
    /\ pc[w] = "snapshot"
    /\ snap' = [snap EXCEPT ![w] = mem[led[w]]]
    /\ pc' = [pc EXCEPT ![w] = "commit"]
    /\ UNCHANGED <<diskVars, logVars, led, own, born, history>>

\* The temporary file is complete and renamed over the ledger file.
CommitSnapshot(w) ==
    /\ pc[w] = "commit"
    /\ file' = snap[w]
    /\ pc' = [pc EXCEPT ![w] = "saved"]
    /\ UNCHANGED <<crashes, logVars, led, snap, own, born, history>>

\* Mutant: the snapshot is written in place, and the failure leaves it empty.
SaveFails_inPlace(w) ==
    /\ pc[w] = "commit"
    /\ file' = <<>>
    /\ pc' = [pc EXCEPT ![w] = "failed"]
    /\ UNCHANGED <<crashes, logVars, led, snap, own, born, history>>

\* Creating, writing, syncing or renaming the temporary file fails.
SaveFails(w) ==
    /\ pc[w] = "commit"
    /\ pc' = [pc EXCEPT ![w] = "failed"]
    /\ UNCHANGED <<diskVars, logVars, led, snap, own, born, history>>

\* Append is done: its locals are dropped, and a successful Save is remembered.
Return(w) ==
    /\ saved' = IF pc[w] = "saved" THEN saved \cup {own[w]} ELSE saved
    /\ pc' = [pc EXCEPT ![w] = "idle"] /\ led' = [led EXCEPT ![w] = 0]
    /\ snap' = [snap EXCEPT ![w] = <<>>] /\ own' = [own EXCEPT ![w] = NoHash]
    /\ UNCHANGED <<diskVars, status, loaded, mem, born, missed, exposed>>

\* Mutant: a failed Save does not store its error.
StoreOutcome_forget(w) ==
    /\ pc[w] \in {"saved", "failed"}
    /\ lastError' = [lastError EXCEPT ![led[w]] = FALSE]
    /\ Return(w)

\* Append stores the outcome of Save in its ledger and returns.
StoreOutcome(w) ==
    /\ pc[w] \in {"saved", "failed"}
    /\ lastError' = [lastError EXCEPT ![led[w]] = (pc[w] = "failed")]
    /\ Return(w)

Next ==
    \/ Start \/ Crash
    \/ \E w \in Writers :
         \/ \E g \in 1..loaded : AppendEvent(w, g)
         \/ TakeSnapshot(w) \/ CommitSnapshot(w) \/ SaveFails(w) \/ StoreOutcome(w)

Spec == Init /\ [][Next]_vars
-----------------------------------------------------------------------------
Logs == Seq(LedgerEvent)

TypeOK ==
    /\ status \in {"down", "up", "panicked"} /\ loaded \in 0..MaxLoads
    /\ mem \in [Ledgers -> Logs] /\ lastError \in [Ledgers -> BOOLEAN]
    /\ file \in Logs \cup {Absent} /\ crashes \in 0..MaxCrashes
    /\ pc \in [Writers -> {"idle", "snapshot", "commit", "saved", "failed"}]
    /\ led \in [Writers -> 0..MaxLoads] /\ snap \in [Writers -> Logs]
    /\ own \in [Writers -> 0..MaxEvents] /\ born \in 0..MaxEvents
    /\ saved \subseteq 1..MaxEvents /\ exposed \subseteq 1..MaxEvents
    /\ missed \in [Ledgers -> SUBSET (1..MaxEvents)]

\* Whatever appends, failed saves, resets and crashes came before, the chain
\* on disk is one LoadLedger accepts: a restart never refuses the ledger's own
\* file.
ChainIntact == file # Absent => Accepts(file)

\* The file is never ahead of, or different from, the ledger it was saved
\* from: it is a prefix of one of the ledgers, and each snapshot on its way
\* one of its own ledger.
FileIsPrefix ==
    status = "up" =>
      /\ \E g \in 1..loaded : IsPrefix(file, mem[g])
      /\ \A w \in Writers : pc[w] # "idle" => IsPrefix(snap[w], mem[led[w]])

HashesOf(log) == {log[i].hash : i \in DOMAIN log}

\* An event whose Append returned after a successful Save is on disk from then
\* on, across later appends, failed saves, resets, crashes and restarts
\* ("SetPersistencePath enables snapshot persistence after appends"), with two
\* exceptions: a snapshot taken before the event reached the file after it,
\* or there was an append to a ledger that has missed it, since it was loaded
\* before the event was saved, or replaced before it was appended.
SavedUnlessExposed == saved \ exposed \subseteq HashesOf(file)

\* A ledger with no append under way whose PersistenceError is nil has all its
\* events in the file, but for those exposed: a failed Save is reported until
\* a later one catches up.
ErrorReported ==
    \A g \in 1..loaded :
      ~lastError[g] /\ (\A w \in Writers : pc[w] # "idle" => led[w] # g)
        => HashesOf(mem[g]) \ exposed \subseteq HashesOf(file)
=============================================================================
