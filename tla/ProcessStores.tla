---------------------------- MODULE ProcessStores ----------------------------
(***************************************************************************)
(* Snapshots of the stores that live in the memory of the API process: a   *)
(* start refills them, a background thread writes those that changed, a    *)
(* clean shutdown writes them once more.  Stores are written one by one.   *)
(*                                                                         *)
(* A store's contents are a version: how many changes they include, the    *)
(* items some module fills it with at import being the first.  A store     *)
(* that is emptied again is a later version here; the code does not write  *)
(* it before its first snapshot, as if it had not changed.  Left out:      *)
(* which stores are persistable, the encoding, and several processes on    *)
(* one table, which the module's documentation rules out.                  *)
(***************************************************************************)
EXTENDS Integers

CONSTANTS
  Stores,      \* names given by discover_stores
  Seeded,      \* those their module fills at import, as _asset_library
  None,        \* no store
  MaxVersion,  \* bound on the changes of a store
  FaultKinds,  \* which faults the instance may suffer
  MaxFaults    \* bound on the number of faults

\* connect: the snapshot table cannot be reached when the backend is chosen;
\* load: snapshots cannot be read; encode: a store changes while it is encoded;
\* save: a write fails; slow: the background flush outlasts the join of stop.
AllFaults == {"connect", "load", "encode", "save", "slow", "crash"}

ASSUME StoresAssumption ==
  /\ None \notin Stores /\ Seeded \subseteq Stores
  /\ MaxVersion \in Nat /\ MaxFaults \in Nat
  /\ FaultKinds \subseteq AllFaults

VARIABLES
  phase,    \* the process: down after a crash, up, stopping, or cleanly stopped
  backend,  \* where this process keeps its snapshots
  content,  \* version of each store in memory
  digest,   \* version last known to be written, 0 for none
  saved,    \* version in each backend, 0 for no row
  todo,     \* stores a flush has still to visit
  flush,    \* what each flushing thread is doing
  held,     \* the store whose encoded payload it is about to save
  payload,  \* that payload
  durable,  \* history: the highest version of each store ever saved
  faults,   \* number of faults so far
  suffered  \* history: their kinds

memory == <<content, digest>>
threads == <<todo, flush, held, payload>>
vars == <<phase, backend, content, digest, saved, todo, flush, held, payload, durable, faults,
          suffered>>

Thread == {"ticker", "main"}  \* the background thread, and stop's own flush
Backend == {"db", "file"}

TypeOK ==
  /\ phase \in {"down", "up", "stopping", "stopped"}
  /\ backend \in Backend
  /\ content \in [Stores -> Nat] /\ digest \in [Stores -> Nat]
  /\ saved \in [Backend -> [Stores -> Nat]]
  /\ todo \in [Thread -> SUBSET Stores]
  /\ flush \in [Thread -> {"idle", "visiting"}]
  /\ held \in [Thread -> Stores \cup {None}]
  /\ payload \in [Thread -> Nat]
  /\ \A t \in Thread : flush[t] = "idle" => held[t] = None /\ todo[t] = {}
  /\ durable \in [Stores -> Nat]
  /\ faults \in Nat /\ suffered \subseteq AllFaults

Nothing == [s \in Stores |-> 0]
Imported == [s \in Stores |-> IF s \in Seeded THEN 1 ELSE 0]

Init ==
  /\ phase = "down"
  /\ backend = "db"
  /\ content = Nothing /\ digest = Nothing
  /\ saved = [b \in Backend |-> Nothing]
  /\ todo = [t \in Thread |-> {}]
  /\ flush = [t \in Thread |-> "idle"]
  /\ held = [t \in Thread |-> None]
  /\ payload = [t \in Thread |-> 0]
  /\ durable = Nothing
  /\ faults = 0 /\ suffered = {}

Fault(k) ==
  /\ k \in FaultKinds /\ faults < MaxFaults
  /\ faults' = faults + 1 /\ suffered' = suffered \cup {k}
NoFault == UNCHANGED <<faults, suffered>>

\* The threads of a process that ends.
Quiet ==
  /\ todo' = [t \in Thread |-> {}] /\ flush' = [t \in Thread |-> "idle"]
  /\ held' = [t \in Thread |-> None] /\ payload' = [t \in Thread |-> 0]

\* restore: stores whose snapshot is missing or unreadable stay as they were
\* imported, with no digest; all of them do when load_all fails.
Refill(unread) ==
  LET found == [s \in Stores |-> IF s \in unread THEN 0 ELSE saved[backend'][s]]
  IN /\ digest' = found
     /\ content' = [s \in Stores |-> IF found[s] = 0 THEN Imported[s] ELSE found[s]]

\* A start of the process: _default_backend takes the table, or the state file
\* when the table cannot be reached; restore; then the background thread.
Start ==
  /\ phase \in {"down", "stopped"}
  /\ phase' = "up"
  /\ UNCHANGED <<saved, threads, durable>>
  /\ \/ backend' = "db" /\ Refill({}) /\ NoFault
     \/ backend' = "file" /\ Refill({}) /\ Fault("connect")
     \/ backend' = "db" /\ Fault("load") /\ \E unread \in (SUBSET Stores) \ {{}} : Refill(unread)

\* A handler changes a store.
Mutate(s) ==
  /\ phase = "up" /\ content[s] < MaxVersion
  /\ content' = [content EXCEPT ![s] = @ + 1]
  /\ UNCHANGED <<phase, backend, digest, saved, threads, durable>> /\ NoFault

\* A flush begins: every store is to be visited.
Visit(t) ==
  /\ flush[t] = "idle"
  /\ flush' = [flush EXCEPT ![t] = "visiting"]
  /\ todo' = [todo EXCEPT ![t] = Stores]

\* The interval has passed: _run flushes, unless stop was asked for.
Tick ==
  /\ phase = "up" /\ Visit("ticker")
  /\ UNCHANGED <<phase, backend, memory, saved, held, payload, durable>> /\ NoFault

\* Mutant of Encode: payloads are saved whether they changed or not.
EncodeAlways(t, s) ==
  /\ held[t] = None /\ s \in todo[t]
  /\ todo' = [todo EXCEPT ![t] = @ \ {s}]
  /\ held' = [held EXCEPT ![t] = s]
  /\ payload' = [payload EXCEPT ![t] = content[s]]
  /\ UNCHANGED <<phase, backend, memory, saved, flush, durable>> /\ NoFault

\* A store is encoded; it is put aside to be saved unless its digest is the last
\* one written, or it changed under the encoder and waits for the next tick.
Encode(t, s) ==
  /\ held[t] = None /\ s \in todo[t]
  /\ todo' = [todo EXCEPT ![t] = @ \ {s}]
  /\ \/ /\ content[s] # digest[s] /\ NoFault
        /\ held' = [held EXCEPT ![t] = s]
        /\ payload' = [payload EXCEPT ![t] = content[s]]
     \/ content[s] = digest[s] /\ NoFault /\ UNCHANGED <<held, payload>>
     \/ Fault("encode") /\ UNCHANGED <<held, payload>>
  /\ UNCHANGED <<phase, backend, memory, saved, flush, durable>>

\* Mutant of Save: the digest is remembered although the write failed.
SaveMarked(t) ==
  LET s == held[t]
  IN /\ s # None
     /\ digest' = [digest EXCEPT ![s] = payload[t]]
     /\ \/ /\ saved' = [saved EXCEPT ![backend] = [@ EXCEPT ![s] = payload[t]]]
           /\ durable' = [durable EXCEPT ![s] = IF payload[t] > @ THEN payload[t] ELSE @]
           /\ NoFault
        \/ Fault("save") /\ UNCHANGED <<saved, durable>>
     /\ held' = [held EXCEPT ![t] = None]
     /\ UNCHANGED <<phase, backend, content, todo, flush, payload>>

\* The payload is written and its digest remembered; a write that fails is left to
\* the next flush.
Save(t) ==
  LET s == held[t]
  IN /\ s # None
     /\ \/ /\ saved' = [saved EXCEPT ![backend] = [@ EXCEPT ![s] = payload[t]]]
           /\ digest' = [digest EXCEPT ![s] = payload[t]]
           /\ durable' = [durable EXCEPT ![s] = IF payload[t] > @ THEN payload[t] ELSE @]
           /\ NoFault
        \/ Fault("save") /\ UNCHANGED <<saved, digest, durable>>
     /\ held' = [held EXCEPT ![t] = None]
     /\ UNCHANGED <<phase, backend, content, todo, flush, payload>>

Finished(t) == flush[t] = "visiting" /\ todo[t] = {} /\ held[t] = None

TickerDone ==
  /\ Finished("ticker")
  /\ flush' = [flush EXCEPT !["ticker"] = "idle"]
  /\ UNCHANGED <<phase, backend, memory, saved, todo, held, payload, durable>> /\ NoFault

\* Shutdown: requests and background workers have ended, stop is called.
BeginStop ==
  /\ phase = "up"
  /\ phase' = "stopping"
  /\ UNCHANGED <<backend, memory, saved, threads, durable>> /\ NoFault

\* Mutant of FinalFlush: stop does not join the background thread.
FinalFlushUnjoined ==
  /\ phase = "stopping" /\ Visit("main")
  /\ UNCHANGED <<phase, backend, memory, saved, held, payload, durable>> /\ NoFault

\* stop joins the background thread, for five seconds at most, and flushes.
FinalFlush ==
  /\ phase = "stopping" /\ Visit("main")
  /\ \/ flush["ticker"] = "idle" /\ NoFault
     \/ flush["ticker"] = "visiting" /\ Fault("slow")
  /\ UNCHANGED <<phase, backend, memory, saved, held, payload, durable>>

\* Mutant of Exit: stop writes no final snapshot.
ExitUnflushed ==
  /\ phase = "stopping" /\ flush["main"] = "idle"
  /\ phase' = "stopped"
  /\ Quiet
  /\ UNCHANGED <<backend, memory, saved, durable>> /\ NoFault

\* The process exits, and a background flush that is still under way (the thread
\* is a daemon) dies with it.
Exit ==
  /\ phase = "stopping" /\ Finished("main")
  /\ phase' = "stopped"
  /\ Quiet
  /\ UNCHANGED <<backend, memory, saved, durable>> /\ NoFault

\* The process dies; what was not saved is gone.
Crash ==
  /\ phase \in {"up", "stopping"} /\ Fault("crash")
  /\ phase' = "down"
  /\ content' = Nothing /\ digest' = Nothing
  /\ Quiet
  /\ UNCHANGED <<backend, saved, durable>>

FlushStep(t) == (\E s \in Stores : Encode(t, s)) \/ Save(t)

Next ==
  \/ Start \/ BeginStop \/ FinalFlush \/ Exit \/ Crash
  \/ \E s \in Stores : Mutate(s)
  \/ Tick \/ TickerDone
  \/ \E t \in Thread : FlushStep(t)

Spec == Init /\ [][Next]_vars

\* A running process keeps ticking and its threads keep going.
Fairness == WF_vars(Tick) /\ WF_vars(TickerDone) /\ WF_vars(FlushStep("ticker"))
FairSpec == Spec /\ Fairness

-----------------------------------------------------------------------------
(* Properties.                                                             *)

\* Stores "survive a restart": a running process holds at least what any process
\* before it has saved of each store.
Remembers == phase \in {"up", "stopping"} => \A s \in Stores : content[s] >= durable[s]

\* They do whatever crashes, fails to be saved or changes under the encoder.
Survives == suffered \subseteq {"crash", "save", "encode"} => Remembers

\* "shutdown writes a final snapshot": after a clean stop the snapshots are the
\* contents the stores ended with.
FinalSnapshot == phase = "stopped" => saved[backend] = content

\* They are, whatever background flush the stop meets and whatever crashed before,
\* when writes succeed and that flush ends in time.
ShutdownSaves == suffered \subseteq {"crash"} => FinalSnapshot

\* Why: a running process knows what is saved, and one thread flushes at a time
\* what is at least as new.
InStep ==
  /\ backend = "db"
  /\ saved["db"] = durable
  /\ phase \in {"up", "stopping"} => \A s \in Stores : digest[s] = durable[s]
  /\ phase \in {"down", "stopped"} => \A t \in Thread : flush[t] = "idle"
OneFlush ==
  /\ flush["main"] = "visiting" => flush["ticker"] = "idle" /\ phase = "stopping"
  /\ \A t \in Thread : held[t] # None =>
       /\ payload[t] >= durable[held[t]]
       /\ payload[t] <= content[held[t]]
Snapshots == suffered \subseteq {"crash", "save", "encode"} => Remembers /\ InStep /\ OneFlush

\* What the final flush has visited is written, and nothing changes any more.
Flushed ==
  phase = "stopping" /\ flush["main"] = "visiting" =>
    \A s \in Stores : \/ s \in todo["main"] \/ digest[s] = content[s]
                      \/ s = held["main"] /\ payload["main"] = content[s]
CleanShutdown == suffered \subseteq {"crash"} => FinalSnapshot /\ Flushed

\* A process that could not read a snapshot does not replace it by an empty store.
\* (By a seeded one, or one changed since, it does: only emptiness is looked at.)
EmptyNeverWritten ==
  [][\A b \in Backend : \A s \in Stores :
       saved'[b][s] # saved[b][s] => saved'[b][s] > 0]_saved

\* Why: an empty store has no digest to differ from, what is put aside to be saved is
\* never empty, and a process that has ended flushes no more.
NonEmpty ==
  /\ \A s \in Stores : content[s] = 0 => digest[s] = 0
  /\ \A t \in Thread : held[t] # None => payload[t] \in 1 .. content[held[t]]
  /\ phase \in {"down", "stopped"} => \A t \in Thread : flush[t] = "idle"

\* As long as the table can be reached and read, and the background flush ends in time,
\* the stores are what a snapshot promises, whatever crashes, fails to be saved or changes
\* under the encoder: nothing saved is overwritten by something older, whichever thread
\* is late, and a restart brings back all of it.
Changes(version) == UNION {{s} \X (1 .. version[s]) : s \in Stores}
Saved == Changes(saved["db"])
Records == IF phase \in {"up", "stopping"} THEN Changes(content) ELSE Saved
Promise == INSTANCE Snapshotting WITH current <- Records, kept <- Saved
ImplementsSnapshots ==
  /\ Promise!Init
  /\ [][suffered' \subseteq {"crash", "save", "encode"} => Promise!Next]_(Promise!vars)

\* A change is written in the end, or the process ends first: a failed or skipped
\* write is taken up again by a later tick.
EventuallySaved ==
  \A s \in Stores : \A v \in 1 .. MaxVersion :
    (phase = "up" /\ content[s] = v) ~> (saved[backend][s] >= v \/ phase # "up")
=============================================================================
